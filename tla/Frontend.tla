------------------------------- MODULE Frontend -------------------------------
(***************************************************************************)
(* The notifications page in a signed-in browser tab, with history         *)
(* variables.  A request carries the session it was sent with, and an      *)
(* answer 401 ends the session.  Documents that end take the page and what *)
(* waits for answers with them.                                            *)
(***************************************************************************)
EXTENDS NotificationsPage, BrowserSession

VARIABLES
    token,      \* the session a request was sent with
    disturbed,  \* contacts whose requests have overlapped or failed, or that
                \* were changed elsewhere, since the last request alone started
    spoilt,     \* has anything cleared the sign-in begun last?
    done        \* the sign-ins that have led to a session

history == <<disturbed, spoilt, done>>
fvars   == <<pvars, svars, token, history>>

FInit ==
    /\ PInit
    /\ SInit
    /\ token = [c \in Calls |-> 0]
    /\ disturbed = {}
    /\ spoilt = FALSE
    /\ done = {}

-----------------------------------------------------------------------------
(* Steps of both                                                           *)

\* fetch attaches the session of the page; a call that is over has none.
TokenKept ==
    token' = [c \in Calls |-> IF call'[c] = NoCall THEN 0
                              ELSE IF call[c] = NoCall THEN memory
                              ELSE token[c]]

\* The API serves no request with an expired session.
PageNext ==
    /\ \E c \in Calls : /\ PageStep(c) \/ (place = "app" /\ OpenPage(c))
                        /\ Serve(c) => token[c] \notin expired
    /\ TokenKept
    /\ UNCHANGED svars

LeavePage ==
    /\ open
    /\ ClosePage("closed")
    /\ UNCHANGED <<token, svars>>

Elsewhere ==
    /\ \E k \in Contacts : ChangeElsewhere(k)
    /\ UNCHANGED <<token, svars>>

\* The answer 401 or 403: the session ends, whichever it is now, and the page
\* is left.  A document that is gone does not notice.
Unauthorized(c) ==
    /\ call[c] # NoCall
    /\ call[c].stage = "sent"
    /\ call[c].from # "gone"
    /\ token[c] \in expired
    /\ MarkSessionExpired
    /\ server' = server
    /\ open' = FALSE
    /\ loading' = TRUE
    /\ list' = << >>
    /\ marked' = "none"
    /\ call' = [Detached("closed") EXCEPT ![c] = NoCall]
    /\ TokenKept

\* The document ends, by the user or by the frontend itself.
DocumentEnds ==
    /\ Leave \/ SignOut
    /\ ClosePage("gone")
    /\ UNCHANGED token

SessionNext ==
    /\ \/ StartApp \/ StartCallbackError
       \/ \E n \in 1..signins : StartCallback(n)
       \/ Exchanged \/ ExchangeFails
       \/ SignIn \/ Expire
    /\ UNCHANGED <<pvars, token>>

-----------------------------------------------------------------------------
(* History                                                                 *)

Started(k) == {c \in Calls : /\ call[c] = NoCall
                             /\ call'[c] # NoCall
                             /\ call'[c].id \in {k, "all"}}

\* The server changed without a request of this tab, or the answer to one is an
\* error.
Misled(k) ==
    \/ server'[k] # server[k] /\ call' = call
    \/ \E c \in About(k) : /\ call'[c] # NoCall
                           /\ call'[c].stage = "failed"
                           /\ call[c].stage # "failed"

Noted ==
    /\ disturbed' =
          {k \in Contacts : \/ k \in disturbed /\ (Started(k) # {} => About(k) # {})
                            \/ Started(k) # {} /\ About(k) # {}
                            \/ Misled(k)}
    /\ spoilt' = CASE signins' > signins -> FALSE
                   [] SignOut \/ MarkSessionExpired -> TRUE
                   [] place = "away" /\ place' # "away" ->
                         \/ spoilt
                         \/ stored \in expired
                         \/ place' = "error" /\ \E n \in 1..(signins - 1) :
                                                     StartCallback(n)
                   [] OTHER -> spoilt
    /\ done' = IF place = "exchange" /\ place' = "app" THEN done \cup {callback}
                                                      ELSE done

FNext ==
    /\ \/ PageNext \/ LeavePage \/ Elsewhere
       \/ \E c \in Calls : Unauthorized(c)
       \/ DocumentEnds \/ SessionNext
    /\ Noted

FSpec == FInit /\ [][FNext]_fvars

-----------------------------------------------------------------------------
(* Properties                                                              *)

\* Every variable keeps the values its state, storage entry or request can
\* hold, and the page is shown only where a session is.
TypeOK ==
    /\ server \in [Contacts -> {"none", "on", "off"}]
    /\ loading \in BOOLEAN
    /\ \A i \in DOMAIN list : list[i].id \in Contacts /\ list[i].value \in {"on", "off"}
    /\ marked \in Contacts \cup {"none"}
    /\ \A c \in Calls : call[c] = NoCall \/ call[c] \in CallTypes
    /\ stored \in Sessions /\ pending \in Sessions /\ memory \in Sessions
    /\ place \in Places
    /\ callback \in Sessions
    /\ place = "exchange" <=> callback # 0
    /\ signins \in Sessions
    /\ expired \subseteq 1..signins
    /\ open => place = "app" /\ memory # 0
    /\ token \in [Calls -> Sessions]

\* Answers may come late, in any order, and after the page was left and opened
\* again; yet a contact is shown otherwise than it is, with no request for it
\* under way, only if two requests for it have overlapped, one was answered
\* with an error, or somebody else has changed it.
StaleOnlyByOverlap ==
    \A k \in Contacts \ disturbed :
        (open /\ ~loading /\ About(k) = {}) =>
            IF server[k] = "none" THEN k \notin Listed
            ELSE k \in Listed /\ ValueOf(k) = server[k]

\* No contact is listed twice, though the load may show one whose creation is
\* answered later.
NoneTwice ==
    \A i, j \in DOMAIN list : list[i].id = list[j].id => i = j

\* The tab and its storage agree on who is signed in, so that a reload neither
\* ends a session nor brings one back; and a late answer cannot end a session
\* other than the one its request was sent with.
SessionsAgree ==
    /\ place # "away" => memory = stored
    /\ \A c \in UnderWay : call[c].from # "gone" /\ memory # 0 => token[c] = memory

\* The sign-in begun last can be completed when the Hosted UI returns from it,
\* once, unless one of five things has come first: the callback of an earlier
\* one, a late 401, a sign-out, an expired session found by a new document, or
\* a callback of its own that was completed.
SignInCompletes ==
    [][(place = "away" /\ StartCallback(signins)) =>
          \/ place' = "exchange"
          \/ spoilt' \/ signins \in done]_fvars

=============================================================================
