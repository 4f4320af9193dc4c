--------------------------- MODULE NotificationsPage ---------------------------
(***************************************************************************)
(* The contacts on the notifications page (useNotificationsPageState): one *)
(* load when the page opens, and writes whose answers are merged into the  *)
(* list.  Requests are served and answered in any order; those of a page   *)
(* that has been closed, or of a document that is gone, may still be       *)
(* served.                                                                 *)
(***************************************************************************)
EXTENDS Naturals, Sequences, SequencesExt

CONSTANTS
    Contacts,  \* contact_id
    Calls      \* requests that may be under way at a time

ASSUME PageAssumption == IsFiniteSet(Contacts) /\ "all" \notin Contacts

VARIABLES
    server,   \* notification_contacts: "none", "on" or "off"
    open,     \* is the page shown?
    loading,  \* isLoading
    list,     \* notificationContacts
    marked,   \* updatingContactId, "none": null
    call      \* the requests under way

page  == <<open, loading, list, marked>>
pvars == <<server, page, call>>

Kinds  == {"load", "create", "update"}
NoCall == [kind |-> "none"]

\* stage: on its way, served, or failed; from: whose answer it is, that of the
\* page, of a page closed since, or of a document that is gone.
CallTypes ==
    [kind : Kinds, id : Contacts \cup {"all"}, to : {"on", "off"},
     stage : {"sent", "served", "failed"}, from : {"page", "closed", "gone"},
     result : [Contacts -> {"none", "on", "off"}]]

NoContacts == [k \in Contacts |-> "none"]

\* The contact an answer shows, and the page's list as a function.
Item(k, v) == [id |-> k, value |-> v]
Listed == {list[i].id : i \in DOMAIN list}
ValueOf(k) == list[SelectInSeq(list, LAMBDA x : x.id = k)].value

UnderWay == {c \in Calls : call[c] # NoCall}
\* The requests about a contact; the load is about every contact.
About(k) == {c \in UnderWay : call[c].id \in {k, "all"}}

PInit ==
    /\ server \in [Contacts -> {"none", "on", "off"}]
    /\ open = FALSE
    /\ loading = TRUE
    /\ list = << >>
    /\ marked = "none"
    /\ call = [c \in Calls |-> NoCall]

-----------------------------------------------------------------------------
(* Requests                                                                *)

Send(c, kind, k, v) ==
    /\ call[c] = NoCall
    /\ call' = [call EXCEPT ![c] = [kind |-> kind, id |-> k, to |-> v,
                                    stage |-> "sent", from |-> "page",
                                    result |-> NoContacts]]

\* What the contact routes do.  Creating a contact that is enabled is refused;
\* one that is disabled is enabled.
Serve(c) ==
    /\ call[c] # NoCall
    /\ call[c].stage = "sent"
    /\ server' = IF call[c].kind = "load" THEN server
                 ELSE [server EXCEPT ![call[c].id] = call[c].to]
    /\ call' = IF call[c].kind = "create" /\ server[call[c].id] = "on"
               THEN [call EXCEPT ![c].stage = "failed"]
               ELSE [call EXCEPT ![c].stage = "served",
                                 ![c].result =
                                     [k \in Contacts |->
                                         IF call[c].id \in {k, "all"}
                                         THEN server'[k] ELSE "none"]]
    /\ UNCHANGED page

\* The request is not served, or it is and the answer is an error.
Fail(c) ==
    /\ call[c] # NoCall
    /\ call[c].stage # "failed"
    /\ call' = [call EXCEPT ![c].stage = "failed", ![c].result = NoContacts]
    /\ UNCHANGED <<server, page>>

\* Another user, or the feedback processor, changes a contact.
ChangeElsewhere(k) ==
    /\ server' \in {[server EXCEPT ![k] = v] : v \in {"on", "off"}}
    /\ server' # server
    /\ UNCHANGED <<page, call>>

-----------------------------------------------------------------------------
(* The page                                                                *)

\* The requests under way lose what waited for their answers.
Detached(from) ==
    [c \in Calls |-> IF call[c] = NoCall THEN NoCall
                     ELSE IF from = "gone" \/ call[c].from = "page"
                     THEN [call[c] EXCEPT !.from = from]
                     ELSE call[c]]

\* The component mounts and its effect sends the load.
OpenPage(c) ==
    /\ ~open
    /\ open' = TRUE
    /\ loading' = TRUE
    /\ list' = << >>
    /\ marked' = "none"
    /\ Send(c, "load", "all", "on")
    /\ UNCHANGED server

ClosePage(from) ==
    /\ open' = FALSE
    /\ loading' = TRUE
    /\ list' = << >>
    /\ marked' = "none"
    /\ call' = Detached(from)
    /\ UNCHANGED server

\* handleToggleContact; the button is disabled for the contact marked.
Toggle(c, k) ==
    /\ open /\ ~loading
    /\ k \in Listed
    /\ marked # k
    /\ marked' = k
    /\ Send(c, "update", k, IF ValueOf(k) = "on" THEN "off" ELSE "on")
    /\ UNCHANGED <<server, open, loading, list>>

\* handleCreateContact; the form may be submitted at any time.
AddContact(c, k) ==
    /\ open
    /\ Send(c, "create", k, "on")
    /\ UNCHANGED <<server, page>>

\* The answer to the load replaces the list.
LoadAnswered(c) ==
    /\ call[c].kind = "load"
    /\ list' \in SetToSeqs({Item(k, call[c].result[k]) :
                               k \in {x \in Contacts : call[c].result[x] # "none"}})
    /\ loading' = FALSE
    /\ UNCHANGED marked

\* Fault: what is new is put first without a look at the list.
Prepend(item) == <<item>> \o list

\* Fault: a contact that is listed stays as it is.
AddMissing(item) == IF item.id \in Listed THEN list ELSE <<item>> \o list

\* upsertContact
Upsert(item) ==
    IF item.id \notin Listed THEN <<item>> \o list
    ELSE [i \in DOMAIN list |-> IF list[i].id = item.id THEN item ELSE list[i]]

\* The answer to a write is merged; that to an update clears the mark.
WriteAnswered(c) ==
    /\ call[c].kind # "load"
    /\ list' = Upsert(Item(call[c].id, call[c].result[call[c].id]))
    /\ marked' = IF call[c].kind = "update" THEN "none" ELSE marked
    /\ UNCHANGED loading

\* An error is shown; the list stays.
ErrorAnswered(c) ==
    /\ loading' = IF call[c].kind = "load" THEN FALSE ELSE loading
    /\ marked' = IF call[c].kind = "update" THEN "none" ELSE marked
    /\ UNCHANGED list

Answer(c) ==
    /\ call[c] # NoCall
    /\ call[c].stage # "sent"
    /\ call' = [call EXCEPT ![c] = NoCall]
    /\ IF call[c].from # "page" THEN UNCHANGED page
       ELSE /\ \/ call[c].stage = "served" /\ LoadAnswered(c)
               \/ call[c].stage = "served" /\ WriteAnswered(c)
               \/ call[c].stage = "failed" /\ ErrorAnswered(c)
            /\ UNCHANGED open
    /\ UNCHANGED server

-----------------------------------------------------------------------------

\* What the page and the server do by themselves.
PageStep(c) ==
    \/ Serve(c) \/ Fail(c) \/ Answer(c)
    \/ \E k \in Contacts : Toggle(c, k) \/ AddContact(c, k)

=============================================================================
