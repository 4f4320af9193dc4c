---------------------------- MODULE BrowserSession ----------------------------
(***************************************************************************)
(* Signing in and out in one browser tab (lib/auth.ts, AuthContext,        *)
(* AuthCallbackPage).  sessionStorage survives the documents of the tab;   *)
(* what is in memory is lost whenever the tab goes to the Hosted UI, is    *)
(* reloaded, or goes back in its history.                                  *)
(*                                                                         *)
(* Sign-ins are numbered.  The number stands for the state, the verifier   *)
(* and the return path, which are stored and cleared together, and for the *)
(* session it leads to.                                                    *)
(***************************************************************************)
EXTENDS Naturals

CONSTANT MaxSignIns  \* bound on the sign-ins the user begins

ASSUME SignInsAssumption == MaxSignIns \in Nat

VARIABLES
    stored,    \* the session in sessionStorage, 0: none
    pending,   \* the pending sign-in in sessionStorage, 0: none
    memory,    \* the session in the state of AuthProvider, 0: none
    place,     \* where the tab is
    callback,  \* the sign-in whose code is being exchanged, 0: none
    signins,   \* how many sign-ins have been begun
    expired    \* the sessions the API no longer accepts

svars == <<stored, pending, memory, place, callback, signins, expired>>

Sessions == 0..MaxSignIns

\* "app": a protected page; "leaving": the landing page or the error of the
\* callback page once the redirect to the Hosted UI has been asked for; "away":
\* no document of the frontend is there.
Places == {"landing", "app", "exchange", "error", "leaving", "away"}

SInit ==
    /\ stored = 0
    /\ pending = 0
    /\ memory = 0
    /\ place = "away"
    /\ callback = 0
    /\ signins = 0
    /\ expired = {}

-----------------------------------------------------------------------------
(* A document starts                                                       *)

\* parseStoredSession: an expired session is cleared, and with it whatever
\* sign-in is pending.
IsAlive == stored # 0 /\ stored \notin expired
SessionRead == IF IsAlive THEN stored ELSE 0
PendingRead == IF stored # 0 /\ ~IsAlive THEN 0 ELSE pending

\* The user opens a page of the frontend, or returns from the logout.
StartApp ==
    /\ place = "away"
    /\ memory' = SessionRead
    /\ stored' = SessionRead
    /\ pending' = PendingRead
    /\ place' = IF memory' = 0 THEN "landing" ELSE "app"
    /\ UNCHANGED <<callback, signins, expired>>

\* The Hosted UI returns with the state of any sign-in begun in this tab: the
\* user may have gone back to the Hosted UI of an earlier one.
StartCallback(n) ==
    /\ place = "away"
    /\ memory' = SessionRead
    /\ stored' = SessionRead
    /\ IF PendingRead = n
       THEN /\ pending' = n
            /\ place' = "exchange"
            /\ callback' = n
       ELSE /\ pending' = 0
            /\ place' = "error"
            /\ callback' = 0
    /\ UNCHANGED <<signins, expired>>

\* Fault: an error from the Hosted UI discards the pending sign-in.
StartCallbackErrorClears ==
    /\ place = "away"
    /\ memory' = SessionRead
    /\ stored' = SessionRead
    /\ pending' = 0
    /\ place' = "error"
    /\ UNCHANGED <<callback, signins, expired>>

\* The Hosted UI returns with an error, or without a code.
StartCallbackError ==
    /\ place = "away"
    /\ memory' = SessionRead
    /\ stored' = SessionRead
    /\ pending' = PendingRead
    /\ place' = "error"
    /\ UNCHANGED <<callback, signins, expired>>

\* Fault: the callback is not over when the session is set.
ExchangedStill ==
    /\ place = "exchange"
    /\ stored' = callback
    /\ memory' = callback
    /\ pending' = 0
    /\ place' = "app"
    /\ UNCHANGED <<callback, signins, expired>>

\* exchangeAuthorizationCode succeeds: the session is stored, then set.
Exchanged ==
    /\ place = "exchange"
    /\ stored' = callback
    /\ memory' = callback
    /\ pending' = 0
    /\ place' = "app"
    /\ callback' = 0
    /\ UNCHANGED <<signins, expired>>

\* It fails: the pending sign-in stays.
ExchangeFails ==
    /\ place = "exchange"
    /\ place' = "error"
    /\ callback' = 0
    /\ UNCHANGED <<stored, pending, memory, signins, expired>>

-----------------------------------------------------------------------------
(* A document ends                                                         *)

\* redirectToHostedUiSignIn; the button stays enabled until the tab has left.
SignIn ==
    /\ place \in {"landing", "error", "leaving"}
    /\ signins < MaxSignIns
    /\ signins' = signins + 1
    /\ pending' = signins + 1
    /\ place' = "leaving"
    /\ UNCHANGED <<stored, memory, callback, expired>>

\* The redirect, a reload, a step in the history, another address.
Leave ==
    /\ place # "away"
    /\ place' = "away"
    /\ memory' = 0
    /\ callback' = 0
    /\ UNCHANGED <<stored, pending, signins, expired>>

SignOut ==
    /\ place = "app"
    /\ stored' = 0
    /\ pending' = 0
    /\ memory' = 0
    /\ place' = "away"
    /\ UNCHANGED <<callback, signins, expired>>

\* Fault: the session stays in sessionStorage.
MarkSessionExpiredInMemory ==
    /\ memory' = 0
    /\ place' = IF place = "app" THEN "landing" ELSE place
    /\ UNCHANGED <<stored, pending, callback, signins, expired>>

\* markSessionExpired; a protected page redirects to the landing page.
MarkSessionExpired ==
    /\ stored' = 0
    /\ pending' = 0
    /\ memory' = 0
    /\ place' = IF place = "app" THEN "landing" ELSE place
    /\ UNCHANGED <<callback, signins, expired>>

\* The tokens expire; nothing in the tab changes.
Expire ==
    /\ stored \notin expired \cup {0}
    /\ expired' = expired \cup {stored}
    /\ UNCHANGED <<stored, pending, memory, place, callback, signins>>

=============================================================================
