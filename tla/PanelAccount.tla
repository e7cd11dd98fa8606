---------------------------- MODULE PanelAccount ---------------------------
(***************************************************************************)
(* The account pages that talk to the API: AccountProfile and              *)
(* AccountNotifications, a form that is filled by a GET and sent by a      *)
(* PATCH, and AccountSessions, a list without a cancelled flag whose rows  *)
(* can be revoked.  The values of the form are abstracted to where each    *)
(* came from; the email, which cannot be edited, is left out.              *)
(***************************************************************************)
EXTENDS PanelReads

CONSTANTS Fields,      \* fields of the form, or cells of the matrix
          MaxAccount   \* bound on the requests of a page

ASSUME MaxAccountAssumption == MaxAccount \in Nat \ {0}

VARIABLES form,        \* where the value of each field came from
          hydrating,   \* the GET of this page is in flight
          saves,       \* PATCHes in flight: the form that each one sends
          accSaving,
          accError,    \* the banner of a 4xx
          sessRows,    \* the read that is listed, 0 when none
          sessLoading,
          sessCalls,   \* reads and revocations in flight
          accSent

accFormVars   == <<form, hydrating, saves, accSaving, accError>>
sessVars    == <<sessRows, sessLoading, sessCalls>>
accountVars == <<accFormVars, sessVars, accSent>>

FormPages == {"profile", "notifications"}
Initial   == [f \in Fields |-> "default"]
Forms     == [Fields -> {"default", "server", "user"}]
SessCall  == [n : 1..MaxAccount, op : {"read", "revoke"}]

AccountTypeOK ==
    /\ form \in Forms
    /\ hydrating \in BOOLEAN
    /\ saves \subseteq Forms
    /\ accSaving \in BOOLEAN
    /\ accError \in BOOLEAN
    /\ sessRows \in 0..MaxAccount
    /\ sessLoading \in BOOLEAN
    /\ sessCalls \subseteq SessCall
    /\ accSent \in 0..MaxAccount

AccountInit ==
    /\ form = Initial
    /\ hydrating = FALSE
    /\ saves = {}
    /\ accSaving = FALSE
    /\ accError = FALSE
    /\ sessRows = 0
    /\ sessLoading = FALSE
    /\ sessCalls = {}
    /\ accSent = 0

-----------------------------------------------------------------------------
(* The page mounts and reads: the form is drawn with its defaults first. *)
OpenAccount(p) ==
    /\ page = NoPage
    /\ page' = p
    /\ accSent' = 1
    /\ IF p = "sessions"
       THEN /\ sessLoading' = TRUE
            /\ sessCalls' = {[n |-> 1, op |-> "read"]}
            /\ UNCHANGED hydrating
       ELSE /\ hydrating' = TRUE
            /\ UNCHANGED <<sessLoading, sessCalls>>
    /\ UNCHANGED <<left, listVars, detailVars, form, saves, accSaving, accError, sessRows>>

AccountChangesInFlight ==
    {Sent("save", NoItem) : s \in saves}
        \cup {Sent("revoke", NoItem) : c \in {d \in sessCalls : d.op = "revoke"}}

(* Another section of the account, or "Volver al panel"; what has been sent*)
(* is not aborted.                                                         *)
CloseAccount ==
    /\ page \in FormPages \cup {"sessions"}
    /\ page' = NoPage
    /\ Leave(AccountChangesInFlight)
    /\ form' = Initial
    /\ hydrating' = FALSE
    /\ saves' = {}
    /\ accSaving' = FALSE
    /\ accError' = FALSE
    /\ sessRows' = 0
    /\ sessLoading' = FALSE
    /\ sessCalls' = {}
    /\ accSent' = 0
    /\ UNCHANGED <<listVars, detailVars>>

(* The GET of the form answers: what the server has replaces what is in    *)
(* the form, what the user has typed meanwhile included.                   *)
Hydrate(stored) ==
    /\ hydrating
    /\ hydrating' = FALSE
    /\ form' = [f \in Fields |-> IF f \in stored THEN "server" ELSE form[f]]
    /\ UNCHANGED <<readVars, saves, accSaving, accError, sessVars, accSent>>

(* It fails: the defaults stay, silently. *)
HydrateFails == Hydrate({})

(* A keystroke, or a toggle of the matrix; neither waits for the GET nor   *)
(* for a save.                                                             *)
EditForm(f) ==
    /\ page \in FormPages
    /\ form' = [form EXCEPT ![f] = "user"]
    /\ accError' = FALSE
    /\ UNCHANGED <<readVars, hydrating, saves, accSaving, sessVars, accSent>>

(* onSubmit / onSave: the handler tests "saving", the button is disabled.  *)
SubmitAccount ==
    /\ page \in FormPages
    /\ ~accSaving
    /\ accSent < MaxAccount
    /\ accSent' = accSent + 1
    /\ accSaving' = TRUE
    /\ accError' = FALSE
    /\ saves' = saves \cup {form}
    /\ UNCHANGED <<readVars, form, hydrating, sessVars>>

(* The PATCH ends: a toast, or the banner for a 4xx.  The form stays. *)
AccountSaved(s) ==
    /\ s \in saves
    /\ saves' = saves \ {s}
    /\ accSaving' = FALSE
    /\ accError' \in {accError, TRUE}
    /\ UNCHANGED <<readVars, form, hydrating, sessVars, accSent>>

(* onRevoke: nothing but the current session's button is ever disabled.    *)
RevokeSession ==
    /\ page = "sessions"
    /\ sessRows # 0
    /\ accSent < MaxAccount
    /\ accSent' = accSent + 1
    /\ sessCalls' = sessCalls \cup {[n |-> accSent + 1, op |-> "revoke"]}
    /\ UNCHANGED <<readVars, accFormVars, sessRows, sessLoading>>

(* The session is gone: the list is read again, whatever is being read.    *)
(* The read takes the number of the revocation.                            *)
SessionRevoked(c) ==
    /\ c \in sessCalls
    /\ c.op = "revoke"
    /\ sessCalls' = (sessCalls \ {c}) \cup {[c EXCEPT !.op = "read"]}
    /\ sessLoading' = TRUE
    /\ UNCHANGED <<readVars, accFormVars, sessRows, accSent>>

(* It was not revoked: a toast. *)
RevokeFailed(c) ==
    /\ c \in sessCalls
    /\ c.op = "revoke"
    /\ sessCalls' = sessCalls \ {c}
    /\ UNCHANGED <<readVars, accFormVars, sessRows, sessLoading, accSent>>

(* A list arrives, or an error that empties it; the spinner stops although *)
(* another read may be in flight.                                          *)
SessionsRead(c) ==
    /\ c \in sessCalls
    /\ c.op = "read"
    /\ sessCalls' = sessCalls \ {c}
    /\ sessRows' \in {c.n, 0}
    /\ sessLoading' = FALSE
    /\ UNCHANGED <<readVars, accFormVars, accSent>>

AccountNext ==
    \/ \E p \in FormPages \cup {"sessions"} : OpenAccount(p)
    \/ CloseAccount
    \/ \E stored \in SUBSET Fields : Hydrate(stored)
    \/ HydrateFails
    \/ \E f \in Fields : EditForm(f)
    \/ SubmitAccount
    \/ \E s \in saves : AccountSaved(s)
    \/ RevokeSession
    \/ \E c \in sessCalls : SessionRevoked(c) \/ RevokeFailed(c) \/ SessionsRead(c)

-----------------------------------------------------------------------------
(* What says "saving" or "loading" has a request behind it, so it ends     *)
(* with its request; and a form is never sent twice at once, although it   *)
(* can be edited, and filled by its late GET, while it is being saved.     *)
AccountBusyIsTrue ==
    /\ Cardinality(saves) = IF accSaving THEN 1 ELSE 0
    /\ sessLoading => \E c \in sessCalls : c.op = "read"
=============================================================================
