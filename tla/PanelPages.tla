----------------------------- MODULE PanelPages ----------------------------
(***************************************************************************)
(* The pages of the admin panel put together: the router mounts one at a   *)
(* time.  A page that is left loses its state, its locks and its dialogs;  *)
(* the changes it has sent stay in flight, in "left", and whoever opens    *)
(* the page again does not see them.                                       *)
(***************************************************************************)
EXTENDS DlqRetry, ProviderForms, FleetDrawer, PanelTeam, PanelAccount

vars == <<readVars, retryVars, providerVars, drawerVars, teamVars, accountVars>>

TypeOK ==
    /\ ReadsTypeOK
    /\ RetryTypeOK
    /\ ProvidersTypeOK
    /\ DrawerTypeOK
    /\ TeamTypeOK
    /\ AccountTypeOK

Init ==
    /\ ReadsInit
    /\ RetryInit
    /\ ProvidersInit
    /\ DrawerInit
    /\ TeamInit
    /\ AccountInit

(* The router leaves a platform page: its forms and dialogs go with it. *)
LeavePage ==
    /\ ClosePage
    /\ Leave(RetriesInFlight \cup WritesInFlight \cup ChangesInFlight)
    /\ RetryUnmount
    /\ ProvidersUnmount
    /\ DrawerUnmount
    /\ UNCHANGED <<teamVars, accountVars>>

(* What the platform pages do beyond their forms. *)
Browse ==
    /\ \/ \E p \in Pages : OpenPage(p)
       \/ \E f \in Filters : ChangeFilter(f)
       \/ Refresh
       \/ \E i \in Items : SelectRunbook(i)
       \/ CloseRunbook
       \/ ListAnswers
       \/ DetailAnswers
       \/ LeftAnswered
    /\ UNCHANGED <<retryVars, providerVars, drawerVars, teamVars, accountVars>>

Next ==
    \/ Browse
    \/ LeavePage
    \/ RetryNext /\ UNCHANGED <<providerVars, drawerVars, teamVars, accountVars>>
    \/ ProvidersNext /\ UNCHANGED <<retryVars, drawerVars, teamVars, accountVars>>
    \/ DrawerNext /\ UNCHANGED <<retryVars, providerVars, teamVars, accountVars>>
    \/ TeamNext /\ UNCHANGED <<retryVars, providerVars, drawerVars, accountVars>>
    \/ AccountNext /\ UNCHANGED <<retryVars, providerVars, drawerVars, teamVars>>

Spec == Init /\ [][Next]_vars

-----------------------------------------------------------------------------
(* While a page is mounted no click is sent twice.  Only buttons that are  *)
(* disabled stand between the operator and a second request; the dialogs   *)
(* they are in can be closed and opened again while the first is in        *)
(* flight, and the lock has to be released by the answer of the request    *)
(* that took it, never before and never too late.  The lock is state of    *)
(* the page: nothing is claimed across two visits, see RetriedOnce.        *)
NoDoubleSubmit ==
    /\ OneRetry
    /\ OneCreate
    /\ SavingIsOne
    /\ TeamOneChange
    /\ AccountBusyIsTrue

(* This does NOT hold.  The lock of the retry goes away with the page and  *)
(* the POST does not (FleetDlq.jsx 37, 57-60): leave while it is in        *)
(* flight, come back and confirm, and the same retry is in flight twice.   *)
(* The other forms of the pages behave alike.                              *)
RetriedOnce ==
    \A c \in retryCalls : [from |-> "dlq", op |-> "retry", on |-> c.tenant] \notin left
=============================================================================
