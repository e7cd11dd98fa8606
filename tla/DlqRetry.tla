----------------------------- MODULE DlqRetry -----------------------------
(***************************************************************************)
(* Bulk retry of the outbound dead letters of one tenant, from the fleet   *)
(* page: FleetDlq and its confirmation dialog DlqRetryConfirm.  The dialog *)
(* can be closed while the request is in flight; the page keeps "retrying" *)
(* and the request, and the answer lands in whatever dialog is open then.  *)
(***************************************************************************)
EXTENDS PanelReads

CONSTANTS MaxRetries   \* bound on the retries that are confirmed

ASSUME MaxRetriesAssumption == MaxRetries \in Nat

VARIABLES retryTenant,   \* the tenant of the dialog, NoItem when it is closed
          retrying,
          retryResult,   \* the tenant the outcome shown is about, or NoItem
          retryError,
          retryCalls,    \* POSTs in flight, by number and tenant
          retries        \* how many have been sent

retryVars == <<retryTenant, retrying, retryResult, retryError, retryCalls, retries>>

RetryTypeOK ==
    /\ retryTenant \in Items \cup {NoItem}
    /\ retrying \in BOOLEAN
    /\ retryResult \in Items \cup {NoItem}
    /\ retryError \in BOOLEAN
    /\ retryCalls \subseteq [n : 1..MaxRetries, tenant : Items]
    /\ retries \in 0..MaxRetries

RetryInit ==
    /\ retryTenant = NoItem
    /\ retrying = FALSE
    /\ retryResult = NoItem
    /\ retryError = FALSE
    /\ retryCalls = {}
    /\ retries = 0

RetriesInFlight == {Sent("retry", c.tenant) : c \in retryCalls}

(* The page goes away and its state with it, the lock of the button        *)
(* included; its POSTs are not aborted.                                    *)
RetryUnmount ==
    /\ RetriesInFlight \subseteq left'
    /\ retryTenant' = NoItem
    /\ retrying' = FALSE
    /\ retryResult' = NoItem
    /\ retryError' = FALSE
    /\ retryCalls' = {}
    /\ retries' = 0

(* "Reintentar" in a row of the table: the table is there unless the page  *)
(* shows its error or the first load, and no dialog covers it.             *)
OpenRetry(t) ==
    /\ page = "dlq"
    /\ DlqTable = "content"
    /\ retryTenant = NoItem
    /\ retryTenant' = t
    /\ retryResult' = NoItem
    /\ retryError' = FALSE
    /\ UNCHANGED <<readVars, retrying, retryCalls, retries>>

(* "Cancelar", "Cerrar", Escape or the backdrop, at any time. *)
CloseRetry ==
    /\ retryTenant # NoItem
    /\ retryTenant' = NoItem
    /\ retryResult' = NoItem
    /\ retryError' = FALSE
    /\ UNCHANGED <<readVars, retrying, retryCalls, retries>>

(* Mutant: the button is disabled only by the dialog that it is in. *)
ConfirmRetryAgain ==
    /\ retryTenant # NoItem
    /\ retryResult = NoItem
    /\ retries < MaxRetries
    /\ retrying' = TRUE
    /\ retryError' = FALSE
    /\ retries' = retries + 1
    /\ retryCalls' = retryCalls \cup {[n |-> retries + 1, tenant |-> retryTenant]}
    /\ UNCHANGED <<readVars, retryTenant, retryResult>>

(* The confirm button is there until an outcome is shown and disabled      *)
(* while a retry is in flight.                                             *)
ConfirmRetry ==
    /\ retryTenant # NoItem
    /\ retryResult = NoItem
    /\ ~retrying
    /\ retries < MaxRetries
    /\ retrying' = TRUE
    /\ retryError' = FALSE
    /\ retries' = retries + 1
    /\ retryCalls' = retryCalls \cup {[n |-> retries + 1, tenant |-> retryTenant]}
    /\ UNCHANGED <<readVars, retryTenant, retryResult>>

(* The POST succeeded: its outcome is shown and the page is read again. *)
RetryDone(c) ==
    /\ c \in retryCalls
    /\ retryCalls' = retryCalls \ {c}
    /\ retryResult' = c.tenant
    /\ retrying' = FALSE
    /\ UNCHANGED <<page, left, detailVars, retryTenant, retryError, retries>>
    /\ List!Reload

RetryFailed(c) ==
    /\ c \in retryCalls
    /\ retryCalls' = retryCalls \ {c}
    /\ retryError' = TRUE
    /\ retrying' = FALSE
    /\ UNCHANGED <<readVars, retryTenant, retryResult, retries>>

RetryNext ==
    \/ \E t \in Items : OpenRetry(t)
    \/ CloseRetry
    \/ ConfirmRetry
    \/ \E c \in retryCalls : RetryDone(c) \/ RetryFailed(c)

-----------------------------------------------------------------------------
(* A page has at most one bulk retry in flight, although the dialog can be *)
(* closed and opened again while one is: the messages of a tenant are not  *)
(* queued twice by an impatient operator.                                  *)
OneRetry == Cardinality(retryCalls) <= 1 /\ (retrying <=> retryCalls # {})

(* "After the request resolves, the modal shows the outcome": the outcome  *)
(* in the dialog is the one of the tenant named in its title.              *)
OutcomeOfTheTenant ==
    (retryTenant # NoItem /\ retryResult # NoItem) => retryResult = retryTenant
=============================================================================
