--------------------------- MODULE ProviderForms --------------------------
(***************************************************************************)
(* The provider pages: AIProviders with TestProviderModal, EmailProviders, *)
(* and their containers.  The container owns the list and replaces its     *)
(* whole child by the loading screen while it reads, so every reload       *)
(* throws the child's state away: open forms, test dialogs, results.  The  *)
(* child is numbered by the run of the list hook that brought it up; an    *)
(* answer meant for an older child still reaches the container, but no     *)
(* longer the child.                                                       *)
(***************************************************************************)
EXTENDS PanelReads

CONSTANTS MaxWrites   \* bound on the requests the provider pages send

ASSUME MaxWritesAssumption == MaxWrites \in Nat

VARIABLES editing,     \* the row of the form, "create", or NoItem
          saving,
          formError,
          testRow,     \* the row of the test dialog, NoItem when closed
          testing,
          testResult,  \* the row whose result is shown, NoItem when none
          banner,      \* the container's error
          writes,      \* requests in flight
          sent         \* how many have been sent

formVars == <<editing, saving, formError, testRow, testing, testResult>>
providerVars == <<formVars, banner, writes, sent>>

Create == "create"
Child  == lGen

(* A request: what it does, to which row, and which child sent it. *)
Write == [n : 1..MaxWrites, op : {"save", "delete", "test"},
          row : Items \cup {Create}, child : 1..MaxReads]

ProvidersTypeOK ==
    /\ editing \in Items \cup {Create, NoItem}
    /\ saving \in BOOLEAN
    /\ formError \in BOOLEAN
    /\ testRow \in Items \cup {NoItem}
    /\ testing \in BOOLEAN
    /\ testResult \in Items \cup {NoItem}
    /\ banner \in BOOLEAN
    /\ writes \subseteq Write
    /\ sent \in 0..MaxWrites

(* The state of a child that has just been mounted. *)
FreshChild ==
    /\ editing' = NoItem
    /\ saving' = FALSE
    /\ formError' = FALSE
    /\ testRow' = NoItem
    /\ testing' = FALSE
    /\ testResult' = NoItem

ProvidersInit ==
    /\ editing = NoItem
    /\ saving = FALSE
    /\ formError = FALSE
    /\ testRow = NoItem
    /\ testing = FALSE
    /\ testResult = NoItem
    /\ banner = FALSE
    /\ writes = {}
    /\ sent = 0

WritesInFlight == {Sent(w.op, w.row) : w \in writes}

(* The container goes away with its child; its requests are not aborted.   *)
ProvidersUnmount ==
    /\ WritesInFlight \subseteq left'
    /\ FreshChild
    /\ banner' = FALSE
    /\ writes' = {}
    /\ sent' = 0

(* The child is on the screen. *)
ChildShown == page \in {"ai", "email"} /\ ProvidersScreen = "content"

(* Modal: backdrop, focus trap and Escape keep the page behind it out of    *)
(* reach.                                                                  *)
NoModal == editing = NoItem /\ testRow = NoItem

Send(op, row) ==
    /\ sent < MaxWrites
    /\ sent' = sent + 1
    /\ writes' = writes \cup {[n |-> sent + 1, op |-> op, row |-> row,
                               child |-> Child]}

(* The hook's effect clears the banner when it runs. *)
ReloadChild ==
    /\ UNCHANGED <<page, left, detailVars>>
    /\ List!Reload
    /\ FreshChild
    /\ banner' = FALSE

-----------------------------------------------------------------------------
(* startEdit of either page: the form of a row that is in the list. *)
StartEdit(r) ==
    /\ ChildShown
    /\ NoModal
    /\ editing' = r
    /\ formError' = FALSE
    /\ UNCHANGED <<readVars, saving, testRow, testing, testResult, banner, writes, sent>>

(* startCreate: email only, the modalities of the AI page are fixed. *)
StartCreate ==
    /\ ChildShown
    /\ page = "email"
    /\ NoModal
    /\ editing' = Create
    /\ formError' = FALSE
    /\ UNCHANGED <<readVars, saving, testRow, testing, testResult, banner, writes, sent>>

(* Mutant: the form can be closed while it is being saved. *)
CloseFormAnytime ==
    /\ editing # NoItem
    /\ editing' = NoItem
    /\ formError' = FALSE
    /\ UNCHANGED <<readVars, saving, testRow, testing, testResult, banner, writes, sent>>

(* closeModal does nothing while the form is being saved. *)
CloseForm ==
    /\ editing # NoItem
    /\ ~saving
    /\ editing' = NoItem
    /\ formError' = FALSE
    /\ UNCHANGED <<readVars, saving, testRow, testing, testResult, banner, writes, sent>>

(* handleSubmit of a form that does not validate: required fields, the     *)
(* provider's model names, the configuration of the provider type.         *)
SubmitInvalid ==
    /\ editing # NoItem
    /\ ~saving
    /\ formError' = TRUE
    /\ UNCHANGED <<readVars, editing, saving, testRow, testing, testResult,
                   banner, writes, sent>>

(* handleSubmit of one that does; the button is disabled while saving. *)
SubmitForm ==
    /\ editing # NoItem
    /\ ~saving
    /\ formError' = FALSE
    /\ saving' = TRUE
    /\ Send("save", editing)
    /\ UNCHANGED <<readVars, editing, testRow, testing, testResult, banner>>

(* handleDelete of the email page, after the native confirmation: the page *)
(* keeps no trace of the request, and everything stays enabled.            *)
DeleteRow(r) ==
    /\ ChildShown
    /\ page = "email"
    /\ NoModal
    /\ Send("delete", r)
    /\ UNCHANGED <<readVars, formVars, banner>>

(* openTest: the button needs a configured row.  The AI page leaves the    *)
(* result alone (its dialog reset it on closing), the email page resets it. *)
OpenTest(r) ==
    /\ ChildShown
    /\ NoModal
    /\ testRow' = r
    /\ testResult' = IF page = "email" THEN NoItem ELSE testResult
    /\ UNCHANGED <<readVars, editing, saving, formError, testing, banner, writes, sent>>

(* Mutant: a dialog can be closed while its test runs. *)
CloseTestAnytime ==
    /\ testRow # NoItem
    /\ testRow' = NoItem
    /\ testResult' = NoItem
    /\ UNCHANGED <<readVars, editing, saving, formError, testing, banner, writes, sent>>

(* handleClose of TestProviderModal and closeTest of the email page. *)
CloseTest ==
    /\ testRow # NoItem
    /\ ~testing
    /\ testRow' = NoItem
    /\ testResult' = NoItem
    /\ UNCHANGED <<readVars, editing, saving, formError, testing, banner, writes, sent>>

(* "Ejecutar" with a payload that validates; the dialog cannot be closed   *)
(* until the answer is there.                                              *)
RunTest ==
    /\ testRow # NoItem
    /\ ~testing
    /\ testing' = TRUE
    /\ testResult' = NoItem
    /\ Send("test", testRow)
    /\ UNCHANGED <<readVars, editing, saving, formError, testRow, banner>>

(* onSave / onCreate / onPatch / onDelete of the container: on success the *)
(* list is read again, whoever asked, and the child is replaced.           *)
WriteDone(w) ==
    /\ w \in writes
    /\ w.op # "test"
    /\ writes' = writes \ {w}
    /\ ReloadChild
    /\ UNCHANGED sent

(* On failure the container shows its banner and the form, if it is still  *)
(* the one that was submitted, shows the error and can be sent again.      *)
WriteFailed(w) ==
    /\ w \in writes
    /\ w.op # "test"
    /\ writes' = writes \ {w}
    /\ banner' = TRUE
    /\ IF w.op = "save" /\ w.child = Child
       THEN formError' = TRUE /\ saving' = FALSE
       ELSE UNCHANGED <<formError, saving>>
    /\ UNCHANGED <<readVars, editing, testRow, testing, testResult, sent>>

(* The answer of a test, good or bad, is a result to show. *)
TestDone(w) ==
    /\ w \in writes
    /\ w.op = "test"
    /\ writes' = writes \ {w}
    /\ IF w.child = Child
       THEN testResult' = w.row /\ testing' = FALSE
       ELSE UNCHANGED <<testResult, testing>>
    /\ UNCHANGED <<readVars, editing, saving, formError, testRow, banner, sent>>

ProvidersNext ==
    \/ \E r \in Items : StartEdit(r) \/ DeleteRow(r) \/ OpenTest(r)
    \/ StartCreate
    \/ CloseForm
    \/ SubmitInvalid
    \/ SubmitForm
    \/ CloseTest
    \/ RunTest
    \/ \E w \in writes : WriteDone(w) \/ WriteFailed(w) \/ TestDone(w)

-----------------------------------------------------------------------------
(* The result in a test dialog is the result of the provider whose dialog  *)
(* it is.  Nothing in the answer is compared with the row: it holds        *)
(* because a dialog cannot be closed while its test runs, and because a    *)
(* result for a child that was replaced is dropped.                        *)
ResultOfTheRow == testResult # NoItem => testRow = testResult

(* On the AI page a form is never lost: it closes because the user cancels *)
(* it, or because its own save succeeded.  (On the email page a delete     *)
(* that completes while a form is open throws the form away.)              *)
AiFormKept ==
    [][ (page = "ai" /\ page' = "ai" /\ editing # NoItem /\ editing' = NoItem)
          => \/ ~saving /\ writes' = writes
             \/ \E w \in writes \ writes' : w.op = "save" /\ w.row = editing
      ]_<<readVars, providerVars>>

(* While a form says it is being saved, exactly one request of this child  *)
(* is saving it: no double submission, no form stuck in "saving".          *)
SavingIsOne ==
    saving <=> Cardinality({w \in writes : w.op = "save" /\ w.child = Child}) = 1
=============================================================================
