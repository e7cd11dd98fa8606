--------------------------- MODULE MembershipProofs ------------------------
(***************************************************************************)
(* Proofs about the member and invitation transactions of Membership, for  *)
(* any number of requests, roles and replicas.  The properties    *)
(* are about what is committed; what makes them inductive is what the      *)
(* transactions in progress hold: who has written a row keeps everybody    *)
(* else from writing it, and an add that has the advisory lock of its      *)
(* replica has seen every invitation that replica has made.                *)
(***************************************************************************)
EXTENDS Membership, FiniteSetTheorems, TLAPS

(* The awaits of the handler that adds a member. *)
AddLabels == {"adduser", "addrole", "invite", "advisory", "supersede", "closing", "insert"}

(* What a handler is doing tells what it was asked.                        *)
HandlerInv ==
    \A r \in Requests :
        /\ pc[r] = "new" <=> kind[r] = "none"
        /\ pc[r] \in AddLabels \cup {"added", "mailed"} => kind[r] = "add"
        /\ pc[r] \in {"patchdelete", "patchinsert"} => kind[r] = "patch"
        /\ pc[r] = "deleting" => kind[r] \in {"patch", "remove"}
        /\ pc[r] = "marking" => kind[r] = "redeem"
        /\ kind[r] \in {"add", "patch"} => arg[r] \in Roles
        /\ kind[r] = "redeem" => arg[r] \in Requests

(* What a transaction has written when, and nothing before or after it.    *)
TxOf(r) ==
    /\ pc[r] \notin InTransaction => tx[r] = NoTx
    /\ pc[r] \in {"supersede", "closing", "insert"} => tx[r].lock
    /\ tx[r].closed # {} => pc[r] \in {"insert", "commit"} /\ kind[r] \in {"add", "redeem"}
    /\ tx[r].closed # {} /\ kind[r] = "add" /\ pc[r] = "commit" => tx[r].opened # {}
    /\ tx[r].opened # {} =>
          pc[r] = "commit" /\ kind[r] = "add" /\ tx[r].lock /\ tx[r].opened = {r}
    /\ tx[r].del # {} => kind[r] \in {"patch", "remove"}
    /\ kind[r] = "patch" /\ pc[r] = "commit" => tx[r].ins # {}

(* Every transaction has written what its place in the handler says. *)
TxInv == \A r \in Requests : TxOf(r)

(* Where a handler has come when its transaction holds the user's row, the *)
(* advisory lock or a role row it has inserted.                            *)
HeldOf(r) ==
    /\ tx[r].user => pc[r] # "adduser"
    /\ tx[r].lock => pc[r] \in {"supersede", "closing", "insert", "commit"}
    /\ tx[r].ins # {} =>
          pc[r] \in {"invite", "advisory", "supersede", "closing", "insert", "commit"}

(* The locks are taken in one order. *)
HeldInv == \A r \in Requests : HeldOf(r)

(* An invitation exists from the commit of its add on; its email is later. *)
InvitationInv ==
    /\ \A i \in Requests : inv[i] # "none" <=> pc[i] \in {"added", "mailed"}
    /\ MailedAreCommitted

(* Rows that were closed are still open for everybody else, and nobody     *)
(* else has closed them; one transaction at a time opens an invitation,    *)
(* and one holds the advisory lock of a replica.                           *)
LocksInv ==
    /\ \A r \in Requests : \A i \in tx[r].closed : inv[i] = "open"
    /\ \A r, o \in Requests : r # o =>
          /\ tx[r].closed \cap tx[o].closed = {}
          /\ tx[r].opened = {} \/ tx[o].opened = {}
          /\ tx[r].lock /\ tx[o].lock => replica[r] # replica[o]

(* One invitation is open, and who opens another has closed it.            *)
OpenInv ==
    /\ \A i, j \in Open : i = j
    /\ \A r \in Requests : tx[r].opened # {} => Open \subseteq tx[r].closed

(* With the advisory lock, an add finds every open invitation of its       *)
(* replica, and closes it.                                                 *)
FoundInv ==
    \A r \in Requests : \A i \in Open : replica[i] = replica[r] =>
        /\ pc[r] = "closing" => i \in target[r]
        /\ pc[r] = "insert"  => i \in tx[r].closed

(* The inductive invariant. *)
MembershipInv ==
    /\ TypeOK
    /\ HandlerInv
    /\ TxInv
    /\ HeldInv
    /\ InvitationInv
    /\ LocksInv
    /\ OpenInv
    /\ FoundInv
    /\ SerializedByReplica
    /\ InviteeKeepsALink

-----------------------------------------------------------------------------
(* The actions that end a transaction without a commit. *)
LEMMA RollbackType ==
    ASSUME TypeOK, NEW r \in Requests, NEW answer \in Answers, Rollback(r, answer)
    PROVE  /\ tx' \in [Requests -> Txs]
           /\ target' \in [Requests -> SUBSET (Roles \cup Requests)]
           /\ pc' \in [Requests -> {"new"} \cup InTransaction \cup Answers]
BY DEF TypeOK, Rollback, GoTo, NoTx, Txs

(* A statement of a transaction changes one field of its record.           *)
LEMMA WriteType ==
    ASSUME TypeOK, NEW r \in Requests, NEW R \in SUBSET Roles, NEW I \in SUBSET Requests
    PROVE  /\ tx \in [Requests -> Txs]
           /\ [tx EXCEPT ![r].user = TRUE] \in [Requests -> Txs]
           /\ [tx EXCEPT ![r].lock = TRUE] \in [Requests -> Txs]
           /\ [tx EXCEPT ![r].ins = R] \in [Requests -> Txs]
           /\ [tx EXCEPT ![r].del = @ \cup R] \in [Requests -> Txs]
           /\ [tx EXCEPT ![r].closed = I] \in [Requests -> Txs]
           /\ [tx EXCEPT ![r].opened = I] \in [Requests -> Txs]
<1>1. tx \in [Requests -> Txs]
  BY DEF TypeOK
<1>2. ASSUME NEW t \in Txs
      PROVE  [tx EXCEPT ![r] = t] \in [Requests -> Txs]
  BY <1>1, <1>2
<1>. DEFINE t == tx[r]
<1>3. t \in Txs
  BY <1>1
<1>. HIDE DEF t
<1>4. [t EXCEPT !.user = TRUE] \in Txs
  BY <1>3 DEF Txs
<1>5. [t EXCEPT !.lock = TRUE] \in Txs
  BY <1>3 DEF Txs
<1>6. [t EXCEPT !.ins = R] \in Txs
  BY <1>3 DEF Txs
<1>7. [t EXCEPT !.del = @ \cup R] \in Txs
  BY <1>3 DEF Txs
<1>8. [t EXCEPT !.closed = I] \in Txs
  BY <1>3 DEF Txs
<1>9. [t EXCEPT !.opened = I] \in Txs
  BY <1>3 DEF Txs
<1>. QED
  BY <1>1, <1>2, <1>4, <1>5, <1>6, <1>7, <1>8, <1>9, Zenon DEF t

(* Every action keeps the types; that the roles written are roles is known *)
(* from what the request asked for.                                        *)
LEMMA TypeStep ==
    ASSUME TypeOK, HandlerInv, [Next]_vars
    PROVE  TypeOK'
<1>. USE WriteType DEF TypeOK
<1>1. ASSUME NEW r \in Requests, NEW role \in Roles, NEW p \in Replicas, BeginAdd(r, role, p)
      PROVE  TypeOK'
  BY <1>1 DEF BeginAdd, Begin, GoTo, InTransaction, tables
<1>2. ASSUME NEW r \in Requests, NEW role \in Roles, BeginPatch(r, role)
      PROVE  TypeOK'
  BY <1>2 DEF BeginPatch, Begin, GoTo, InTransaction, Answers, tables
<1>3. ASSUME NEW r \in Requests, BeginRemove(r)
      PROVE  TypeOK'
  BY <1>3 DEF BeginRemove, Begin, FindRoles, GoTo, InTransaction, tables
<1>4. ASSUME NEW r \in Requests, NEW i \in Requests, BeginRedeem(r, i)
      PROVE  TypeOK'
  BY <1>4 DEF BeginRedeem, Begin, GoTo, InTransaction, Answers, tables
<1>5. ASSUME NEW r \in Requests, AddUser(r) \/ Limiter(r) \/ AdvisoryLock(r)
      PROVE  TypeOK'
  <2>1. tx' \in [Requests -> Txs]
    <3>1. \/ tx' = [tx EXCEPT ![r].user = TRUE]
          \/ tx' = [tx EXCEPT ![r].lock = TRUE]
          \/ tx' = tx
      BY <1>5 DEF AddUser, Limiter, AdvisoryLock
    <3>2. /\ [tx EXCEPT ![r].user = TRUE] \in [Requests -> Txs]
          /\ [tx EXCEPT ![r].lock = TRUE] \in [Requests -> Txs]
      BY WriteType, Zenon
    <3>. QED
      BY <3>1, <3>2
  <2>2. pc' \in [Requests -> {"new"} \cup InTransaction \cup Answers]
    <3>1. \E next \in InTransaction : pc' = [pc EXCEPT ![r] = next]
      BY <1>5 DEF AddUser, Limiter, AdvisoryLock, GoTo, InTransaction
    <3>. QED
      BY <3>1
  <2>3. UNCHANGED <<tables, expired, mailed, request, target>>
    BY <1>5 DEF AddUser, Limiter, AdvisoryLock
  <2>. QED
    BY <2>1, <2>2, <2>3 DEF tables, request
<1>6. ASSUME NEW r \in Requests, AddRole(r)
      PROVE  TypeOK'
  <2>1. {arg[r]} \in SUBSET Roles
    BY <1>6 DEF AddRole, HandlerInv, AddLabels
  <2>2. tx' \in [Requests -> Txs]
    BY <1>6, <2>1, WriteType, Zenon DEF AddRole
  <2>. QED
    BY <1>6, <2>2 DEF AddRole, GoTo, InTransaction, tables, request
<1>7. ASSUME NEW r \in Requests, FindOpen(r) \/ Supersede(r)
      PROVE  TypeOK'
  <2>1. Open \in SUBSET Requests /\ target[r] \cap Open \in SUBSET Requests
    BY DEF Open
  <2>2. tx' \in [Requests -> Txs]
    <3>1. tx' = [tx EXCEPT ![r].closed = target[r] \cap Open] \/ tx' = tx
      BY <1>7 DEF FindOpen, Supersede
    <3>2. [tx EXCEPT ![r].closed = target[r] \cap Open] \in [Requests -> Txs]
      BY <2>1, WriteType, Zenon
    <3>. QED
      BY <3>1, <3>2
  <2>3. target' \in [Requests -> SUBSET (Roles \cup Requests)]
    BY <1>7, <2>1 DEF FindOpen, Supersede
  <2>. QED
    BY <1>7, <2>2, <2>3 DEF FindOpen, Supersede, GoTo, InTransaction, tables, request
<1>8. ASSUME NEW r \in Requests, InsertInvitation(r)
      PROVE  TypeOK'
  <2>1. CASE Rollback(r, "conflict") /\ UNCHANGED <<tables, expired, mailed, request>>
    BY <2>1, RollbackType DEF Answers, tables, request
  <2>2. CASE ~Rollback(r, "conflict")
    <3>1. {r} \in SUBSET Requests
      OBVIOUS
    <3>2. tx' \in [Requests -> Txs]
      <4>1. tx' = [tx EXCEPT ![r].opened = {r}]
        BY <1>8, <2>2 DEF InsertInvitation
      <4>. QED
        BY <3>1, <4>1, WriteType, Zenon
    <3>. QED
      BY <1>8, <2>2, <3>2 DEF InsertInvitation, GoTo, InTransaction, tables, request
  <2>. QED
    BY <1>8, <2>1, <2>2 DEF InsertInvitation
<1>9. ASSUME NEW r \in Requests, PatchDelete(r)
      PROVE  TypeOK'
  BY <1>9 DEF PatchDelete, FindRoles, GoTo, InTransaction, tables, request
<1>10. ASSUME NEW r \in Requests, NEW role \in Roles, DeleteRole(r, role)
       PROVE  TypeOK'
  <2>1. {role} \in SUBSET Roles
    OBVIOUS
  <2>2. tx' \in [Requests -> Txs]
    BY <1>10, <2>1, WriteType, Zenon DEF DeleteRole
  <2>. QED
    BY <1>10, <2>2 DEF DeleteRole, tables, request
<1>11. ASSUME NEW r \in Requests, Deleted(r)
       PROVE  TypeOK'
  <2>1. CASE Rollback(r, "notfound") /\ UNCHANGED <<tables, expired, mailed, request>>
    BY <2>1, RollbackType DEF Answers, tables, request
  <2>2. CASE ~Rollback(r, "notfound")
    BY <1>11, <2>2 DEF Deleted, GoTo, InTransaction, tables, request
  <2>. QED
    BY <1>11, <2>1, <2>2 DEF Deleted
<1>12. ASSUME NEW r \in Requests, PatchInsert(r)
       PROVE  TypeOK'
  <2>1. CASE Rollback(r, "conflict") /\ UNCHANGED <<tables, expired, mailed, request>>
    BY <2>1, RollbackType DEF Answers, tables, request
  <2>2. CASE ~Rollback(r, "conflict")
    <3>1. {arg[r]} \in SUBSET Roles
      BY <1>12 DEF PatchInsert, HandlerInv
    <3>2. tx' \in [Requests -> Txs]
      <4>1. tx' = [tx EXCEPT ![r].ins = {arg[r]}]
        BY <1>12, <2>2 DEF PatchInsert
      <4>. QED
        BY <3>1, <4>1, WriteType, Zenon
    <3>. QED
      BY <1>12, <2>2, <3>2 DEF PatchInsert, GoTo, InTransaction, tables, request
  <2>. QED
    BY <1>12, <2>1, <2>2 DEF PatchInsert
<1>13. ASSUME NEW r \in Requests, Mark(r)
       PROVE  TypeOK'
  BY <1>13 DEF Mark, Open, GoTo, InTransaction, tables, request
<1>14. ASSUME NEW r \in Requests, Commit(r)
       PROVE  TypeOK'
  <2>1. Answer(r) \in Answers
    BY <1>14 DEF Commit, HandlerInv, Answer, Answers
  <2>2. NoTx \in Txs /\ tx[r] \in Txs
    BY DEF NoTx, Txs
  <2>3. tx' \in [Requests -> Txs]
    BY <1>14, <2>2 DEF Commit
  <2>4. roles' \subseteq Roles /\ user' \in BOOLEAN
    BY <1>14, <2>2 DEF Commit, Txs
  <2>5. inv' \in [Requests -> {"none", "open", "redeemed", "superseded"}]
    BY <1>14 DEF Commit
  <2>6. target' \in [Requests -> SUBSET (Roles \cup Requests)]
    BY <1>14 DEF Commit
  <2>. QED
    BY <1>14, <2>1, <2>3, <2>4, <2>5, <2>6 DEF Commit, GoTo, request
<1>15. ASSUME NEW r \in Requests, Abort(r)
       PROVE  TypeOK'
  BY <1>15, RollbackType DEF Abort, Answers, tables, request
<1>16. ASSUME NEW r \in Requests, Mail(r) \/ Expire(r)
       PROVE  TypeOK'
  BY <1>16 DEF Mail, Expire, GoTo, Answers, tables, request
<1>17. CASE UNCHANGED vars
  BY <1>17 DEF vars, tables, request
<1>. QED
  BY <1>1, <1>2, <1>3, <1>4, <1>5, <1>6, <1>7, <1>8, <1>9, <1>10, <1>11, <1>12, <1>13,
     <1>14, <1>15, <1>16, <1>17 DEF Next, Step

(* Every action keeps what is known of the handlers. *)
LEMMA HandlerStep ==
    ASSUME TypeOK, HandlerInv, [Next]_vars
    PROVE  HandlerInv'
<1>. USE DEF TypeOK, HandlerInv, AddLabels
<1>1. ASSUME NEW r \in Requests, NEW role \in Roles, NEW p \in Replicas, BeginAdd(r, role, p)
      PROVE  HandlerInv'
  BY <1>1 DEF BeginAdd, Begin, GoTo
<1>2. ASSUME NEW r \in Requests, NEW role \in Roles, BeginPatch(r, role)
      PROVE  HandlerInv'
  BY <1>2 DEF BeginPatch, Begin, GoTo
<1>3. ASSUME NEW r \in Requests, BeginRemove(r)
      PROVE  HandlerInv'
  BY <1>3 DEF BeginRemove, Begin, FindRoles, GoTo
<1>4. ASSUME NEW r \in Requests, NEW i \in Requests, BeginRedeem(r, i)
      PROVE  HandlerInv'
  BY <1>4 DEF BeginRedeem, Begin, GoTo
<1>5. ASSUME NEW r \in Requests, Step(r) \/ Abort(r) \/ Mail(r) \/ Expire(r),
             UNCHANGED pc
      PROVE  HandlerInv'
  BY <1>5 DEF Step, AddUser, AddRole, Limiter, AdvisoryLock, FindOpen, Supersede,
              InsertInvitation, PatchDelete, FindRoles, DeleteRole, Deleted, PatchInsert,
              Mark, Commit, Abort, Rollback, Mail, Expire, request
<1>6. ASSUME NEW r \in Requests, Step(r) \/ Abort(r) \/ Mail(r) \/ Expire(r)
      PROVE  UNCHANGED request
  BY <1>6 DEF Step, AddUser, AddRole, Limiter, AdvisoryLock, FindOpen, Supersede,
              InsertInvitation, PatchDelete, DeleteRole, Deleted, PatchInsert, Mark,
              Commit, Abort, Mail, Expire
<1>7. ASSUME NEW r \in Requests, Step(r) \/ Abort(r) \/ Mail(r), ~UNCHANGED pc
      PROVE  \E label \in InTransaction \cup Answers :
                /\ GoTo(r, label)
                /\ label \in AddLabels \cup {"added", "mailed"} => kind[r] = "add"
                /\ label \in {"patchdelete", "patchinsert", "deleting"} => kind[r] = "patch"
                /\ label \notin {"new", "marking"}
                /\ pc[r] # "new"
  <2>1. CASE AddUser(r) \/ AddRole(r) \/ Limiter(r) \/ AdvisoryLock(r) \/ FindOpen(r)
               \/ Supersede(r)
    BY <2>1 DEF AddUser, AddRole, Limiter, AdvisoryLock, FindOpen, Supersede,
                InTransaction
  <2>2. CASE InsertInvitation(r)
    BY <2>2 DEF InsertInvitation, Rollback, InTransaction, Answers
  <2>3. CASE PatchDelete(r) \/ Deleted(r) \/ PatchInsert(r) \/ Mark(r)
    BY <2>3 DEF PatchDelete, FindRoles, Deleted, PatchInsert, Mark, Rollback,
                InTransaction, Answers
  <2>4. CASE Commit(r)
    BY <2>4 DEF Commit, Answer, Answers
  <2>5. CASE Abort(r) \/ Mail(r)
    BY <2>5 DEF Abort, Mail, Rollback, InTransaction, Answers
  <2>6. CASE \E role \in Roles : DeleteRole(r, role)
    BY <1>7, <2>6 DEF DeleteRole
  <2>. QED
    BY <1>7, <2>1, <2>2, <2>3, <2>4, <2>5, <2>6 DEF Step
<1>8. ASSUME NEW r \in Requests, Step(r) \/ Abort(r) \/ Mail(r) \/ Expire(r)
      PROVE  HandlerInv'
  <2>1. CASE UNCHANGED pc
    BY <1>5, <1>8, <2>1
  <2>2. CASE ~UNCHANGED pc
    <3>1. Step(r) \/ Abort(r) \/ Mail(r)
      BY <1>8, <2>2 DEF Expire
    <3>2. PICK label \in InTransaction \cup Answers :
                /\ GoTo(r, label)
                /\ label \in AddLabels \cup {"added", "mailed"} => kind[r] = "add"
                /\ label \in {"patchdelete", "patchinsert", "deleting"} => kind[r] = "patch"
                /\ label \notin {"new", "marking"}
                /\ pc[r] # "new"
      BY <1>7, <2>2, <3>1
    <3>3. UNCHANGED request
      BY <1>6, <1>8
    <3>. QED
      BY <3>2, <3>3 DEF GoTo, request
  <2>. QED
    BY <2>1, <2>2
<1>9. CASE UNCHANGED vars
  BY <1>9 DEF vars, request
<1>. QED
  BY <1>1, <1>2, <1>3, <1>4, <1>8, <1>9 DEF Next

-----------------------------------------------------------------------------
(* One step of the handler of a request. *)
Act(r) ==
    \/ \E role \in Roles, p \in Replicas : BeginAdd(r, role, p)
    \/ \E role \in Roles : BeginPatch(r, role)
    \/ BeginRemove(r)
    \/ \E i \in Requests : BeginRedeem(r, i)
    \/ Step(r) \/ Abort(r) \/ Mail(r) \/ Expire(r)

(* It leaves the other handlers alone. *)
LEMMA OthersStay ==
    ASSUME TypeOK, NEW r \in Requests, Act(r)
    PROVE  \A o \in Others(r) :
              /\ pc'[o] = pc[o] /\ tx'[o] = tx[o]
              /\ kind'[o] = kind[o] /\ arg'[o] = arg[o] /\ replica'[o] = replica[o]
<1>. USE DEF TypeOK, Others, GoTo, request
<1>1. CASE \/ \E role \in Roles, p \in Replicas : BeginAdd(r, role, p)
           \/ \E role \in Roles : BeginPatch(r, role)
           \/ BeginRemove(r)
           \/ \E i \in Requests : BeginRedeem(r, i)
  BY <1>1 DEF BeginAdd, BeginPatch, BeginRemove, BeginRedeem, Begin, FindRoles
<1>2. CASE AddUser(r) \/ AddRole(r) \/ Limiter(r) \/ AdvisoryLock(r)
  BY <1>2 DEF AddUser, AddRole, Limiter, AdvisoryLock
<1>3. CASE FindOpen(r) \/ Supersede(r) \/ InsertInvitation(r)
  BY <1>3 DEF FindOpen, Supersede, InsertInvitation, Rollback
<1>4. CASE PatchDelete(r) \/ (\E role \in Roles : DeleteRole(r, role)) \/ Deleted(r)
  BY <1>4 DEF PatchDelete, FindRoles, DeleteRole, Deleted, Rollback
<1>5. CASE PatchInsert(r) \/ Mark(r) \/ Commit(r)
  BY <1>5 DEF PatchInsert, Mark, Commit, Rollback
<1>6. CASE Abort(r) \/ Mail(r) \/ Expire(r)
  BY <1>6 DEF Abort, Mail, Expire, Rollback
<1>. QED
  BY <1>1, <1>2, <1>3, <1>4, <1>5, <1>6 DEF Act, Step

(* What each statement writes of its record. *)
LEMMA Writes ==
    ASSUME TypeOK, NEW r \in Requests
    PROVE  /\ AddUser(r) \/ AddRole(r) \/ (\E role \in Roles : DeleteRole(r, role))
                \/ (PatchInsert(r) /\ pc'[r] # "conflict") =>
                  /\ tx'[r].closed = tx[r].closed /\ tx'[r].opened = tx[r].opened
                  /\ tx'[r].lock = tx[r].lock
           /\ AdvisoryLock(r) =>
                  /\ tx'[r].closed = tx[r].closed /\ tx'[r].opened = tx[r].opened
                  /\ tx'[r].lock
           /\ Supersede(r) =>
                  /\ tx'[r].closed = target[r] \cap Open /\ tx'[r].opened = tx[r].opened
                  /\ tx'[r].lock = tx[r].lock
           /\ InsertInvitation(r) /\ pc'[r] # "conflict" =>
                  /\ tx'[r].closed = tx[r].closed /\ tx'[r].opened = {r}
                  /\ tx'[r].lock = tx[r].lock
           /\ Mark(r) =>
                  /\ tx'[r].closed = {arg[r]} \cap Open /\ tx'[r].opened = tx[r].opened
                  /\ tx'[r].lock = tx[r].lock
           /\ AddUser(r) \/ AddRole(r) \/ AdvisoryLock(r) \/ Supersede(r) \/ Mark(r)
                \/ ((InsertInvitation(r) \/ PatchInsert(r)) /\ pc'[r] # "conflict") =>
                  tx'[r].del = tx[r].del
           /\ AddRole(r) \/ AdvisoryLock(r) \/ Supersede(r) \/ Mark(r)
                \/ ((InsertInvitation(r) \/ PatchInsert(r)) /\ pc'[r] # "conflict")
                \/ (\E role \in Roles : DeleteRole(r, role)) =>
                  tx'[r].user = tx[r].user
           /\ PatchInsert(r) /\ pc'[r] # "conflict" => tx'[r].ins = {arg[r]}
           /\ AddUser(r) \/ AdvisoryLock(r) \/ Supersede(r) \/ Mark(r)
                \/ (InsertInvitation(r) /\ pc'[r] # "conflict")
                \/ (\E role \in Roles : DeleteRole(r, role)) =>
                  tx'[r].ins = tx[r].ins
<1>. DEFINE t == tx[r]
<1>1. t \in Txs
  BY DEF TypeOK
<1>2. AddUser(r) => tx'[r] = [t EXCEPT !.user = TRUE]
  BY Zenon DEF AddUser, TypeOK
<1>3. AddRole(r) => tx'[r] = [t EXCEPT !.ins = {arg[r]}]
  BY Zenon DEF AddRole, TypeOK
<1>4. AdvisoryLock(r) => tx'[r] = [t EXCEPT !.lock = TRUE]
  BY Zenon DEF AdvisoryLock, TypeOK
<1>5. Supersede(r) => tx'[r] = [t EXCEPT !.closed = target[r] \cap Open]
  BY Zenon DEF Supersede, TypeOK
<1>6. InsertInvitation(r) /\ pc'[r] # "conflict" => tx'[r] = [t EXCEPT !.opened = {r}]
  <2>1. ASSUME InsertInvitation(r) /\ pc'[r] # "conflict"
        PROVE  tx' = [tx EXCEPT ![r].opened = {r}]
    BY <2>1 DEF InsertInvitation, Rollback, GoTo, TypeOK
  <2>. QED
    BY <2>1, Zenon DEF TypeOK
<1>7. PatchInsert(r) /\ pc'[r] # "conflict" => tx'[r] = [t EXCEPT !.ins = {arg[r]}]
  <2>1. ASSUME PatchInsert(r) /\ pc'[r] # "conflict"
        PROVE  tx' = [tx EXCEPT ![r].ins = {arg[r]}]
    BY <2>1 DEF PatchInsert, Rollback, GoTo, TypeOK
  <2>. QED
    BY <2>1, Zenon DEF TypeOK
<1>8. Mark(r) => tx'[r] = [t EXCEPT !.closed = {arg[r]} \cap Open]
  BY Zenon DEF Mark, TypeOK
<1>9. ASSUME NEW role \in Roles, DeleteRole(r, role)
       PROVE  tx'[r] = [t EXCEPT !.del = @ \cup {role}]
  BY <1>9, Zenon DEF DeleteRole, TypeOK
<1>. HIDE DEF t
<1>10. AddUser(r) =>
         tx'[r].closed = t.closed /\ tx'[r].opened = t.opened /\ tx'[r].lock = t.lock /\ tx'[r].del = t.del /\ tx'[r].ins = t.ins
  BY <1>1, <1>2 DEF Txs
<1>11. AddRole(r) =>
         tx'[r].closed = t.closed /\ tx'[r].opened = t.opened /\ tx'[r].lock = t.lock /\ tx'[r].del = t.del
  BY <1>1, <1>3 DEF Txs
<1>12. AdvisoryLock(r) =>
         tx'[r].closed = t.closed /\ tx'[r].opened = t.opened /\ tx'[r].del = t.del /\ tx'[r].ins = t.ins /\ tx'[r].lock
  BY <1>1, <1>4 DEF Txs
<1>13. Supersede(r) =>
         tx'[r].opened = t.opened /\ tx'[r].lock = t.lock /\ tx'[r].del = t.del /\ tx'[r].ins = t.ins /\ tx'[r].closed = target[r] \cap Open
  BY <1>1, <1>5 DEF Txs
<1>14. InsertInvitation(r) /\ pc'[r] # "conflict" =>
         tx'[r].closed = t.closed /\ tx'[r].lock = t.lock /\ tx'[r].del = t.del /\ tx'[r].ins = t.ins /\ tx'[r].opened = {r}
  BY <1>1, <1>6 DEF Txs
<1>15. PatchInsert(r) /\ pc'[r] # "conflict" =>
         tx'[r].closed = t.closed /\ tx'[r].opened = t.opened /\ tx'[r].lock = t.lock /\ tx'[r].del = t.del /\ tx'[r].ins = {arg[r]}
  BY <1>1, <1>7 DEF Txs
<1>16. Mark(r) =>
         tx'[r].opened = t.opened /\ tx'[r].lock = t.lock /\ tx'[r].del = t.del /\ tx'[r].ins = t.ins /\ tx'[r].closed = {arg[r]} \cap Open
  BY <1>1, <1>8 DEF Txs
<1>17. (\E role \in Roles : DeleteRole(r, role)) =>
         tx'[r].closed = t.closed /\ tx'[r].opened = t.opened /\ tx'[r].lock = t.lock /\ tx'[r].ins = t.ins
  BY <1>1, <1>9 DEF Txs
<1>18. AddRole(r) \/ AdvisoryLock(r) \/ Supersede(r) \/ Mark(r) => tx'[r].user = t.user
  BY <1>1, <1>3, <1>4, <1>5, <1>8 DEF Txs
<1>19. (InsertInvitation(r) \/ PatchInsert(r)) /\ pc'[r] # "conflict" => tx'[r].user = t.user
  BY <1>1, <1>6, <1>7 DEF Txs
<1>20. (\E role \in Roles : DeleteRole(r, role)) => tx'[r].user = t.user
  BY <1>1, <1>9 DEF Txs
<1>. QED
  BY <1>10, <1>11, <1>12, <1>13, <1>14, <1>15, <1>16, <1>17, <1>18, <1>19, <1>20 DEF t

(* What the end of a transaction leaves of its record. *)
Ends(r) ==
    \/ Commit(r) \/ Abort(r)
    \/ InsertInvitation(r) /\ pc'[r] = "conflict"
    \/ PatchInsert(r) /\ pc'[r] = "conflict"
    \/ Deleted(r) /\ pc'[r] = "notfound"

(* The end of a transaction empties its record, and only a commit answers  *)
(* "added".                                                                *)
LEMMA EndWrites ==
    ASSUME TypeOK, HandlerInv, NEW r \in Requests, Ends(r)
    PROVE  /\ tx'[r] = NoTx
           /\ pc'[r] \in Answers \ {"added"} \/ (Commit(r) /\ pc'[r] = "added")
           /\ pc[r] \in InTransaction
<1>1. CASE Commit(r)
  BY <1>1 DEF TypeOK, HandlerInv, Commit, GoTo, Answer, Answers, InTransaction
<1>2. CASE ~Commit(r)
  BY <1>2 DEF Ends, TypeOK, Abort, InsertInvitation, PatchInsert, Deleted, Rollback, GoTo,
              Answers, InTransaction
<1>. QED
  BY <1>1, <1>2

(* The empty record holds no lock and no write. *)
LEMMA NoTxFields ==
    /\ ~NoTx.user /\ ~NoTx.lock
    /\ NoTx.ins = {} /\ NoTx.del = {} /\ NoTx.closed = {} /\ NoTx.opened = {}
BY DEF NoTx

(* A transaction keeps the order of its statements. *)
LEMMA TxStep ==
    ASSUME TypeOK, HandlerInv, TxInv, [Next]_vars
    PROVE  TxInv'
<1>1. ASSUME NEW r \in Requests, Act(r)
      PROVE  TxInv'
  <2>. USE DEF TypeOK, GoTo, request
  <2>1. TxOf(r)
    BY DEF TxInv
  <2>2. ASSUME NEW o \in Others(r)
        PROVE  TxOf(o)'
    BY <1>1, <2>2, OthersStay DEF TxInv, TxOf, Others
  <2>3. TxOf(r)'
    <3>1. CASE \/ \E role \in Roles, p \in Replicas : BeginAdd(r, role, p)
               \/ \E role \in Roles : BeginPatch(r, role)
               \/ BeginRemove(r)
               \/ \E i \in Requests : BeginRedeem(r, i)
      <4>1. /\ pc[r] = "new" /\ tx' = tx
            /\ pc'[r] \in {"adduser", "addrole", "notfound", "patchdelete", "deleting",
                           "redeemed", "gone", "marking"}
        BY <3>1 DEF BeginAdd, BeginPatch, BeginRemove, BeginRedeem, Begin, FindRoles
      <4>. QED
        BY <2>1, <4>1, NoTxFields DEF TxOf, InTransaction
    <3>2. CASE AddUser(r) \/ AddRole(r)
      BY <2>1, <3>2, Writes DEF AddUser, AddRole, TxOf, InTransaction, HandlerInv, AddLabels
    <3>3. CASE Limiter(r) \/ FindOpen(r)
      BY <2>1, <3>3 DEF Limiter, FindOpen, TxOf, InTransaction, HandlerInv, AddLabels
    <3>4. CASE AdvisoryLock(r)
      BY <2>1, <3>4, Writes DEF AdvisoryLock, TxOf, InTransaction, HandlerInv, AddLabels
    <3>5. CASE Supersede(r)
      BY <2>1, <3>5, Writes DEF Supersede, TxOf, InTransaction, HandlerInv, AddLabels
    <3>6. CASE InsertInvitation(r) /\ pc'[r] # "conflict"
      <4>1. pc[r] = "insert" /\ pc'[r] = "commit" /\ kind' = kind
        BY <3>6 DEF InsertInvitation, Rollback
      <4>2. /\ tx'[r].closed = tx[r].closed /\ tx'[r].opened = {r}
            /\ tx'[r].lock = tx[r].lock /\ tx'[r].del = tx[r].del
        BY <3>6, Writes
      <4>3. kind[r] = "add"
        BY <4>1 DEF HandlerInv, AddLabels
      <4>. QED
        BY <2>1, <4>1, <4>2, <4>3 DEF TxOf, InTransaction
    <3>7. CASE PatchDelete(r) \/ (\E role \in Roles : DeleteRole(r, role))
      BY <2>1, <3>7, Writes DEF PatchDelete, FindRoles, DeleteRole, TxOf, InTransaction, HandlerInv
    <3>8. CASE Deleted(r) /\ pc'[r] # "notfound"
      BY <2>1, <3>8 DEF Deleted, Rollback, TxOf, InTransaction, HandlerInv
    <3>9. CASE PatchInsert(r) /\ pc'[r] # "conflict"
      <4>1. pc[r] = "patchinsert" /\ pc'[r] = "commit" /\ kind' = kind
        BY <3>9 DEF PatchInsert, Rollback
      <4>2. /\ tx'[r].closed = tx[r].closed /\ tx'[r].opened = tx[r].opened
            /\ tx'[r].del = tx[r].del /\ tx'[r].ins = {arg[r]}
        BY <3>9, Writes
      <4>3. kind[r] = "patch"
        BY <4>1 DEF HandlerInv
      <4>. QED
        BY <2>1, <4>1, <4>2, <4>3 DEF TxOf, InTransaction
    <3>10. CASE Mark(r)
      BY <2>1, <3>10, Writes DEF Mark, TxOf, InTransaction, HandlerInv
    <3>11. CASE Ends(r)
      BY <3>11, EndWrites, NoTxFields DEF TxOf, Answers, InTransaction
    <3>12. CASE Mail(r) \/ Expire(r)
      BY <2>1, <3>12, NoTxFields DEF Mail, Expire, TxOf, InTransaction
    <3>. QED
      BY <1>1, <3>1, <3>2, <3>3, <3>4, <3>5, <3>6, <3>7, <3>8, <3>9, <3>10, <3>11, <3>12
         DEF Act, Step, Ends
  <2>. QED
    BY <2>2, <2>3 DEF TxInv, Others
<1>2. CASE UNCHANGED vars
  BY <1>2 DEF vars, request, TxInv, TxOf
<1>. QED
  BY <1>1, <1>2 DEF Next, Act

(* A transaction takes its locks in the order of its statements. *)
LEMMA HeldStep ==
    ASSUME TypeOK, HandlerInv, TxInv, HeldInv, [Next]_vars
    PROVE  HeldInv'
<1>1. ASSUME NEW r \in Requests, Act(r)
      PROVE  HeldInv'
  <2>. USE DEF TypeOK, GoTo, request
  <2>1. TxOf(r) /\ HeldOf(r)
    BY DEF TxInv, HeldInv
  <2>2. ASSUME NEW o \in Others(r)
        PROVE  HeldOf(o)'
    BY <1>1, <2>2, OthersStay DEF HeldInv, HeldOf, Others
  <2>3. HeldOf(r)'
    <3>1. CASE \/ \E role \in Roles, p \in Replicas : BeginAdd(r, role, p)
               \/ \E role \in Roles : BeginPatch(r, role)
               \/ BeginRemove(r)
               \/ \E i \in Requests : BeginRedeem(r, i)
      <4>1. pc[r] = "new" /\ tx' = tx
        BY <3>1 DEF BeginAdd, BeginPatch, BeginRemove, BeginRedeem, Begin, FindRoles
      <4>. QED
        BY <2>1, <4>1, NoTxFields DEF TxOf, HeldOf, InTransaction
    <3>2. CASE AddUser(r)
      <4>1. pc[r] = "adduser" /\ pc'[r] = "addrole"
        BY <3>2 DEF AddUser
      <4>2. tx'[r].lock = tx[r].lock /\ tx'[r].ins = tx[r].ins
        BY <3>2, Writes
      <4>. QED
        BY <2>1, <4>1, <4>2 DEF HeldOf
    <3>3. CASE AddRole(r)
      <4>1. pc[r] = "addrole" /\ pc'[r] = "invite"
        BY <3>3 DEF AddRole
      <4>2. tx'[r].lock = tx[r].lock
        BY <3>3, Writes
      <4>. QED
        BY <2>1, <4>1, <4>2 DEF HeldOf
    <3>4. CASE Limiter(r) \/ FindOpen(r)
      BY <2>1, <3>4 DEF Limiter, FindOpen, HeldOf
    <3>5. CASE AdvisoryLock(r)
      <4>1. pc[r] = "advisory" /\ pc'[r] = "supersede"
        BY <3>5 DEF AdvisoryLock
      <4>. QED
        BY <4>1 DEF HeldOf
    <3>6. CASE Supersede(r)
      <4>1. pc[r] = "closing" /\ pc'[r] = "insert"
        BY <3>6 DEF Supersede
      <4>. QED
        BY <4>1 DEF HeldOf
    <3>7. CASE \/ InsertInvitation(r) /\ pc'[r] # "conflict"
               \/ PatchInsert(r) /\ pc'[r] # "conflict"
               \/ Mark(r)
      <4>1. pc'[r] = "commit"
        BY <3>7 DEF InsertInvitation, PatchInsert, Mark, Rollback
      <4>. QED
        BY <4>1 DEF HeldOf
    <3>8. CASE PatchDelete(r) \/ (Deleted(r) /\ pc'[r] # "notfound")
      <4>1. pc[r] \in {"patchdelete", "deleting"} /\ pc'[r] # "adduser" /\ tx'[r] = tx[r]
        BY <3>8 DEF PatchDelete, FindRoles, Deleted, Rollback
      <4>. QED
        BY <2>1, <4>1 DEF HeldOf
    <3>9. CASE \E role \in Roles : DeleteRole(r, role)
      <4>1. pc[r] = "deleting" /\ pc'[r] = "deleting"
        BY <3>9 DEF DeleteRole
      <4>2. tx'[r].lock = tx[r].lock /\ tx'[r].ins = tx[r].ins
        BY <3>9, Writes
      <4>. QED
        BY <2>1, <4>1, <4>2 DEF HeldOf
    <3>10. CASE Ends(r)
      BY <3>10, EndWrites, NoTxFields DEF HeldOf
    <3>11. CASE Mail(r) \/ Expire(r)
      <4>1. tx' = tx /\ (pc'[r] = pc[r] \/ (pc[r] = "added" /\ pc'[r] = "mailed"))
        BY <3>11 DEF Mail, Expire
      <4>. QED
        BY <2>1, <4>1, NoTxFields DEF TxOf, HeldOf, InTransaction
    <3>. QED
      BY <1>1, <3>1, <3>2, <3>3, <3>4, <3>5, <3>6, <3>7, <3>8, <3>9, <3>10, <3>11
         DEF Act, Step, Ends
  <2>. QED
    BY <2>2, <2>3 DEF HeldInv, Others
<1>2. CASE UNCHANGED vars
  BY <1>2 DEF vars, HeldInv, HeldOf
<1>. QED
  BY <1>1, <1>2 DEF Next, Act

-----------------------------------------------------------------------------
(* Only a commit changes the invitations, or ends in an invitation. *)
LEMMA InvitationsStay ==
    ASSUME TypeOK, HandlerInv, NEW r \in Requests, Act(r), ~Commit(r)
    PROVE  /\ inv' = inv
           /\ pc'[r] \in {"added", "mailed"} <=> pc[r] \in {"added", "mailed"}
<1>. USE DEF TypeOK, GoTo, tables
<1>1. CASE \/ \E role \in Roles, p \in Replicas : BeginAdd(r, role, p)
           \/ \E role \in Roles : BeginPatch(r, role)
           \/ BeginRemove(r)
           \/ \E i \in Requests : BeginRedeem(r, i)
  BY <1>1 DEF BeginAdd, BeginPatch, BeginRemove, BeginRedeem, Begin, FindRoles
<1>2. CASE AddUser(r) \/ AddRole(r) \/ Limiter(r) \/ AdvisoryLock(r)
  BY <1>2 DEF AddUser, AddRole, Limiter, AdvisoryLock
<1>3. CASE FindOpen(r) \/ Supersede(r) \/ InsertInvitation(r)
  BY <1>3 DEF FindOpen, Supersede, InsertInvitation, Rollback
<1>4. CASE PatchDelete(r) \/ (\E role \in Roles : DeleteRole(r, role)) \/ Deleted(r)
  BY <1>4 DEF PatchDelete, FindRoles, DeleteRole, Deleted, Rollback
<1>5. CASE PatchInsert(r) \/ Mark(r)
  BY <1>5 DEF PatchInsert, Mark, Rollback
<1>6. CASE Abort(r) \/ Mail(r) \/ Expire(r)
  BY <1>6 DEF Abort, Mail, Expire, Rollback, InTransaction
<1>. QED
  BY <1>1, <1>2, <1>3, <1>4, <1>5, <1>6 DEF Act, Step

(* What a commit does to the invitations. *)
LEMMA CommitWrites ==
    ASSUME TypeOK, HandlerInv, TxInv, InvitationInv, LocksInv, NEW r \in Requests, Commit(r)
    PROVE  /\ r \notin tx[r].closed /\ inv[r] = "none"
           /\ \A i \in tx[r].closed :
                 inv'[i] = IF kind[r] = "redeem" THEN "redeemed" ELSE "superseded"
           /\ \A i \in Requests \ tx[r].closed : i # r => inv'[i] = inv[i]
           /\ IF tx[r].opened = {} THEN inv'[r] = "none" /\ pc'[r] \notin {"added", "mailed"}
                                   ELSE inv'[r] = "open" /\ pc'[r] = "added"
           /\ Open' = (Open \ tx[r].closed) \cup tx[r].opened
           /\ tx'[r] = NoTx
<1>. USE DEF TypeOK
<1>1. pc[r] = "commit" /\ tx'[r] = NoTx /\ pc'[r] = Answer(r)
  BY DEF Commit, GoTo
<1>2. inv[r] = "none"
  BY <1>1 DEF InvitationInv
<1>3. r \notin tx[r].closed
  BY <1>2 DEF LocksInv
<1>4. tx[r].opened = {} \/ (tx[r].opened = {r} /\ kind[r] = "add")
  BY DEF TxInv, TxOf
<1>5. tx[r].closed \subseteq Requests
  BY DEF Txs
<1>6. \A i \in Requests : inv'[i] =
        IF i \in tx[r].closed THEN IF kind[r] = "redeem" THEN "redeemed" ELSE "superseded"
        ELSE IF i \in tx[r].opened THEN "open" ELSE inv[i]
  <2>1. inv' = [i \in Requests |->
                  CASE i \in tx[r].closed -> IF kind[r] = "redeem" THEN "redeemed"
                                                                  ELSE "superseded"
                    [] i \in tx[r].opened -> "open"
                    [] OTHER -> inv[i]]
    BY DEF Commit
  <2>2. tx[r].closed \cap tx[r].opened = {}
    BY <1>3, <1>4
  <2>. QED
    BY <2>1, <2>2
<1>7. IF tx[r].opened = {} THEN pc'[r] \notin {"added", "mailed"} ELSE pc'[r] = "added"
  BY <1>1, <1>4 DEF Answer, HandlerInv
<1>8. Open' = (Open \ tx[r].closed) \cup tx[r].opened
  BY <1>3, <1>4, <1>5, <1>6 DEF Open
<1>. QED
  BY <1>1, <1>2, <1>3, <1>4, <1>5, <1>6, <1>7, <1>8

(* An invitation and its email come after the commit of its add. *)
LEMMA InvitationStep ==
    ASSUME TypeOK, HandlerInv, TxInv, InvitationInv, LocksInv, [Next]_vars
    PROVE  InvitationInv'
<1>1. ASSUME NEW r \in Requests, Act(r)
      PROVE  InvitationInv'
  <2>1. \A i \in Requests : inv'[i] # "none" <=> pc'[i] \in {"added", "mailed"}
    <3>1. \A o \in Requests \ {r} : pc'[o] = pc[o]
      BY <1>1, OthersStay DEF Others
    <3>2. CASE Commit(r)
      <4>1. \A i \in Requests \ {r} : inv'[i] # "none" <=> inv[i] # "none"
        BY <3>2, CommitWrites DEF LocksInv
      <4>2. inv'[r] # "none" <=> pc'[r] \in {"added", "mailed"}
        BY <3>2, CommitWrites
      <4>. QED
        BY <3>1, <4>1, <4>2 DEF InvitationInv
    <3>3. CASE ~Commit(r)
      BY <1>1, <3>1, <3>3, InvitationsStay DEF InvitationInv
    <3>. QED
      BY <3>2, <3>3
  <2>2. mailed' \subseteq mailed \cup {i \in Requests : inv'[i] # "none"}
    <3>1. CASE Mail(r)
      BY <3>1, <2>1 DEF Mail, GoTo, TypeOK
    <3>2. CASE ~Mail(r)
      BY <1>1, <3>2 DEF Act, Step, BeginAdd, BeginPatch, BeginRemove, BeginRedeem, AddUser,
         AddRole, Limiter, AdvisoryLock, FindOpen, Supersede, InsertInvitation, PatchDelete,
         DeleteRole, Deleted, PatchInsert, Mark, Commit, Abort, Expire
    <3>. QED
      BY <3>1, <3>2
  <2>3. \A i \in Requests : inv[i] # "none" => inv'[i] # "none"
    BY <1>1, CommitWrites, InvitationsStay
  <2>. QED
    BY <2>1, <2>2, <2>3 DEF InvitationInv, MailedAreCommitted, TypeOK
<1>2. CASE UNCHANGED vars
  BY <1>2 DEF vars, tables, InvitationInv, MailedAreCommitted
<1>. QED
  BY <1>1, <1>2 DEF Next, Act

-----------------------------------------------------------------------------
(* How the closed and opened rows and the advisory lock of a transaction   *)
(* can change.                                                             *)
LEMMA HoldsChange ==
    ASSUME TypeOK, HandlerInv, TxInv, NEW r \in Requests, Act(r)
    PROVE  /\ \/ tx'[r].closed \in {tx[r].closed, {}}
              \/ Supersede(r) /\ tx'[r].closed = target[r] \cap Open
              \/ Mark(r) /\ tx'[r].closed = {arg[r]} \cap Open
           /\ \/ tx'[r].opened \in {tx[r].opened, {}}
              \/ InsertInvitation(r) /\ pc'[r] # "conflict" /\ tx'[r].opened = {r}
           /\ tx'[r].lock => (tx[r].lock \/ AdvisoryLock(r)) /\ replica'[r] = replica[r]
<1>1. CASE \/ \E role \in Roles, p \in Replicas : BeginAdd(r, role, p)
           \/ \E role \in Roles : BeginPatch(r, role)
           \/ BeginRemove(r)
           \/ \E i \in Requests : BeginRedeem(r, i)
  <2>1. pc[r] = "new" /\ tx' = tx
    BY <1>1 DEF BeginAdd, BeginPatch, BeginRemove, BeginRedeem, Begin
  <2>. QED
    BY <2>1, NoTxFields DEF TxInv, TxOf, InTransaction
<1>2. CASE \/ Limiter(r) \/ FindOpen(r) \/ PatchDelete(r) \/ Mail(r) \/ Expire(r)
           \/ Deleted(r) /\ pc'[r] # "notfound"
  BY <1>2 DEF Limiter, FindOpen, PatchDelete, Deleted, Rollback, GoTo, Mail, Expire, request,
              TypeOK
<1>3. CASE \/ AddUser(r) \/ AddRole(r) \/ (\E role \in Roles : DeleteRole(r, role))
           \/ PatchInsert(r) /\ pc'[r] # "conflict"
  BY <1>3, Writes DEF AddUser, AddRole, DeleteRole, PatchInsert, request
<1>4. CASE AdvisoryLock(r)
  BY <1>4, Writes DEF AdvisoryLock, request
<1>5. CASE Supersede(r)
  BY <1>5, Writes DEF Supersede, request
<1>6. CASE InsertInvitation(r) /\ pc'[r] # "conflict"
  BY <1>6, Writes DEF InsertInvitation, request
<1>7. CASE Mark(r)
  BY <1>7, Writes DEF Mark, request
<1>8. CASE Ends(r)
  BY <1>8, EndWrites, NoTxFields
<1>. QED
  BY <1>1, <1>2, <1>3, <1>4, <1>5, <1>6, <1>7, <1>8 DEF Act, Step, Ends

(* What transactions hold excludes each other. *)
LEMMA LocksStep ==
    ASSUME TypeOK, HandlerInv, TxInv, InvitationInv, LocksInv, [Next]_vars
    PROVE  LocksInv'
<1>1. ASSUME NEW r \in Requests, Act(r)
      PROVE  LocksInv'
  <2>1. \A o \in Requests \ {r} : tx'[o] = tx[o] /\ replica'[o] = replica[o]
    BY <1>1, OthersStay DEF Others
  <2>2. /\ \/ tx'[r].closed \in {tx[r].closed, {}}
           \/ Supersede(r) /\ tx'[r].closed = target[r] \cap Open
           \/ Mark(r) /\ tx'[r].closed = {arg[r]} \cap Open
        /\ \/ tx'[r].opened \in {tx[r].opened, {}}
           \/ InsertInvitation(r) /\ pc'[r] # "conflict" /\ tx'[r].opened = {r}
        /\ tx'[r].lock => (tx[r].lock \/ AdvisoryLock(r)) /\ replica'[r] = replica[r]
    BY <1>1, HoldsChange
  <2>3. tx'[r].closed \in {tx[r].closed, {}} \/
           /\ \A i \in tx'[r].closed : inv[i] = "open" /\ i \in Requests
           /\ \A o \in Requests \ {r} : tx'[r].closed \cap tx[o].closed = {}
    BY <2>2 DEF Supersede, Mark, InvLocked, Others, Open
  <2>4. \A o \in Requests \ {r} : tx'[r].opened = {} \/ tx[o].opened = {}
    BY <2>2 DEF InsertInvitation, OpeningElsewhere, Others, LocksInv
  <2>5. \A o \in Requests \ {r} : tx'[r].lock /\ tx[o].lock => replica[o] # replica[r]
    BY <2>2 DEF AdvisoryLock, AdvisoryLocked, Others, LocksInv
  <2>6. \A i \in Requests : inv[i] = "open" /\ inv'[i] # "open" =>
           Commit(r) /\ i \in tx[r].closed
    <3>1. CASE Commit(r)
      BY <3>1, CommitWrites
    <3>2. CASE ~Commit(r)
      BY <1>1, <3>2, InvitationsStay
    <3>. QED
      BY <3>1, <3>2
  <2>7. ASSUME NEW o \in Requests, NEW i \in tx'[o].closed
        PROVE  inv'[i] = "open"
    <3>1. i \in Requests /\ inv[i] = "open"
      BY <2>1, <2>3, <2>7 DEF LocksInv, TypeOK, Txs
    <3>2. CASE o = r
      BY <2>6, <2>7, <3>1, <3>2, EndWrites, NoTxFields DEF Ends
    <3>3. CASE o # r
      BY <2>1, <2>6, <2>7, <3>1, <3>3 DEF LocksInv
    <3>. QED
      BY <3>2, <3>3
  <2>8. \A o \in Requests \ {r} : tx'[r].closed \cap tx[o].closed = {}
    BY <2>3 DEF LocksInv
  <2>9. ASSUME NEW q \in Requests, NEW o \in Requests, q # o
        PROVE  /\ tx'[q].closed \cap tx'[o].closed = {}
               /\ tx'[q].opened = {} \/ tx'[o].opened = {}
               /\ tx'[q].lock /\ tx'[o].lock => replica'[q] # replica'[o]
    <3>1. CASE q # r /\ o # r
      BY <2>1, <2>9, <3>1 DEF LocksInv
    <3>2. CASE q = r
      BY <2>1, <2>2, <2>4, <2>5, <2>8, <2>9, <3>2
    <3>3. CASE o = r
      BY <2>1, <2>2, <2>4, <2>5, <2>8, <2>9, <3>3
    <3>. QED
      BY <3>1, <3>2, <3>3
  <2>. QED
    BY <2>7, <2>9 DEF LocksInv
<1>2. CASE UNCHANGED vars
  BY <1>2 DEF vars, tables, request, LocksInv
<1>. QED
  BY <1>1, <1>2 DEF Next, Act

(* One open invitation, and who opens another has closed it. *)
LEMMA OpenStep ==
    ASSUME TypeOK, HandlerInv, TxInv, InvitationInv, LocksInv, OpenInv, [Next]_vars
    PROVE  OpenInv'
<1>1. ASSUME NEW r \in Requests, Act(r)
      PROVE  OpenInv'
  <2>1. \A o \in Requests \ {r} : tx'[o] = tx[o]
    BY <1>1, OthersStay DEF Others
  <2>2. CASE Commit(r)
    <3>1. Open' = (Open \ tx[r].closed) \cup tx[r].opened /\ tx'[r].opened = {}
      BY <2>2, CommitWrites, NoTxFields
    <3>2. tx[r].opened = {} \/ (tx[r].opened = {r} /\ Open \subseteq tx[r].closed)
      BY DEF OpenInv, TxInv, TxOf
    <3>3. \A i, j \in Open' : i = j
      BY <3>1, <3>2 DEF OpenInv
    <3>4. \A o \in Requests \ {r} : tx'[o].opened # {} => Open' \subseteq tx'[o].closed
      BY <2>1, <3>1 DEF OpenInv, LocksInv
    <3>. QED
      BY <3>1, <3>3, <3>4 DEF OpenInv
  <2>3. CASE ~Commit(r)
    <3>1. Open' = Open
      BY <1>1, <2>3, InvitationsStay DEF Open
    <3>2. tx'[r].opened # {} => Open \subseteq tx'[r].closed
      <4>1. CASE InsertInvitation(r) /\ pc'[r] # "conflict"
        <5>1. Open \subseteq tx[r].closed
          BY <4>1 DEF InsertInvitation, Rollback, GoTo, TypeOK
        <5>. QED
          BY <4>1, <5>1, Writes
      <4>2. CASE tx'[r].opened = tx[r].opened /\ tx[r].opened # {}
        <5>1. pc[r] = "commit" /\ kind[r] = "add"
          BY <4>2 DEF TxInv, TxOf
        <5>2. tx'[r].closed \in {tx[r].closed, {}}
          BY <1>1, <5>1, HoldsChange DEF Supersede, Mark
        <5>3. tx'[r].closed = tx[r].closed
          <6>1. CASE tx[r].closed = {}
            BY <5>2, <6>1
          <6>2. CASE tx[r].closed # {}
            BY <1>1, <2>3, <4>2, <5>1, EndWrites, NoTxFields DEF Act, Step, BeginAdd, BeginPatch,
               BeginRemove, BeginRedeem, Begin, AddUser, AddRole, Limiter, AdvisoryLock,
               FindOpen, Supersede, InsertInvitation, PatchDelete, DeleteRole, Deleted,
               PatchInsert, Mark, Mail, Expire, Ends
          <6>. QED
            BY <6>1, <6>2
        <5>. QED
          BY <4>2, <5>3 DEF OpenInv
      <4>. QED
        BY <1>1, <4>1, <4>2, HoldsChange
    <3>. QED
      BY <2>1, <3>1, <3>2 DEF OpenInv
  <2>. QED
    BY <2>2, <2>3
<1>2. CASE UNCHANGED vars
  BY <1>2 DEF vars, tables, OpenInv, Open
<1>. QED
  BY <1>1, <1>2 DEF Next, Act

(* How a handler gets to the statements of an invitation, and what a       *)
(* handler leaves of the rows that another one has found.                  *)
LEMMA WayToInsert ==
    ASSUME TypeOK, HandlerInv, NEW r \in Requests, Act(r)
    PROVE  /\ pc[r] # "new" => replica'[r] = replica[r]
           /\ ~Commit(r) => \A o \in Others(r) : target'[o] = target[o]
           /\ pc'[r] = "closing" => FindOpen(r) \/ (pc[r] = "closing" /\ UNCHANGED <<target, tx>>)
           /\ pc'[r] = "insert" => Supersede(r) \/ (pc[r] = "insert" /\ UNCHANGED <<target, tx>>)
           /\ pc'[r] = "conflict" =>
                 pc[r] = "conflict" \/ InsertInvitation(r) \/ pc[r] = "patchinsert"
<1>. USE DEF TypeOK, GoTo, tables, request, Others
<1>1. CASE \/ \E role \in Roles, p \in Replicas : BeginAdd(r, role, p)
           \/ \E role \in Roles : BeginPatch(r, role)
           \/ BeginRemove(r)
           \/ \E i \in Requests : BeginRedeem(r, i)
  BY <1>1 DEF BeginAdd, BeginPatch, BeginRemove, BeginRedeem, Begin, FindRoles
<1>2. CASE AddUser(r) \/ AddRole(r) \/ Limiter(r) \/ AdvisoryLock(r)
  BY <1>2 DEF AddUser, AddRole, Limiter, AdvisoryLock
<1>3. CASE FindOpen(r) \/ Supersede(r) \/ InsertInvitation(r)
  BY <1>3 DEF FindOpen, Supersede, InsertInvitation, Rollback
<1>4. CASE PatchDelete(r) \/ (\E role \in Roles : DeleteRole(r, role)) \/ Deleted(r)
  BY <1>4 DEF PatchDelete, FindRoles, DeleteRole, Deleted, Rollback
<1>5. CASE PatchInsert(r) \/ Mark(r)
  BY <1>5 DEF PatchInsert, Mark, Rollback
<1>6. CASE Commit(r)
  <2>1. pc'[r] = Answer(r) /\ replica' = replica
    BY <1>6 DEF Commit
  <2>2. Answer(r) \notin {"closing", "insert", "conflict"}
    BY <1>6 DEF Commit, Answer, HandlerInv
  <2>. QED
    BY <1>6, <2>1, <2>2
<1>7. CASE Abort(r) \/ Mail(r) \/ Expire(r)
  BY <1>7 DEF Abort, Mail, Expire, Rollback
<1>. QED
  BY <1>1, <1>2, <1>3, <1>4, <1>5, <1>6, <1>7 DEF Act, Step

(* With the advisory lock, an add finds the open invitation of its replica.*)
LEMMA FoundStep ==
    ASSUME TypeOK, HandlerInv, TxInv, InvitationInv, LocksInv, OpenInv, FoundInv, [Next]_vars
    PROVE  FoundInv'
<1>1. ASSUME NEW r \in Requests, Act(r), NEW q \in Requests, NEW i \in Open',
             replica'[i] = replica'[q]
      PROVE  /\ pc'[q] = "closing" => i \in target'[q]
             /\ pc'[q] = "insert"  => i \in tx'[q].closed
  <2>1. \A o \in Requests \ {r} :
           tx'[o] = tx[o] /\ replica'[o] = replica[o] /\ pc'[o] = pc[o]
    BY <1>1, OthersStay DEF Others
  <2>2. i \in Requests
    BY <1>1 DEF Open
  <2>3. CASE Commit(r)
    <3>1. pc'[r] \in Answers /\ replica' = replica
      BY <2>3, EndWrites DEF Ends, Commit, request, Answers
    <3>2. CASE q = r
      BY <3>1, <3>2 DEF Answers
    <3>3. CASE q # r /\ i \in Open
      <4>1. target'[q] = target[q] \ tx[r].del /\ i \notin tx[r].del
        BY <2>2, <2>3, MembershipAssumption DEF Commit, TypeOK, Txs
      <4>. QED
        BY <1>1, <2>1, <3>1, <3>3, <4>1 DEF FoundInv
    <3>4. CASE q # r /\ i \notin Open
      <4>1. i \in tx[r].opened
        BY <1>1, <2>3, <3>4, CommitWrites
      <4>2. i = r /\ tx[r].lock
        BY <4>1 DEF TxInv, TxOf
      <4>3. ~tx[q].lock
        BY <1>1, <3>1, <3>4, <4>2 DEF LocksInv
      <4>. QED
        BY <2>1, <3>4, <4>3 DEF TxInv, TxOf
    <3>. QED
      BY <3>2, <3>3, <3>4
  <2>4. CASE ~Commit(r)
    <3>1. i \in Open
      BY <1>1, <2>4, InvitationsStay DEF Open
    <3>2. pc[i] # "new"
      BY <3>1 DEF Open, InvitationInv
    <3>3. replica'[i] = replica[i]
      BY <1>1, <2>1, <2>2, <3>2, WayToInsert
    <3>4. CASE q # r
      BY <1>1, <2>1, <2>4, <3>1, <3>3, <3>4, WayToInsert DEF FoundInv, Others
    <3>5. CASE q = r /\ pc'[r] = "closing"
      <4>1. CASE FindOpen(r)
        BY <3>1, <3>5, <4>1 DEF FindOpen, TypeOK
      <4>2. CASE pc[r] = "closing" /\ UNCHANGED <<target, tx>>
        BY <1>1, <3>1, <3>3, <3>5, <4>2, WayToInsert DEF FoundInv
      <4>. QED
        BY <1>1, <3>5, <4>1, <4>2, WayToInsert
    <3>6. CASE q = r /\ pc'[r] = "insert"
      <4>1. CASE Supersede(r)
        <5>1. pc[r] = "closing" /\ replica' = replica
          BY <4>1 DEF Supersede, request
        <5>2. i \in target[r]
          BY <1>1, <3>1, <3>6, <5>1 DEF FoundInv
        <5>. QED
          BY <3>1, <3>6, <4>1, <5>2, Writes
      <4>2. CASE pc[r] = "insert" /\ UNCHANGED <<target, tx>>
        BY <1>1, <3>1, <3>3, <3>6, <4>2, WayToInsert DEF FoundInv
      <4>. QED
        BY <1>1, <3>6, <4>1, <4>2, WayToInsert
    <3>. QED
      BY <3>4, <3>5, <3>6
  <2>. QED
    BY <2>3, <2>4
<1>2. CASE UNCHANGED vars
  BY <1>2 DEF vars, tables, request, FoundInv, Open
<1>. QED
  BY <1>1, <1>2 DEF Next, Act, FoundInv

(* A failed add was served by another replica than the add it met. *)
LEMMA SerializedStep ==
    ASSUME TypeOK, HandlerInv, TxInv, InvitationInv, FoundInv, SerializedByReplica, [Next]_vars
    PROVE  SerializedByReplica'
<1>1. ASSUME NEW r \in Requests, Act(r), NEW q \in Requests,
             kind'[q] = "add", pc'[q] = "conflict"
      PROVE  \E s \in Requests : kind'[s] = "add" /\ replica'[s] # replica'[q]
  <2>1. \A o \in Requests : pc[o] # "new" => kind'[o] = kind[o] /\ replica'[o] = replica[o]
    <3>1. pc[r] # "new" => kind' = kind
      BY <1>1 DEF Act, Step, BeginAdd, BeginPatch, BeginRemove, BeginRedeem, Begin, AddUser,
         AddRole, Limiter, AdvisoryLock, FindOpen, Supersede, InsertInvitation, PatchDelete,
         DeleteRole, Deleted, PatchInsert, Mark, Commit, Abort, Mail, Expire, request
    <3>. QED
      BY <1>1, <3>1, OthersStay, WayToInsert DEF Others
  <2>2. pc[q] = "conflict" \/ (q = r /\ InsertInvitation(r)) \/ pc[q] = "patchinsert"
    BY <1>1, OthersStay, WayToInsert DEF Others
  <2>3. pc[q] # "patchinsert"
    BY <1>1, <2>1 DEF HandlerInv
  <2>4. pc[q] # "new"
    BY <2>2 DEF InsertInvitation
  <2>5. \E s \in Requests : kind[s] = "add" /\ replica[s] # replica[q]
    <3>1. CASE pc[q] = "conflict"
      BY <1>1, <2>1, <2>4, <3>1 DEF SerializedByReplica
    <3>2. CASE q = r /\ InsertInvitation(r)
      <4>1. pc[r] = "insert" /\ Open \ tx[r].closed # {}
        BY <1>1, <3>2 DEF InsertInvitation, GoTo, TypeOK
      <4>2. PICK i \in Open : i \notin tx[r].closed
        BY <4>1
      <4>3. i \in Requests /\ kind[i] = "add"
        BY DEF Open, InvitationInv, HandlerInv
      <4>. QED
        BY <3>2, <4>1, <4>2, <4>3 DEF FoundInv
    <3>. QED
      BY <2>2, <2>3, <3>1, <3>2
  <2>. QED
    BY <2>1, <2>4, <2>5 DEF HandlerInv
<1>2. CASE UNCHANGED vars
  BY <1>2 DEF vars, request, SerializedByReplica
<1>. QED
  BY <1>1, <1>2 DEF Next, Act, SerializedByReplica

(* A commit that closes an invitation accepts it or opens another one. *)
LEMMA LinkStep ==
    ASSUME TypeOK, HandlerInv, TxInv, InvitationInv, LocksInv, InviteeKeepsALink, [Next]_vars
    PROVE  InviteeKeepsALink'
<1>1. ASSUME NEW r \in Requests, Act(r)
      PROVE  InviteeKeepsALink'
  <2>1. CASE Commit(r)
    <3>1. CASE tx[r].opened # {}
      BY <2>1, <3>1, CommitWrites DEF InviteeKeepsALink
    <3>2. CASE tx[r].opened = {} /\ tx[r].closed # {}
      <4>1. kind[r] = "redeem"
        BY <2>1, <3>2 DEF TxInv, TxOf, Commit
      <4>2. PICK i \in tx[r].closed : TRUE
        BY <3>2
      <4>3. i \in Requests
        BY DEF TypeOK, Txs
      <4>. QED
        BY <2>1, <4>1, <4>2, <4>3, CommitWrites DEF InviteeKeepsALink
    <3>3. CASE tx[r].opened = {} /\ tx[r].closed = {}
      <4>1. \A i \in Requests : inv'[i] = inv[i]
        BY <2>1, <3>3, CommitWrites
      <4>. QED
        BY <4>1 DEF InviteeKeepsALink
    <3>. QED
      BY <3>1, <3>2, <3>3
  <2>2. CASE ~Commit(r)
    BY <1>1, <2>2, InvitationsStay DEF InviteeKeepsALink
  <2>. QED
    BY <2>1, <2>2
<1>2. CASE UNCHANGED vars
  BY <1>2 DEF vars, tables, InviteeKeepsALink
<1>. QED
  BY <1>1, <1>2 DEF Next, Act

-----------------------------------------------------------------------------
(* The inductive invariant holds at the start. *)
LEMMA MembershipInit == Init => MembershipInv
<1>. SUFFICES ASSUME Init
              PROVE  MembershipInv
  OBVIOUS
<1>1. NoTx \in Txs
  BY DEF NoTx, Txs
<1>2. TypeOK
  BY <1>1 DEF Init, TypeOK
<1>3. HandlerInv /\ TxInv
  BY NoTxFields DEF Init, HandlerInv, AddLabels, TxInv, TxOf, InTransaction
<1>6. HeldInv
  BY NoTxFields DEF Init, HeldInv, HeldOf
<1>4. InvitationInv /\ InviteeKeepsALink /\ SerializedByReplica
  BY DEF Init, InvitationInv, MailedAreCommitted, InviteeKeepsALink, SerializedByReplica
<1>5. LocksInv /\ OpenInv /\ FoundInv
  BY NoTxFields DEF Init, LocksInv, OpenInv, FoundInv, Open
<1>. QED
  BY <1>2, <1>3, <1>4, <1>5, <1>6 DEF MembershipInv

(* Every step keeps the inductive invariant. *)
LEMMA MembershipStep == MembershipInv /\ [Next]_vars => MembershipInv'
BY TypeStep, HandlerStep, TxStep, HeldStep, InvitationStep, LocksStep, OpenStep, FoundStep,
   SerializedStep, LinkStep DEF MembershipInv

(* The transactions in progress and what they have committed always fit    *)
(* together as MembershipInv says.                                         *)
THEOREM MembershipInvariant == Spec => []MembershipInv
BY MembershipInit, MembershipStep, PTL DEF Spec

(* Every variable of the member and invitation transactions has its type.  *)
THEOREM MembershipTypeCorrect == Spec => []TypeOK
<1>1. MembershipInv => TypeOK
  BY DEF MembershipInv
<1>. QED
  BY <1>1, MembershipInvariant, PTL

(* An invitee never has two open invitations to a tenant, however many adds*)
(* run on however many interpreters (services/invitations.py:249-289).     *)
THEOREM OneOpenHolds == Spec => []OneOpen
<1>1. MembershipInv => OneOpen
  <2>. SUFFICES ASSUME MembershipInv
                PROVE  Cardinality(Open) <= 1
    BY DEF OneOpen
  <2>1. CASE Open = {}
    BY <2>1, FS_EmptySet
  <2>2. CASE Open # {}
    <3>1. PICK i \in Open : TRUE
      BY <2>2
    <3>2. Open = {i}
      BY DEF MembershipInv, OpenInv
    <3>3. Cardinality({i}) = 1
      BY FS_Singleton
    <3>. QED
      BY <3>2, <3>3
  <2>. QED
    BY <2>1, <2>2
<1>. QED
  BY <1>1, MembershipInvariant, PTL

(* Whoever was invited has an invitation that is open or accepted, whatever*)
(* supersedes, expires, fails or is rolled back in between.                *)
THEOREM InviteeKeepsALinkHolds == Spec => []InviteeKeepsALink
<1>1. MembershipInv => InviteeKeepsALink
  BY DEF MembershipInv
<1>. QED
  BY <1>1, MembershipInvariant, PTL

(* No email goes out for an invitation that was rolled back.               *)
THEOREM MailedAreCommittedHolds == Spec => []MailedAreCommitted
<1>1. MembershipInv => MailedAreCommitted
  BY DEF MembershipInv, InvitationInv
<1>. QED
  BY <1>1, MembershipInvariant, PTL

(* What the advisory lock of the invitations achieves: an add fails on the *)
(* unique index only when another add ran on another interpreter.          *)
THEOREM SerializedByReplicaHolds == Spec => []SerializedByReplica
<1>1. MembershipInv => SerializedByReplica
  BY DEF MembershipInv
<1>. QED
  BY <1>1, MembershipInvariant, PTL

(* A redemption is never overwritten by a replacement, nor the other way   *)
(* round, although both statements look at the row before they lock it.    *)
THEOREM ClosedOnceHolds == Spec => ClosedOnce
<1>1. ASSUME MembershipInv, [Next]_vars, NEW i \in Requests,
             inv[i] \in {"redeemed", "superseded"}
      PROVE  inv'[i] = inv[i]
  <2>1. ASSUME NEW r \in Requests, Act(r)
        PROVE  inv'[i] = inv[i]
    <3>1. CASE Commit(r)
      <4>1. i # r /\ i \notin tx[r].closed
        BY <1>1, <3>1, CommitWrites DEF MembershipInv, LocksInv
      <4>. QED
        BY <1>1, <3>1, <4>1, CommitWrites DEF MembershipInv
    <3>2. CASE ~Commit(r)
      BY <1>1, <2>1, <3>2, InvitationsStay DEF MembershipInv
    <3>. QED
      BY <3>1, <3>2
  <2>. QED
    BY <1>1, <2>1 DEF Next, Act, vars, tables
<1>2. MembershipInv /\ [Next]_vars =>
        [\A i \in Requests : inv[i] \in {"redeemed", "superseded"} => inv'[i] = inv[i]]_vars
  BY <1>1
<1>. QED
  BY <1>2, MembershipInvariant, PTL DEF Spec, ClosedOnce

(* Only a remove takes a member's last role: a patch that deletes the roles*)
(* also commits the new one, and an add or a redemption deletes none.      *)
THEOREM OnlyRemoveEmptiesHolds == Spec => OnlyRemoveEmpties
<1>1. ASSUME MembershipInv, [Next]_vars, roles # {}, roles' = {}
      PROVE  \E r \in Requests : pc[r] # "removed" /\ pc'[r] = "removed"
  <2>1. PICK r \in Requests : Act(r)
    BY <1>1 DEF Next, Act, vars, tables
  <2>2. Commit(r)
    BY <1>1, <2>1 DEF Act, Step, BeginAdd, BeginPatch, BeginRemove, BeginRedeem, AddUser,
       AddRole, Limiter, AdvisoryLock, FindOpen, Supersede, InsertInvitation, PatchDelete,
       DeleteRole, Deleted, PatchInsert, Mark, Abort, Mail, Expire, tables
  <2>3. tx[r].del # {} /\ tx[r].ins = {}
    BY <1>1, <2>2 DEF Commit
  <2>4. kind[r] = "remove" /\ pc[r] = "commit"
    BY <1>1, <2>2, <2>3 DEF Commit, MembershipInv, TxInv, TxOf
  <2>. QED
    BY <1>1, <2>2, <2>4 DEF Commit, Answer, GoTo, MembershipInv, TypeOK
<1>2. MembershipInv /\ [Next]_vars =>
        [roles # {} /\ roles' = {} =>
            \E r \in Requests : pc[r] # "removed" /\ pc'[r] = "removed"]_vars
  BY <1>1
<1>. QED
  BY <1>2, MembershipInvariant, PTL DEF Spec, OnlyRemoveEmpties

-----------------------------------------------------------------------------
(* Who waits inside a circle waits for somebody who also waits.            *)
LEMMA CircleWaits ==
    ASSUME MembershipInv, NEW S \in SUBSET Requests, Circle(S), NEW r \in S
    PROVE  /\ pc[r] \in {"adduser", "addrole", "advisory", "closing", "insert", "deleting",
                         "patchinsert", "marking"}
           /\ \E o \in S : WaitsFor(r, o)
BY DEF Circle, WaitsFor

(* Nobody in a circle waits for an invitation or for the advisory lock: who*)
(* has closed the open invitation, or is opening one, waits for nobody.    *)
LEMMA NoInvitationInCircle ==
    ASSUME MembershipInv, NEW S \in SUBSET Requests, Circle(S), NEW r \in S
    PROVE  pc[r] \notin {"closing", "insert", "marking", "advisory"}
<1>. USE DEF MembershipInv
<1>1. ASSUME NEW o \in S
      PROVE  tx[o].opened = {} /\ tx[o].closed = {}
  <2>1. /\ tx[o].opened # {} => pc[o] = "commit"
        /\ tx[o].closed # {} => pc[o] \in {"insert", "commit"}
    BY DEF TxInv, TxOf
  <2>2. tx[o].opened = {} /\ (tx[o].closed # {} => pc[o] = "insert")
    BY <2>1, CircleWaits
  <2>3. ASSUME tx[o].closed # {}
        PROVE  FALSE
    <3>1. PICK q \in S : WaitsFor(o, q)
      BY CircleWaits
    <3>2. q # o /\ (tx[q].opened # {} \/ (Open \ tx[o].closed) \cap tx[q].closed # {})
      BY <2>2, <2>3, <3>1 DEF WaitsFor
    <3>3. Open \subseteq tx[o].closed
      BY <2>3 DEF LocksInv, OpenInv, Open, TypeOK, Txs
    <3>4. tx[q].opened # {} /\ pc[q] = "commit"
      BY <3>2, <3>3 DEF TxInv, TxOf
    <3>. QED
      BY <3>4, CircleWaits
  <2>. QED
    BY <2>2, <2>3
<1>2. ASSUME NEW o \in S
      PROVE  pc[o] \notin {"closing", "insert", "marking"}
  <2>1. PICK q \in S : WaitsFor(o, q)
    BY CircleWaits
  <2>. QED
    BY <1>1, <2>1 DEF WaitsFor
<1>3. ASSUME pc[r] = "advisory"
      PROVE  FALSE
  <2>1. PICK q \in S : WaitsFor(r, q)
    BY CircleWaits
  <2>2. tx[q].lock
    BY <1>3, <2>1 DEF WaitsFor
  <2>3. pc[q] \in {"supersede", "closing", "insert", "commit"}
    BY <2>2 DEF HeldInv, HeldOf
  <2>. QED
    BY <1>2, <2>3, CircleWaits
<1>. QED
  BY <1>2, <1>3

(* Who needs a role row in a circle needs it of somebody who deleted it.   *)
LEMMA RoleWaits ==
    ASSUME MembershipInv, NEW S \in SUBSET Requests, Circle(S), NEW r \in S,
           pc[r] # "adduser"
    PROVE  \E d \in S : d # r /\ tx[d].del # {}
<1>1. PICK d \in S : WaitsFor(r, d)
  BY CircleWaits
<1>2. d # r /\ tx[d].ins \cup tx[d].del # {}
  BY <1>1, CircleWaits, NoInvitationInCircle DEF WaitsFor
<1>3. tx[d].ins = {}
  BY CircleWaits, NoInvitationInCircle DEF MembershipInv, HeldInv, HeldOf
<1>. QED
  BY <1>2, <1>3

(* Adds, redemptions and one change of a membership never wait for each    *)
(* other in a circle: every circle goes through two patches or removes that*)
(* have each deleted a role (platform_admin_handlers.py:556-570, 597-606). *)
THEOREM OnlyDeletesCircleHolds == Spec => []OnlyDeletesCircle
<1>1. ASSUME MembershipInv, NEW S \in SUBSET Requests, Circle(S)
      PROVE  \E d, e \in S :
                /\ d # e
                /\ {kind[d], kind[e]} \subseteq {"patch", "remove"}
                /\ tx[d].del # {} /\ tx[e].del # {}
  <2>1. PICK r \in S : pc[r] # "adduser"
    <3>1. PICK q \in S : TRUE
      BY <1>1 DEF Circle
    <3>2. PICK o \in S : WaitsFor(q, o)
      BY <1>1 DEF Circle
    <3>3. pc[q] = "adduser" => pc[o] # "adduser"
      BY <1>1, <3>2 DEF WaitsFor, MembershipInv, HeldInv, HeldOf
    <3>. QED
      BY <3>3
  <2>2. PICK d \in S : tx[d].del # {}
    BY <1>1, <2>1, RoleWaits
  <2>3. kind[d] \in {"patch", "remove"}
    BY <1>1, <2>2 DEF MembershipInv, TxInv, TxOf
  <2>4. pc[d] # "adduser"
    BY <1>1, <2>3 DEF MembershipInv, HandlerInv, AddLabels
  <2>5. PICK e \in S : e # d /\ tx[e].del # {}
    BY <1>1, <2>4, RoleWaits
  <2>6. kind[e] \in {"patch", "remove"}
    BY <1>1, <2>5 DEF MembershipInv, TxInv, TxOf
  <2>. QED
    BY <2>2, <2>3, <2>5, <2>6
<1>2. MembershipInv => OnlyDeletesCircle
  BY <1>1 DEF OnlyDeletesCircle
<1>. QED
  BY <1>2, MembershipInvariant, PTL

=============================================================================
