----------------------------- MODULE Membership -----------------------------
(***************************************************************************)
(* Membership of one user in one tenant, and the user's invitations to it: *)
(* the handlers that add, patch and remove a member                        *)
(* (api/v1/handlers/platform_admin_handlers.py), the creation and the      *)
(* redemption of invitations (services/invitations.py, called by           *)
(* api/v1/handlers/invitation_handlers.py) and the tables and functions of *)
(* platform_schema/10-core.sql they work on.                               *)
(*                                                                         *)
(* A request is one READ COMMITTED transaction (db/pool.py): each statement*)
(* works on what is committed when it starts, waits for the rows that      *)
(* other transactions have written, and then looks at those rows again.  A *)
(* statement that may wait is two actions, the snapshot and the rest.      *)
(* What a transaction wrote is kept in tx[r] until it commits.  The        *)
(* response goes out after the commit, the email after the response.       *)
(*                                                                         *)
(* An invitation is named by the add request that creates it.  is_default, *)
(* the audit rows, the Auth0 account and what a redeem request does to the *)
(* columns of the user's row before it redeems are not modelled.           *)
(***************************************************************************)
EXTENDS Naturals, FiniteSets

CONSTANTS
    Requests,
    Replicas,    \* Python interpreters, each with its own hash() salt
    Roles,
    None

ASSUME MembershipAssumption ==
    /\ IsFiniteSet(Requests)
    /\ None \notin Requests \cup Replicas \cup Roles
    /\ Requests \cap Roles = {}

VARIABLES
    user,      \* whether app.users has the user's row
    roles,     \* the roles of the user's rows of app.user_tenant_roles
    inv,       \* invitation -> "none", "open", "redeemed" or "superseded"
    expired,   \* invitations past their expires_at
    mailed,    \* invitations whose email was sent
    pc,        \* request -> where its handler is, or what it answered
    kind,      \* request -> "none", "add", "patch", "remove" or "redeem"
    arg,       \* request -> its role, or the invitation of its link
    replica,   \* request -> the interpreter that serves it
    target,    \* request -> rows its statement found and has still to lock
    tx         \* request -> its uncommitted writes, which are also its locks

tables  == <<user, roles, inv>>
request == <<kind, arg, replica>>
vars    == <<tables, expired, mailed, pc, request, target, tx>>

(* user: the users row; lock: the advisory lock; ins and del: roles;       *)
(* closed and opened: invitations.                                         *)
NoTx == [user |-> FALSE, lock |-> FALSE, ins |-> {}, del |-> {},
         closed |-> {}, opened |-> {}]

Init ==
    /\ user \in BOOLEAN
    /\ roles \in SUBSET Roles /\ (roles # {} => user)
    /\ inv = [i \in Requests |-> "none"]
    /\ expired = {}
    /\ mailed = {}
    /\ pc = [r \in Requests |-> "new"]
    /\ kind = [r \in Requests |-> "none"]
    /\ arg = [r \in Requests |-> None]
    /\ replica = [r \in Requests |-> None]
    /\ target = [r \in Requests |-> {}]
    /\ tx = [r \in Requests |-> NoTx]

-----------------------------------------------------------------------------
(*                                 locks                                   *)

Others(r) == Requests \ {r}

(* Rows another transaction in progress has written.                       *)
UserLocked(r) == \E o \in Others(r) : tx[o].user
RoleLocked(r, role) == \E o \in Others(r) : role \in tx[o].ins \cup tx[o].del
InvLocked(r, i) == \E o \in Others(r) : i \in tx[o].closed
OpeningElsewhere(r) == \E o \in Others(r) : tx[o].opened # {}

(* pg_advisory_xact_lock(abs(hash((tenant, email)))): hash() of a str is   *)
(* salted per interpreter, so only requests of one replica ask for the same*)
(* lock.                                                                   *)
AdvisoryLocked(r) == \E o \in Others(r) : tx[o].lock /\ replica[o] = replica[r]

Open == {i \in Requests : inv[i] = "open"}

(* r's next statement needs a row, an index entry or the lock that o holds.*)
(* The DELETE takes its rows one by one, in an order of its own: any row   *)
(* still to be deleted counts.                                             *)
WaitsFor(r, o) ==
    LET rows == tx[o].ins \cup tx[o].del IN
    /\ o # r
    /\ \/ pc[r] = "adduser" /\ tx[o].user
       \/ pc[r] \in {"addrole", "patchinsert"} /\ arg[r] \in rows
       \/ pc[r] = "deleting" /\ target[r] \cap rows # {}
       \/ pc[r] = "advisory" /\ tx[o].lock /\ replica[o] = replica[r]
       \/ pc[r] = "closing" /\ target[r] \cap tx[o].closed # {}
       \/ pc[r] = "marking" /\ arg[r] \in tx[o].closed
       \/ /\ pc[r] = "insert"
          /\ \/ tx[o].opened # {}
             \/ (Open \ tx[r].closed) \cap tx[o].closed # {}

GoTo(r, label) == pc' = [pc EXCEPT ![r] = label]
Rollback(r, answer) ==
    /\ tx' = [tx EXCEPT ![r] = NoTx]
    /\ target' = [target EXCEPT ![r] = {}]
    /\ GoTo(r, answer)

Begin(r, what, on) ==
    /\ pc[r] = "new"
    /\ kind' = [kind EXCEPT ![r] = what]
    /\ arg' = [arg EXCEPT ![r] = on]

-----------------------------------------------------------------------------
(*                          add_tenant_member                              *)

(* SELECT the user by email; the tenant exists. *)
BeginAdd(r, role, p) ==
    /\ Begin(r, "add", role)
    /\ replica' = [replica EXCEPT ![r] = p]
    /\ GoTo(r, IF user THEN "addrole" ELSE "adduser")
    /\ UNCHANGED <<tables, expired, mailed, target, tx>>

(* INSERT ... ON CONFLICT (email) DO UPDATE: inserts or locks the row.     *)
AddUser(r) ==
    /\ pc[r] = "adduser"
    /\ ~UserLocked(r)
    /\ tx' = [tx EXCEPT ![r].user = TRUE]
    /\ GoTo(r, "addrole")
    /\ UNCHANGED <<tables, expired, mailed, request, target>>

(* INSERT ... ON CONFLICT (user_id, tenant_id, role) DO UPDATE. *)
AddRole(r) ==
    /\ pc[r] = "addrole"
    /\ ~RoleLocked(r, arg[r])
    /\ tx' = [tx EXCEPT ![r].ins = {arg[r]}]
    /\ GoTo(r, "invite")
    /\ UNCHANGED <<tables, expired, mailed, request, target>>

(* Mutant: the user's row is written after the role's. *)
RoleThenUser(r) ==
    /\ pc[r] = "invite"
    /\ \E next \in {"advisory", "commit"} : GoTo(r, IF tx[r].user THEN next ELSE "adduser")
    /\ UNCHANGED <<tables, expired, mailed, request, target, tx>>

(* The rate limiter lets the invitation pass, or InvitationRateLimitError *)
(* is caught: a member without an invitation.                             *)
Limiter(r) ==
    /\ pc[r] = "invite"
    /\ \E next \in {"advisory", "commit"} : GoTo(r, next)
    /\ UNCHANGED <<tables, expired, mailed, request, target, tx>>

(* Mutant: no advisory lock. *)
NoAdvisoryLock(r) ==
    /\ pc[r] = "advisory"
    /\ GoTo(r, "supersede")
    /\ UNCHANGED <<tables, expired, mailed, request, target, tx>>

AdvisoryLock(r) ==
    /\ pc[r] = "advisory"
    /\ ~AdvisoryLocked(r)
    /\ tx' = [tx EXCEPT ![r].lock = TRUE]
    /\ GoTo(r, "supersede")
    /\ UNCHANGED <<tables, expired, mailed, request, target>>

(* UPDATE ... SET redeemed_at = now() WHERE ... redeemed_at IS NULL: the   *)
(* rows it finds, then their locks.                                        *)
FindOpen(r) ==
    /\ pc[r] = "supersede"
    /\ target' = [target EXCEPT ![r] = Open]
    /\ GoTo(r, "closing")
    /\ UNCHANGED <<tables, expired, mailed, request, tx>>

(* Mutant: every row found is closed, whatever happened to it meanwhile. *)
SupersedeStale(r) ==
    /\ pc[r] = "closing"
    /\ \A i \in target[r] : ~InvLocked(r, i)
    /\ tx' = [tx EXCEPT ![r].closed = target[r]]
    /\ target' = [target EXCEPT ![r] = {}]
    /\ GoTo(r, "insert")
    /\ UNCHANGED <<tables, expired, mailed, request>>

(* Mutant: the limiter is asked after the supersede. *)
SupersedeThenLimiter(r) ==
    /\ pc[r] = "closing"
    /\ \A i \in target[r] : ~InvLocked(r, i)
    /\ tx' = [tx EXCEPT ![r].closed = target[r] \cap Open]
    /\ target' = [target EXCEPT ![r] = {}]
    /\ \E next \in {"insert", "commit"} : GoTo(r, next)
    /\ UNCHANGED <<tables, expired, mailed, request>>

Supersede(r) ==
    /\ pc[r] = "closing"
    /\ \A i \in target[r] : ~InvLocked(r, i)
    /\ tx' = [tx EXCEPT ![r].closed = target[r] \cap Open]
    /\ target' = [target EXCEPT ![r] = {}]
    /\ GoTo(r, "insert")
    /\ UNCHANGED <<tables, expired, mailed, request>>

(* Mutants: the index of open invitations is not unique; the email is sent *)
(* from inside the transaction.                                            *)
InsertAnyway(r) ==
    /\ pc[r] = "insert"
    /\ tx' = [tx EXCEPT ![r].opened = {r}]
    /\ GoTo(r, "commit")
    /\ UNCHANGED <<tables, expired, mailed, request, target>>

InsertAndMail(r) ==
    /\ pc[r] = "insert"
    /\ ~OpeningElsewhere(r)
    /\ Open \ tx[r].closed = {}
    /\ tx' = [tx EXCEPT ![r].opened = {r}]
    /\ mailed' = mailed \cup {r}
    /\ GoTo(r, "commit")
    /\ UNCHANGED <<tables, expired, request, target>>

(* INSERT, under the unique index of the open invitations: a row that is   *)
(* being inserted or closed elsewhere is waited for, and one that stays    *)
(* open is a unique violation, which nothing catches.                      *)
InsertInvitation(r) ==
    LET inTheWay == Open \ tx[r].closed IN
    /\ pc[r] = "insert"
    /\ ~OpeningElsewhere(r)
    /\ \A i \in inTheWay : ~InvLocked(r, i)
    /\ IF inTheWay = {}
         THEN /\ tx' = [tx EXCEPT ![r].opened = {r}]
              /\ GoTo(r, "commit")
              /\ UNCHANGED target
         ELSE Rollback(r, "conflict")
    /\ UNCHANGED <<tables, expired, mailed, request>>

-----------------------------------------------------------------------------
(*                 patch_tenant_member, remove_tenant_member               *)

(* Read the membership: 404 when there is none. *)
BeginPatch(r, role) ==
    /\ Begin(r, "patch", role)
    /\ GoTo(r, IF roles = {} THEN "notfound" ELSE "patchdelete")
    /\ UNCHANGED <<tables, expired, mailed, replica, target, tx>>

FindRoles(r) ==
    /\ target' = [target EXCEPT ![r] = roles]
    /\ GoTo(r, "deleting")

(* DELETE the roles: the rows it finds ... *)
PatchDelete(r) ==
    /\ pc[r] = "patchdelete"
    /\ FindRoles(r)
    /\ UNCHANGED <<tables, expired, mailed, request, tx>>

BeginRemove(r) ==
    /\ Begin(r, "remove", None)
    /\ FindRoles(r)
    /\ UNCHANGED <<tables, expired, mailed, replica, tx>>

(* ... one after the other; a row that another transaction has deleted     *)
(* meanwhile is no longer a target (Commit).                               *)
DeleteRole(r, role) ==
    /\ pc[r] = "deleting"
    /\ role \in target[r]
    /\ ~RoleLocked(r, role)
    /\ tx' = [tx EXCEPT ![r].del = @ \cup {role}]
    /\ target' = [target EXCEPT ![r] = @ \ {role}]
    /\ UNCHANGED <<tables, expired, mailed, pc, request>>

(* The patch goes on to its INSERT; a remove that found no row is a 404.   *)
Deleted(r) ==
    /\ pc[r] = "deleting"
    /\ target[r] = {}
    /\ IF kind[r] = "remove" /\ tx[r].del = {}
         THEN Rollback(r, "notfound")
         ELSE /\ GoTo(r, IF kind[r] = "remove" THEN "commit" ELSE "patchinsert")
              /\ UNCHANGED <<tx, target>>
    /\ UNCHANGED <<tables, expired, mailed, request>>

(* Mutant: a conflict does not abort. *)
PatchInsertSkipped(r) ==
    /\ pc[r] = "patchinsert"
    /\ GoTo(r, "commit")
    /\ UNCHANGED <<tables, expired, mailed, request, target, tx>>

(* INSERT, under the primary key (user, tenant, role). *)
PatchInsert(r) ==
    /\ pc[r] = "patchinsert"
    /\ ~RoleLocked(r, arg[r])
    /\ IF arg[r] \in roles \ tx[r].del
         THEN Rollback(r, "conflict")
         ELSE /\ tx' = [tx EXCEPT ![r].ins = {arg[r]}]
              /\ GoTo(r, "commit")
              /\ UNCHANGED target
    /\ UNCHANGED <<tables, expired, mailed, request>>

-----------------------------------------------------------------------------
(*                           redeem_invitation                             *)

(* The invitee follows a link, with the email it was sent to.  A row whose *)
(* redeemed_at is set is answered 200 and redeemed; an expired one 410.    *)
BeginRedeem(r, i) ==
    /\ inv[i] # "none"
    /\ Begin(r, "redeem", i)
    /\ GoTo(r, IF inv[i] # "open" THEN "redeemed"
               ELSE IF i \in expired THEN "gone" ELSE "marking")
    /\ UNCHANGED <<tables, expired, mailed, replica, target, tx>>

(* mark_invitation_redeemed: a compare and swap whose result is ignored.   *)
Mark(r) ==
    /\ pc[r] = "marking"
    /\ ~InvLocked(r, arg[r])
    /\ tx' = [tx EXCEPT ![r].closed = {arg[r]} \cap Open]
    /\ GoTo(r, "commit")
    /\ UNCHANGED <<tables, expired, mailed, request, target>>

-----------------------------------------------------------------------------
(*                 end of the transaction, and afterwards                  *)

Answer(r) ==
    CASE kind[r] = "add"    -> IF tx[r].opened = {} THEN "limited" ELSE "added"
      [] kind[r] = "patch"  -> "patched"
      [] kind[r] = "remove" -> "removed"
      [] kind[r] = "redeem" -> "redeemed"

(* The transaction commits, its locks go, and the handler answers.         *)
Commit(r) ==
    /\ pc[r] = "commit"
    /\ user' = (user \/ tx[r].user)
    /\ roles' = (roles \ tx[r].del) \cup tx[r].ins
    /\ inv' = [i \in Requests |->
                CASE i \in tx[r].closed -> IF kind[r] = "redeem" THEN "redeemed" ELSE "superseded"
                  [] i \in tx[r].opened -> "open"
                  [] OTHER -> inv[i]]
    /\ tx' = [tx EXCEPT ![r] = NoTx]
    /\ target' = [o \in Requests |-> target[o] \ tx[r].del]
    /\ GoTo(r, Answer(r))
    /\ UNCHANGED <<expired, mailed, request>>

InTransaction == {"adduser", "addrole", "invite", "advisory", "supersede", "closing", "insert",
                  "patchdelete", "deleting", "patchinsert", "marking", "commit"}

(* A statement fails (lost connection, command_timeout, the victim of      *)
(* Postgres' deadlock detector): everything is rolled back, a 500.         *)
Abort(r) ==
    /\ pc[r] \in InTransaction
    /\ Rollback(r, "failed")
    /\ UNCHANGED <<tables, expired, mailed, request>>

(* The background task: the email goes out, or its provider fails.  The    *)
(* last_send_status it records is not modelled.                            *)
Mail(r) ==
    /\ pc[r] = "added"
    /\ mailed' \in {mailed, mailed \cup {r}}
    /\ GoTo(r, "mailed")
    /\ UNCHANGED <<tables, expired, request, target, tx>>

Expire(i) ==
    /\ inv[i] = "open"
    /\ expired' = expired \cup {i}
    /\ UNCHANGED <<tables, mailed, pc, request, target, tx>>

-----------------------------------------------------------------------------
(*                            specification                                *)

Step(r) ==
    \/ AddUser(r) \/ AddRole(r) \/ Limiter(r) \/ AdvisoryLock(r)
    \/ FindOpen(r) \/ Supersede(r) \/ InsertInvitation(r)
    \/ PatchDelete(r) \/ (\E role \in Roles : DeleteRole(r, role)) \/ Deleted(r)
    \/ PatchInsert(r) \/ Mark(r) \/ Commit(r)

Next ==
    \E r \in Requests :
        \/ \E role \in Roles, p \in Replicas : BeginAdd(r, role, p)
        \/ \E role \in Roles : BeginPatch(r, role)
        \/ BeginRemove(r)
        \/ \E i \in Requests : BeginRedeem(r, i)
        \/ Step(r)
        \/ Abort(r)
        \/ Mail(r)
        \/ Expire(r)

Spec == Init /\ [][Next]_vars

-----------------------------------------------------------------------------
(*                              properties                                 *)

Answers == {"added", "mailed", "limited", "patched", "removed", "redeemed",
            "notfound", "gone", "conflict", "failed"}

(* What a transaction can have written. *)
Txs == [user : BOOLEAN, lock : BOOLEAN, ins : SUBSET Roles, del : SUBSET Roles,
        closed : SUBSET Requests, opened : SUBSET Requests]

(* Every variable has its type. *)
TypeOK ==
    /\ user \in BOOLEAN
    /\ roles \subseteq Roles
    /\ inv \in [Requests -> {"none", "open", "redeemed", "superseded"}]
    /\ expired \subseteq Requests
    /\ mailed \subseteq Requests
    /\ pc \in [Requests -> {"new"} \cup InTransaction \cup Answers]
    /\ kind \in [Requests -> {"none", "add", "patch", "remove", "redeem"}]
    /\ arg \in [Requests -> Roles \cup Requests \cup {None}]
    /\ replica \in [Requests -> Replicas \cup {None}]
    /\ target \in [Requests -> SUBSET (Roles \cup Requests)]
    /\ tx \in [Requests -> Txs]

(* An invitee never has two open invitations to a tenant (10-core.sql      *)
(* 622-632: "máx 1 invitación pending por (tenant, email)").               *)
OneOpen == Cardinality(Open) <= 1

(* Superseding never leaves the invitee without a link: once invited,      *)
(* there is an invitation that is open in the table, be it an expired one, *)
(* or one that was accepted (266-289).                                     *)
InviteeKeepsALink ==
    (\E i \in Requests : inv[i] # "none") =>
        \E i \in Requests : inv[i] \in {"open", "redeemed"}

(* An invitation is closed once: a redemption is never taken for a         *)
(* replacement nor the other way round (266-278, 10-core.sql 709-726).     *)
ClosedOnce ==
    [][\A i \in Requests :
        inv[i] \in {"redeemed", "superseded"} => inv'[i] = inv[i]]_vars

(* Only invitations that were committed are mailed (P0-4: handlers 461-468,*)
(* 492).                                                                   *)
MailedAreCommitted == \A i \in mailed : inv[i] # "none"

(* A patch never leaves a member without a role: only a remove does        *)
(* (556-570, 597-622).                                                     *)
OnlyRemoveEmpties ==
    [][roles # {} /\ roles' = {} =>
        \E r \in Requests : pc[r] # "removed" /\ pc'[r] = "removed"]_vars

(* "serializar invites concurrentes" (249-264): no add fails because       *)
(* another one is in flight.                                               *)
AddsSerialized == \A r \in Requests : kind[r] = "add" => pc[r] # "conflict"

(* What the lock does achieve: an add fails that way only when another add *)
(* ran on another interpreter, whose salt gives it another key.            *)
SerializedByReplica ==
    \A r \in Requests : kind[r] = "add" /\ pc[r] = "conflict" =>
        \E s \in Requests : kind[s] = "add" /\ replica[s] # replica[r]

(* Requests each of which waits, or comes to wait, for another of them.    *)
Circle(S) == S # {} /\ \A r \in S : \E o \in S : WaitsFor(r, o)

(* Adds and redemptions never wait for each other in a circle (role rows,  *)
(* advisory lock, open invitation), nor with one change of the membership. *)
(* Two changes do: each has deleted a role and needs the other's.  Every   *)
(* circle is of that kind, and only Abort, Postgres' deadlock detector,    *)
(* gets out of it (373-391, 556-570, 597-606; invitations.py 261-289).     *)
OnlyDeletesCircle ==
    \A S \in SUBSET Requests : Circle(S) =>
        \E d, e \in S :
            /\ d # e
            /\ {kind[d], kind[e]} \subseteq {"patch", "remove"}
            /\ tx[d].del # {} /\ tx[e].del # {}
=============================================================================
