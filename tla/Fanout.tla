------------------------------- MODULE Fanout -------------------------------
(***************************************************************************)
(* The LISTEN/NOTIFY fanout behind the admin conversation stream           *)
(* (copiloto_core/admin/ws_fanout.py, used by admin/routes.py 1441-1490).  *)
(*                                                                         *)
(* One process runs many WebSocket handlers and at most one supervisor     *)
(* task that should own the only pool connection that LISTENs.  Everything *)
(* runs on one event loop: a handler or a task is interrupted only where   *)
(* it awaits, so an action below is the code between two awaits.  No body  *)
(* of `async with self._lock` awaits, so the lock never blocks anybody and *)
(* a critical section is part of the step it occurs in.                    *)
(*                                                                         *)
(* asyncpg is external: acquiring, LISTEN, UNLISTEN and release may fail,  *)
(* and a connection may be lost, as often as MaxSetupFaults, MaxLost and   *)
(* MaxCleanupFaults say.                                                   *)
(***************************************************************************)
EXTENDS Naturals, Sequences, FiniteSets

CONSTANTS
    Sockets,          \* WebSocket handlers; each is one call of the endpoint
    Tenants,
    TenantOf,         \* the tenant_id query parameter of each socket
    None,             \* Python None
    QueueMax,         \* QUEUE_MAX_SIZE
    MaxEvents,        \* bound: NOTIFYs per tenant
    MaxSetupFaults,   \* bound: failures of acquire, add_listener or LISTEN
    MaxLost,          \* bound: connections lost while the supervisor sleeps
    MaxCleanupFaults  \* bound: errors of UNLISTEN or of the release

ASSUME FanoutAssumption ==
    /\ IsFiniteSet(Sockets)
    /\ TenantOf \in [Sockets -> Tenants]
    /\ QueueMax \in Nat \ {0}
    /\ {MaxEvents, MaxSetupFaults, MaxLost, MaxCleanupFaults} \subseteq Nat
    /\ None \notin Nat

(* A subscribe() call spawns at most one supervisor per attempt and makes  *)
(* at most two attempts.  A supervisor is named by its spawn number, and   *)
(* so is the asyncio.Event created with it; 0 is the Event of __init__.    *)
TaskIds == 1 .. 2 * Cardinality(Sockets)
EventIds == {0} \cup TaskIds

VARIABLES
    subscribers,  \* self._subscribers: tenant -> set of queues (a queue is named by its socket)
    task,         \* self._task
    pool,         \* whether self._pool is not None
    ready,        \* self._ready: which Event object it is
    readySet,     \* whether that Event is set
    spawned,      \* number of supervisor tasks created
    sup,          \* supervisor -> where it is in _supervise
    outcome,      \* supervisor -> exception in flight while it releases its connection
    cancelling,   \* supervisors with a cancel() not yet delivered
    lost,         \* supervisors whose connection is gone
    inflight,     \* supervisor -> notifications sent by Postgres, not yet dispatched
    pc,           \* socket -> where its handler is
    mine,         \* socket -> local `task` of subscribe / unsubscribe
    waitsOn,      \* socket -> Event it waits on
    attempts,     \* socket -> local `attempts` of subscribe
    queue,        \* socket -> its asyncio.Queue
    pub,          \* tenant -> number of NOTIFYs committed
    joined,       \* socket -> pub of its tenant when subscribe() returned
    lastRead,     \* socket -> last event sent to the client
    faults        \* faults used: [setup, lost, cleanup]

state  == <<subscribers, task, pool, ready, readySet>>
supers == <<spawned, sup, outcome, cancelling, lost>>
socks  == <<mine, waitsOn, attempts>>
data   == <<pub, joined, lastRead>>
vars   == <<state, supers, inflight, pc, socks, queue, data, faults>>

Max2(a, b) == IF a > b THEN a ELSE b

-----------------------------------------------------------------------------
(*                             Initial state                               *)

Init ==
    /\ subscribers = [t \in {} |-> {}]
    /\ task = None
    /\ pool = FALSE
    /\ ready = 0
    /\ readySet = FALSE
    /\ spawned = 0
    /\ sup = [t \in TaskIds |-> "none"]
    /\ outcome = [t \in TaskIds |-> "none"]
    /\ cancelling = {}
    /\ lost = {}
    /\ inflight = [t \in TaskIds |-> <<>>]
    /\ pc = [s \in Sockets |-> "connecting"]
    /\ mine = [s \in Sockets |-> None]
    /\ waitsOn = [s \in Sockets |-> 0]
    /\ attempts = [s \in Sockets |-> 0]
    /\ queue = [s \in Sockets |-> <<>>]
    /\ pub = [t \in Tenants |-> 0]
    /\ joined = [s \in Sockets |-> 0]
    /\ lastRead = [s \in Sockets |-> 0]
    /\ faults = [setup |-> 0, lost |-> 0, cleanup |-> 0]

-----------------------------------------------------------------------------
(*                           State of the helpers                          *)

Done(t) == sup[t] \in {"crashed", "cancelled"}

(* The callback is registered with a live connection: what Postgres sends  *)
(* reaches _dispatch.                                                      *)
Listening(t) == sup[t] \in {"registered", "sleeping"} /\ t \notin lost

(* The supervisor is inside `async with self._pool.acquire()`.             *)
HoldsConnection(t) ==
    sup[t] \in {"adding", "registered", "sleeping", "cleanup", "releasing"}

(* setdefault(tenant, set()).add(queue) *)
Register(s) ==
    LET tn == TenantOf[s]
        old == IF tn \in DOMAIN subscribers THEN subscribers[tn] ELSE {}
    IN [t \in DOMAIN subscribers \cup {tn} |->
            IF t = tn THEN old \cup {s} ELSE subscribers[t]]

(* tenant_subs.discard(queue), and the pop of an emptied set *)
Detach(s) ==
    LET tn == TenantOf[s]
        left == [t \in DOMAIN subscribers |-> subscribers[t] \ {s}]
    IN [t \in {u \in DOMAIN left : ~(u = tn /\ left[u] = {})} |-> left[t]]

(* self._ready.set() resolves the futures of the handlers that wait on it. *)
SetReady ==
    /\ readySet' = TRUE
    /\ pc' = [s \in Sockets |->
                IF pc[s] = "waiting" /\ waitsOn[s] = ready THEN "woken" ELSE pc[s]]

-----------------------------------------------------------------------------
(*                               subscribe                                 *)

Spawn ==
    /\ pool' = TRUE
    /\ ready' = spawned + 1
    /\ readySet' = FALSE
    /\ task' = spawned + 1
    /\ spawned' = spawned + 1
    /\ sup' = [sup EXCEPT ![spawned + 1] = "created"]

(* The critical section of one attempt.  Event.wait() does not suspend     *)
(* when the Event is already set, so the call then returns in this step;   *)
(* self._task is never a finished task (CurrentTaskAlive).                 *)
Attempt(s, n) ==
    /\ subscribers' = Register(s)
    /\ attempts' = [attempts EXCEPT ![s] = n]
    /\ IF task = None
         THEN Spawn
         ELSE UNCHANGED <<pool, ready, readySet, task, spawned, sup>>
    /\ mine' = [mine EXCEPT ![s] = task']
    /\ waitsOn' = [waitsOn EXCEPT ![s] = ready']
    /\ pc' = [pc EXCEPT ![s] = IF readySet' THEN "streaming" ELSE "waiting"]
    /\ joined' = [joined EXCEPT ![s] = pub[TenantOf[s]]]
    /\ UNCHANGED <<outcome, cancelling, lost, inflight, queue, pub, lastRead, faults>>

Subscribe(s) ==
    /\ pc[s] = "connecting"
    /\ Attempt(s, 1)

(* The Event fired and the supervisor is alive: subscribe() returns.       *)
Return(s) ==
    /\ pc[s] = "woken"
    /\ ~Done(mine[s])
    /\ pc' = [pc EXCEPT ![s] = "streaming"]
    /\ joined' = [joined EXCEPT ![s] = pub[TenantOf[s]]]
    /\ UNCHANGED <<state, supers, inflight, socks, queue, pub, lastRead, faults>>

(* False-ready on the first attempt: loop once more. *)
Retry(s) ==
    /\ pc[s] = "woken"
    /\ Done(mine[s])
    /\ attempts[s] < 2
    /\ Attempt(s, attempts[s] + 1)

(* False-ready on the second: discard the queue, raise, close with 1011.   *)
(* The tenant's set stays in the dictionary, maybe empty.                  *)
Bail(s) ==
    /\ pc[s] = "woken"
    /\ Done(mine[s])
    /\ attempts[s] >= 2
    /\ subscribers' = [subscribers EXCEPT ![TenantOf[s]] = @ \ {s}]
    /\ pc' = [pc EXCEPT ![s] = "closed"]
    /\ UNCHANGED <<task, pool, ready, readySet, supers, inflight, socks, queue, data, faults>>

-----------------------------------------------------------------------------
(*                       streaming and unsubscribe                         *)

(* queue.get() and send_text *)
Read(s) ==
    /\ pc[s] = "streaming"
    /\ queue[s] # <<>>
    /\ lastRead' = [lastRead EXCEPT ![s] = Head(queue[s])]
    /\ queue' = [queue EXCEPT ![s] = Tail(@)]
    /\ UNCHANGED <<state, supers, inflight, pc, socks, pub, joined, faults>>

(* The client is gone: the finally of the endpoint calls unsubscribe, and  *)
(* the last one out cancels the supervisor and waits for it.               *)
Unsubscribe(s) ==
    /\ pc[s] = "streaming"
    /\ subscribers' = Detach(s)
    /\ IF DOMAIN subscribers' = {} /\ task # None
         THEN /\ mine' = [mine EXCEPT ![s] = task]
              /\ task' = None
              /\ pool' = FALSE
              /\ readySet' = FALSE
              /\ cancelling' = cancelling \cup {task}
              /\ pc' = [pc EXCEPT ![s] = "draining"]
         ELSE /\ pc' = [pc EXCEPT ![s] = "closed"]
              /\ UNCHANGED <<mine, task, pool, readySet, cancelling>>
    /\ UNCHANGED <<ready, spawned, sup, outcome, lost, inflight, waitsOn, attempts,
                   queue, data, faults>>

(* `await task` ends, whatever the task ended with. *)
Drained(s) ==
    /\ pc[s] = "draining"
    /\ Done(mine[s])
    /\ pc' = [pc EXCEPT ![s] = "closed"]
    /\ UNCHANGED <<state, supers, inflight, socks, queue, data, faults>>

-----------------------------------------------------------------------------
(*                              the supervisor                             *)

(* Mutants: the dead task stays in self._task; the waiters are not woken. *)
CrashKeepsTask(t) ==
    /\ SetReady
    /\ sup' = [sup EXCEPT ![t] = "crashed"]
    /\ UNCHANGED <<task, pool>>

CrashWithoutWake(t) ==
    /\ task' = None
    /\ pool' = FALSE
    /\ sup' = [sup EXCEPT ![t] = "crashed"]
    /\ UNCHANGED <<readySet, pc>>

(* except Exception: reset the instance BEFORE re-raising.  It resets the  *)
(* attributes whatever supervisor they belong to by now.                   *)
Crash(t) ==
    /\ task' = None
    /\ pool' = FALSE
    /\ SetReady
    /\ sup' = [sup EXCEPT ![t] = "crashed"]

(* The task's first step: the assert on self._pool, then acquire().  The   *)
(* loop is first in, first out: a cancel() requested before is delivered   *)
(* before.                                                                 *)
Start(t) ==
    /\ sup[t] = "created"
    /\ cancelling = {}
    /\ IF pool
         THEN sup' = [sup EXCEPT ![t] = "acquiring"] /\ UNCHANGED <<task, pool, readySet, pc>>
         ELSE Crash(t)
    /\ UNCHANGED <<subscribers, ready, spawned, outcome, cancelling, lost, inflight, socks,
                   queue, data, faults>>

(* Mutant: _ready is set before the LISTEN. *)
AcquireSetsReady(t) ==
    /\ sup[t] = "acquiring"
    /\ t \notin cancelling
    /\ sup' = [sup EXCEPT ![t] = "adding"]
    /\ SetReady
    /\ UNCHANGED <<subscribers, task, pool, ready, spawned, outcome, cancelling, lost,
                   inflight, socks, queue, data, faults>>

Acquire(t) ==
    /\ sup[t] = "acquiring"
    /\ t \notin cancelling
    /\ sup' = [sup EXCEPT ![t] = "adding"]
    /\ UNCHANGED <<state, spawned, outcome, cancelling, lost, inflight, pc, socks, queue,
                   data, faults>>

(* add_listener: from here on notifications arrive.  A cancel() already    *)
(* requested is delivered before any reply of the server is processed      *)
(* (the loop runs what is ready before it polls), hence the guard.         *)
AddListener(t) ==
    /\ sup[t] = "adding"
    /\ cancelling = {}
    /\ sup' = [sup EXCEPT ![t] = "registered"]
    /\ UNCHANGED <<state, spawned, outcome, cancelling, lost, inflight, pc, socks, queue,
                   data, faults>>

(* The redundant LISTEN returns: self._ready.set(), whichever Event that   *)
(* attribute holds now; then sleep for ever.                               *)
Listen(t) ==
    /\ sup[t] = "registered"
    /\ cancelling = {}
    /\ sup' = [sup EXCEPT ![t] = "sleeping"]
    /\ SetReady
    /\ UNCHANGED <<subscribers, task, pool, ready, spawned, outcome, cancelling, lost,
                   inflight, socks, queue, data, faults>>

(* acquire() raises: no connection to give back. *)
AcquireFails(t) ==
    /\ sup[t] = "acquiring"
    /\ t \notin cancelling
    /\ faults.setup < MaxSetupFaults
    /\ faults' = [faults EXCEPT !.setup = @ + 1]
    /\ Crash(t)
    /\ UNCHANGED <<subscribers, ready, spawned, outcome, cancelling, lost, inflight, socks,
                   queue, data>>

(* add_listener or LISTEN raises: the connection is released first. *)
SetupFails(t) ==
    /\ sup[t] \in {"adding", "registered"}
    /\ t \notin cancelling
    /\ faults.setup < MaxSetupFaults
    /\ faults' = [faults EXCEPT !.setup = @ + 1]
    /\ sup' = [sup EXCEPT ![t] = "releasing"]
    /\ outcome' = [outcome EXCEPT ![t] = "error"]
    /\ inflight' = [inflight EXCEPT ![t] = <<>>]
    /\ UNCHANGED <<state, spawned, cancelling, lost, pc, socks, queue, data>>

(* The server or the network drops the connection; a sleeping supervisor   *)
(* does not look at it.                                                    *)
ConnectionLost(t) ==
    /\ sup[t] = "sleeping"
    /\ t \notin lost
    /\ faults.lost < MaxLost
    /\ faults' = [faults EXCEPT !.lost = @ + 1]
    /\ lost' = lost \cup {t}
    /\ inflight' = [inflight EXCEPT ![t] = <<>>]
    /\ UNCHANGED <<state, spawned, sup, outcome, cancelling, pc, socks, queue, data>>

(* Mutant: the supervisor swallows the CancelledError and sleeps on. *)
CancelSwallowed(t) ==
    /\ t \in cancelling
    /\ cancelling' = cancelling \ {t}
    /\ UNCHANGED <<state, spawned, sup, outcome, lost, inflight, pc, socks, queue, data, faults>>

(* CancelledError is thrown at the await the supervisor is suspended at.   *)
(* remove_listener takes the callback out before it awaits.                *)
CancelDelivered(t) ==
    /\ t \in cancelling
    /\ cancelling' = cancelling \ {t}
    /\ \/ /\ sup[t] \in {"created", "acquiring", "releasing"}
          /\ sup' = [sup EXCEPT ![t] = "cancelled"]
          /\ UNCHANGED outcome
       \/ /\ sup[t] \in {"adding", "registered"}
          /\ sup' = [sup EXCEPT ![t] = "releasing"]
          /\ outcome' = [outcome EXCEPT ![t] = "cancel"]
       \/ /\ sup[t] = "sleeping"
          /\ sup' = [sup EXCEPT ![t] = "cleanup"]
          /\ UNCHANGED outcome
    /\ inflight' = [inflight EXCEPT ![t] = <<>>]
    /\ UNCHANGED <<state, spawned, lost, pc, socks, queue, data, faults>>

(* The finally around the sleep.  UNLISTEN on a live connection works, or  *)
(* fails with a PostgresError that is caught and logged: either way the    *)
(* CancelledError goes on.  On a connection asyncpg knows to be closed it  *)
(* raises InterfaceError, which is neither a PostgresError nor an OSError  *)
(* and so replaces the CancelledError.                                     *)
Cleanup(t) ==
    /\ sup[t] = "cleanup"
    /\ sup' = [sup EXCEPT ![t] = "releasing"]
    /\ outcome' = [outcome EXCEPT ![t] = IF t \in lost THEN "error" ELSE "cancel"]
    /\ UNCHANGED <<state, spawned, cancelling, lost, inflight, pc, socks, queue, data, faults>>

(* The connection's release (its session reset) fails: asyncpg re-raises.  *)
ReleaseFails(t) ==
    /\ sup[t] = "releasing"
    /\ t \notin cancelling
    /\ t \notin lost
    /\ faults.cleanup < MaxCleanupFaults
    /\ faults' = [faults EXCEPT !.cleanup = @ + 1]
    /\ Crash(t)
    /\ UNCHANGED <<subscribers, ready, spawned, outcome, cancelling, lost, inflight, socks,
                   queue, data>>

(* Released; the exception in flight reaches the outer except clauses. *)
Released(t) ==
    /\ sup[t] = "releasing"
    /\ t \notin cancelling
    /\ IF outcome[t] = "error"
         THEN Crash(t)
         ELSE /\ sup' = [sup EXCEPT ![t] = "cancelled"]
              /\ UNCHANGED <<task, pool, readySet, pc>>
    /\ UNCHANGED <<subscribers, ready, spawned, outcome, cancelling, lost, inflight, socks,
                   queue, data, faults>>

-----------------------------------------------------------------------------
(*                              notifications                              *)

(* A transaction commits its NOTIFY: Postgres queues it for every session  *)
(* that LISTENs.  An event is its number among those of its tenant.        *)
Notify(tn) ==
    /\ pub[tn] < MaxEvents
    /\ pub' = [pub EXCEPT ![tn] = @ + 1]
    /\ inflight' = [t \in TaskIds |->
            IF Listening(t) THEN Append(inflight[t], [tenant |-> tn, n |-> pub'[tn]])
                            ELSE inflight[t]]
    /\ UNCHANGED <<state, supers, pc, socks, queue, joined, lastRead, faults>>

(* Mutants: never drop; drop the newest; drop one too early. *)
PutUnbounded(q, e) == Append(q, e)
PutDropsNewest(q, e) == IF Len(q) < QueueMax THEN Append(q, e) ELSE q
PutDropsEarly(q, e) == Append(IF Len(q) < QueueMax - 1 THEN q ELSE Tail(q), e)

(* put_nowait, dropping the oldest entry of a full queue. *)
Put(q, e) == Append(IF Len(q) < QueueMax THEN q ELSE Tail(q), e)

(* The synchronous callback of one session. *)
Dispatch(t) ==
    /\ inflight[t] # <<>>
    /\ LET event == Head(inflight[t])
           subs == IF event.tenant \in DOMAIN subscribers THEN subscribers[event.tenant] ELSE {}
       IN queue' = [s \in Sockets |-> IF s \in subs THEN Put(queue[s], event.n) ELSE queue[s]]
    /\ inflight' = [inflight EXCEPT ![t] = Tail(@)]
    /\ UNCHANGED <<state, supers, pc, socks, data, faults>>

-----------------------------------------------------------------------------
(*                              specification                              *)

SocketStep(s) ==
    Subscribe(s) \/ Return(s) \/ Retry(s) \/ Bail(s) \/ Read(s) \/ Unsubscribe(s) \/ Drained(s)

SupervisorStep(t) ==
    \/ Start(t) \/ Acquire(t) \/ AddListener(t) \/ Listen(t)
    \/ CancelDelivered(t) \/ Cleanup(t) \/ Released(t)

Fault(t) == AcquireFails(t) \/ SetupFails(t) \/ ConnectionLost(t) \/ ReleaseFails(t)

Next ==
    \/ \E s \in Sockets : SocketStep(s)
    \/ \E t \in TaskIds : SupervisorStep(t) \/ Fault(t) \/ Dispatch(t)
    \/ \E tn \in Tenants : Notify(tn)

Spec == Init /\ [][Next]_vars

(* The loop runs every task that can run, and the database answers.  No    *)
(* client has to connect, read or leave, and nothing has to be notified.   *)
Fairness ==
    /\ \A s \in Sockets : WF_vars(Return(s) \/ Retry(s) \/ Bail(s) \/ Drained(s))
    /\ \A t \in TaskIds : WF_vars(SupervisorStep(t)) /\ WF_vars(Dispatch(t))

FairSpec == Spec /\ Fairness

-----------------------------------------------------------------------------
(*                               properties                                *)

SupStates == {"none", "created", "acquiring", "adding", "registered", "sleeping",
              "cleanup", "releasing", "crashed", "cancelled"}

Events == [tenant : Tenants, n : 1 .. MaxEvents]

(* Every variable has its type (the state of _PubSubFanout.__init__). *)
TypeOK ==
    /\ DOMAIN subscribers \subseteq Tenants
    /\ subscribers \in [DOMAIN subscribers -> SUBSET Sockets]
    /\ task \in TaskIds \cup {None}
    /\ pool \in BOOLEAN
    /\ ready \in EventIds
    /\ readySet \in BOOLEAN
    /\ spawned \in EventIds
    /\ sup \in [TaskIds -> SupStates]
    /\ outcome \in [TaskIds -> {"none", "cancel", "error"}]
    /\ cancelling \subseteq TaskIds
    /\ lost \subseteq TaskIds
    /\ inflight \in [TaskIds -> Seq(Events)]
    /\ pc \in [Sockets -> {"connecting", "waiting", "woken", "streaming", "draining", "closed"}]
    /\ mine \in [Sockets -> TaskIds \cup {None}]
    /\ waitsOn \in [Sockets -> EventIds]
    /\ attempts \in [Sockets -> 0 .. 2]
    /\ queue \in [Sockets -> Seq(1 .. MaxEvents)]
    /\ \A s \in Sockets : Len(queue[s]) <= QueueMax
    /\ pub \in [Tenants -> 0 .. MaxEvents]
    /\ joined \in [Sockets -> 0 .. MaxEvents]
    /\ lastRead \in [Sockets -> 0 .. MaxEvents]
    /\ faults \in [setup : Nat, lost : Nat, cleanup : Nat]

(* A subscriber that finds self._task set finds a live task: the dead-task *)
(* trap of AUDIT-49 (ws_fanout.py 120-127, 147-158) never comes back.      *)
CurrentTaskAlive == task # None => sup[task] # "none" /\ ~Done(task)

(* One LISTEN session at a time feeds _dispatch, so that no notification   *)
(* is fanned out twice (12-14), whatever fails during setup.  It needs the *)
(* cleanup of a cancelled supervisor not to fail: its crash handler (156)  *)
(* would forget the newer task that self._task names.                      *)
OneListener ==
    faults.lost = 0 /\ faults.cleanup = 0 =>
        \A t, u \in TaskIds : Listening(t) /\ Listening(u) => t = u

(* A socket's queue holds consecutive events, newer than those it sent:    *)
(* nothing notified since subscribe() returned is repeated, reordered or   *)
(* lost from the middle (_dispatch, drop the oldest, push the newest,      *)
(* 95-106).  A retry keeps the queue, so an older gap may remain in it.    *)
InOrderOnce ==
    \A s \in Sockets : pc[s] = "streaming" =>
        /\ \A i \in 1 .. Len(queue[s]) - 1 :
              /\ queue[s][i] < queue[s][i + 1]
              /\ queue[s][i + 1] <= Max2(queue[s][i], joined[s]) + 1
        /\ queue[s] # <<>> => Head(queue[s]) > lastRead[s]

LastSeen(s) == IF queue[s] = <<>> THEN lastRead[s] ELSE queue[s][Len(queue[s])]

(* What was notified to its tenant after subscribe() returned is in the    *)
(* socket's queue, was sent, or is on its way (196-197: "otherwise the     *)
(* caller could miss notifications fired right after subscribe()").        *)
NothingMissed ==
    \A s \in Sockets : pc[s] = "streaming" =>
        LET latest == pub[TenantOf[s]]
        IN latest > joined[s] =>
            \/ LastSeen(s) = latest
            \/ \E t \in TaskIds : \E i \in DOMAIN inflight[t] :
                    inflight[t][i] = [tenant |-> TenantOf[s], n |-> latest]

(* A client sees a gap only because its queue was full (22-24). *)
GapOnlyWhenFull ==
    \A s \in Sockets :
        pc[s] = "streaming" /\ queue[s] # <<>>
            /\ Head(queue[s]) > Max2(lastRead[s], joined[s]) + 1
        => Len(queue[s]) = QueueMax

(* subscribe() always ends: a handler never hangs on an Event that a dead  *)
(* or replaced supervisor owed it (120-127, 178-182).                      *)
SubscribeReturns ==
    \A s \in Sockets : pc[s] = "waiting" ~> pc[s] \in {"streaming", "closed"}

Idle == \A s \in Sockets : pc[s] \in {"connecting", "closed"}

(* The connection is closed when the last subscriber disconnects (17-18).  *)
ClosedWhenLast ==
    Idle ~> (~Idle \/ \A t \in TaskIds : ~HoldsConnection(t))

=============================================================================
