---------------------------- MODULE FanoutProofs ----------------------------
(***************************************************************************)
(* Proofs about the LISTEN/NOTIFY fanout of Fanout, for any number of      *)
(* sockets, tenants, events and faults and any size of the queues.         *)
(*                                                                         *)
(* Three layers, each resting on the one before: the life of the           *)
(* supervisors, which no fault disturbs; who listens, as long as no        *)
(* connection is lost and no release fails; what is in flight and in the   *)
(* queues then.                                                            *)
(***************************************************************************)
EXTENDS Fanout, FiniteSetTheorems, SequenceTheorems, TLAPS

(* An attempt of a socket spawns at most one supervisor. *)
Tried == {p \in Sockets \X {1, 2} : p[2] <= attempts[p[1]]}

(* There are no more supervisors than attempts.                            *)
AttemptInv ==
    /\ spawned <= Cardinality(Tried)
    /\ \A s \in Sockets : pc[s] = "connecting" => attempts[s] = 0

(* A supervisor that is cancelled or ends is not the current one; the      *)
(* current one is alive and owns the pool and the Event.                   *)
SupervisorInv ==
    /\ \A t \in TaskIds : sup[t] = "none" <=> t > spawned
    /\ \A t \in TaskIds : sup[t] = "none" =>
          outcome[t] = "none" /\ t \notin cancelling \cup lost /\ inflight[t] = <<>>
    /\ \A t \in TaskIds : sup[t] = "releasing" => outcome[t] # "none"
    /\ \A t \in TaskIds : t \in cancelling \/ sup[t] = "cleanup" \/ outcome[t] = "cancel" =>
          t # task
    /\ CurrentTaskAlive
    /\ pool <=> task # None
    /\ task # None => ready = task

(* What bounds the supervisors ever made and tells where they are. *)
LifeInv == AttemptInv /\ SupervisorInv

(* A socket is in the set of its tenant from subscribe to its end, and     *)
(* waits for the Event of the supervisor it found or spawned.              *)
SocketInv ==
    /\ \A s \in Sockets : pc[s] \in {"waiting", "woken", "streaming"} =>
          TenantOf[s] \in DOMAIN subscribers /\ s \in subscribers[TenantOf[s]]
    /\ \A tn \in DOMAIN subscribers : \A s \in subscribers[tn] : TenantOf[s] = tn
    /\ \A s \in Sockets : pc[s] \in {"waiting", "woken"} =>
          mine[s] \in TaskIds /\ mine[s] = waitsOn[s]

(* No connection was lost and every connection was given back.             *)
Unbroken == faults.lost = 0 /\ faults.cleanup = 0

(* A supervisor that neither ended nor is on its way out. *)
Working == {"created", "acquiring", "adding", "registered", "sleeping"}

(* Then a supervisor at work is the current one or is being cancelled, so  *)
(* that one listens; and a socket streams only while the current one does. *)
OwnedInv ==
    /\ lost = {}
    /\ \A t \in TaskIds : sup[t] \in Working \/ (sup[t] = "releasing" /\ outcome[t] = "error") =>
          t = task \/ t \in cancelling
    /\ \A t, u \in TaskIds : Listening(t) /\ Listening(u) => t = u
    /\ task # None /\ readySet => sup[task] = "sleeping"
    /\ \A s \in Sockets : pc[s] = "woken" =>
          Done(mine[s]) \/ (mine[s] = task /\ sup[mine[s]] = "sleeping")
    /\ \A s \in Sockets : pc[s] = "streaming" => task # None /\ sup[task] = "sleeping"

(* What is in flight is newer than what was delivered, and in order.       *)
FlightInv ==
    /\ \A t \in TaskIds : inflight[t] # <<>> => Listening(t)
    /\ \A t \in TaskIds : \A i \in 1 .. Len(inflight[t]) :
          /\ inflight[t][i].n <= pub[inflight[t][i].tenant]
          /\ \A j \in i + 1 .. Len(inflight[t]) :
                inflight[t][i].tenant = inflight[t][j].tenant =>
                    inflight[t][i].n < inflight[t][j].n
          /\ \A s \in Sockets : TenantOf[s] = inflight[t][i].tenant =>
                /\ lastRead[s] < inflight[t][i].n
                /\ \A k \in 1 .. Len(queue[s]) : queue[s][k] < inflight[t][i].n

(* A queue is in order and newer than what was sent.                       *)
Ordered(s) ==
    /\ joined[s] <= pub[TenantOf[s]] /\ lastRead[s] <= pub[TenantOf[s]]
    /\ \A k \in 1 .. Len(queue[s]) :
          lastRead[s] < queue[s][k] /\ queue[s][k] <= pub[TenantOf[s]]
    /\ \A k \in 1 .. Len(queue[s]) : \A j \in k + 1 .. Len(queue[s]) : queue[s][k] < queue[s][j]

(* The event m of tenant tn has not reached dispatch yet. *)
OnTheWay(tn, m) ==
    \E t \in TaskIds : \E i \in 1 .. Len(inflight[t]) :
        inflight[t][i] = [tenant |-> tn, n |-> m]

(* A queue misses nothing that was notified since subscribe() returned,    *)
(* except at its head when it was full.                                    *)
Complete(s) ==
    /\ \A k \in 1 .. Len(queue[s]) - 1 : queue[s][k + 1] <= Max2(queue[s][k], joined[s]) + 1
    /\ queue[s] # <<>> /\ queue[s][1] > Max2(lastRead[s], joined[s]) + 1 =>
          Len(queue[s]) = QueueMax
    /\ \A m \in joined[s] + 1 .. pub[TenantOf[s]] :
          m <= LastSeen(s) \/ OnTheWay(TenantOf[s], m)

(* Every queue is in order, and complete while its socket reads it. *)
QueueInv == \A s \in Sockets : Ordered(s) /\ (pc[s] = "streaming" => Complete(s))

(* The inductive invariant; what follows the events needs that no          *)
(* connection was lost.                                                    *)
FanoutInv == LifeInv /\ SocketInv /\ (Unbroken => OwnedInv /\ FlightInv /\ QueueInv)

-----------------------------------------------------------------------------
(* A socket tries at most twice.                                           *)
LEMMA TwoTries == IsFiniteSet({1, 2}) /\ Cardinality({1, 2}) = 2
<1>1. IsFiniteSet({1}) /\ Cardinality({1}) = 1
  BY FS_Singleton
<1>2. {1, 2} = {1} \cup {2} /\ 2 \notin {1}
  OBVIOUS
<1>3. IsFiniteSet({1, 2}) /\ Cardinality({1, 2}) = 2
  <2>1. /\ IsFiniteSet({1} \cup {2})
        /\ Cardinality({1} \cup {2}) = IF 2 \in {1} THEN Cardinality({1}) ELSE Cardinality({1}) + 1
    BY <1>1, FS_AddElement
  <2>. QED
    BY <1>1, <1>2, <2>1
<1>. QED
  BY <1>3

(* There is a number left for the supervisor an attempt may spawn, and the *)
(* attempt is one more that was tried.                                     *)
LEMMA RoomToSpawn ==
    ASSUME TypeOK, LifeInv, NEW s \in Sockets, NEW n \in {1, 2}, attempts[s] < n,
           attempts' = [attempts EXCEPT ![s] = n]
    PROVE  /\ spawned + 1 \in TaskIds
           /\ spawned + 1 <= Cardinality(Tried')
<1>. DEFINE All == Sockets \X {1, 2}
            More == Tried \cup {<<s, n>>}
<1>1. IsFiniteSet(Sockets) /\ Cardinality(Sockets) \in Nat
  BY FanoutAssumption, FS_CardinalityType
<1>2. IsFiniteSet({1, 2}) /\ Cardinality({1, 2}) = 2
  BY TwoTries
<1>3. IsFiniteSet(All) /\ Cardinality(All) = Cardinality(Sockets) * 2
  BY <1>1, <1>2, FS_Product
<1>a. attempts \in [Sockets -> 0 .. 2]
  BY DEF TypeOK
<1>b. <<s, n>> \in All /\ <<s, n>> \notin Tried
  BY <1>a DEF Tried
<1>4. Tried \subseteq All /\ More \subseteq All /\ <<s, n>> \notin Tried
  BY <1>b DEF Tried
<1>5. IsFiniteSet(Tried) /\ Cardinality(Tried) \in Nat
  BY <1>3, <1>4, FS_Subset, FS_CardinalityType
<1>6. IsFiniteSet(More) /\ Cardinality(More) = Cardinality(Tried) + 1
  BY <1>4, <1>5, FS_AddElement
<1>7. Cardinality(More) <= 2 * Cardinality(Sockets)
  BY <1>1, <1>3, <1>4, <1>6, FS_Subset
<1>8. More \subseteq Tried' /\ Tried' \subseteq All
  <2>1. \A u \in Sockets : attempts[u] <= attempts'[u]
    BY <1>a
  <2>2. <<s, n>> \in Tried'
    BY <1>a DEF Tried
  <2>3. ASSUME NEW p \in Tried
        PROVE  p \in Tried'
    <3>1. p \in All /\ p[1] \in Sockets /\ p[2] \in {1, 2} /\ p[2] <= attempts[p[1]]
      BY DEF Tried
    <3>2. attempts[p[1]] \in 0 .. 2 /\ attempts'[p[1]] \in Int /\ attempts[p[1]] <= attempts'[p[1]]
      BY <1>a, <2>1, <3>1
    <3>3. p[2] <= attempts'[p[1]]
      BY <3>1, <3>2
    <3>. QED
      BY <3>1, <3>3 DEF Tried
  <2>4. Tried' \subseteq All
    BY DEF Tried
  <2>. QED
    BY <2>2, <2>3, <2>4
<1>9. Cardinality(More) <= Cardinality(Tried')
  <2>1. IsFiniteSet(Tried')
    BY <1>3, <1>8, FS_Subset
  <2>. QED
    BY <1>8, <2>1, FS_Subset
<1>10. spawned \in Nat /\ spawned <= Cardinality(Tried)
  BY <1>1 DEF LifeInv, AttemptInv, TypeOK, EventIds, TaskIds
<1>11. Cardinality(Tried') \in Nat
  BY <1>3, <1>8, FS_Subset, FS_CardinalityType
<1>. QED
  BY <1>1, <1>5, <1>6, <1>7, <1>9, <1>10, <1>11 DEF TaskIds

(* A call of subscribe runs its critical section as a first or a second    *)
(* attempt.                                                                *)
LEMMA AnAttempt ==
    ASSUME TypeOK, LifeInv, NEW s \in Sockets, Subscribe(s) \/ Retry(s)
    PROVE  \E n \in {1, 2} : attempts[s] < n /\ Attempt(s, n)
<1>1. CASE Subscribe(s)
  <2>1. attempts[s] = 0 /\ Attempt(s, 1)
    BY <1>1 DEF Subscribe, LifeInv, AttemptInv
  <2>. DEFINE n == 1
  <2>2. n \in {1, 2} /\ attempts[s] < n /\ Attempt(s, n)
    BY <2>1
  <2>. HIDE DEF n
  <2>. QED
    BY <2>2
<1>2. CASE Retry(s)
  <2>1. attempts[s] < 2 /\ Attempt(s, attempts[s] + 1) /\ attempts[s] \in 0 .. 2
    BY <1>2 DEF Retry, TypeOK
  <2>. DEFINE n == attempts[s] + 1
  <2>2. n \in {1, 2} /\ attempts[s] < n /\ Attempt(s, n)
    BY <2>1
  <2>. HIDE DEF n
  <2>. QED
    BY <2>2
<1>. QED
  BY <1>1, <1>2

(* put_nowait keeps the type and the bound of a queue.                     *)
LEMMA PutType ==
    ASSUME NEW q \in Seq(1 .. MaxEvents), Len(q) <= QueueMax, NEW e \in 1 .. MaxEvents
    PROVE  Put(q, e) \in Seq(1 .. MaxEvents) /\ Len(Put(q, e)) <= QueueMax
<1>1. QueueMax \in Nat /\ QueueMax > 0
  BY FanoutAssumption
<1>2. CASE Len(q) < QueueMax
  BY <1>1, <1>2 DEF Put
<1>3. CASE ~(Len(q) < QueueMax)
  BY <1>1, <1>3 DEF Put
<1>. QED
  BY <1>2, <1>3

(* What a failing supervisor resets.                                       *)
LEMMA CrashType ==
    ASSUME TypeOK, NEW t \in TaskIds, Crash(t)
    PROVE  /\ task' \in TaskIds \cup {None}
           /\ pool' \in BOOLEAN
           /\ readySet' \in BOOLEAN
           /\ sup' \in [TaskIds -> SupStates]
           /\ pc' \in [Sockets -> {"connecting", "waiting", "woken", "streaming", "draining", "closed"}]
BY DEF TypeOK, Crash, SetReady, SupStates

(* A fault is counted; a supervisor that stops listening has nothing more  *)
(* in flight.                                                              *)
LEMMA FaultType ==
    ASSUME TypeOK
    PROVE  /\ [faults EXCEPT !.setup = @ + 1] \in [setup : Nat, lost : Nat, cleanup : Nat]
           /\ [faults EXCEPT !.lost = @ + 1] \in [setup : Nat, lost : Nat, cleanup : Nat]
           /\ [faults EXCEPT !.cleanup = @ + 1] \in [setup : Nat, lost : Nat, cleanup : Nat]
<1>1. faults \in [setup : Nat, lost : Nat, cleanup : Nat]
  BY DEF TypeOK
<1>. QED
  BY <1>1

(* A closed connection has nothing in flight. *)
LEMMA NothingInFlight ==
    ASSUME TypeOK, NEW t \in TaskIds
    PROVE  [inflight EXCEPT ![t] = <<>>] \in [TaskIds -> Seq(Events)]
<1>1. inflight \in [TaskIds -> Seq(Events)] /\ <<>> \in Seq(Events)
  BY DEF TypeOK
<1>. QED
  BY <1>1

(* One attempt of subscribe keeps the types.                               *)
LEMMA AttemptType ==
    ASSUME TypeOK, LifeInv, NEW s \in Sockets, NEW n \in {1, 2}, attempts[s] < n, Attempt(s, n)
    PROVE  TypeOK'
<1>1. spawned + 1 \in TaskIds
  BY RoomToSpawn DEF Attempt
<1>2. TenantOf[s] \in Tenants
  BY FanoutAssumption
<1>3. DOMAIN subscribers' \subseteq Tenants /\ subscribers' \in [DOMAIN subscribers' -> SUBSET Sockets]
  BY <1>2 DEF TypeOK, Attempt, Register
<1>4. /\ task' \in TaskIds \cup {None} /\ pool' \in BOOLEAN /\ ready' \in EventIds
      /\ readySet' \in BOOLEAN /\ spawned' \in EventIds /\ sup' \in [TaskIds -> SupStates]
  BY <1>1 DEF TypeOK, Attempt, Spawn, EventIds, SupStates
<1>5. /\ attempts' \in [Sockets -> 0 .. 2]
      /\ mine' \in [Sockets -> TaskIds \cup {None}]
      /\ waitsOn' \in [Sockets -> EventIds]
      /\ pc' \in [Sockets -> {"connecting", "waiting", "woken", "streaming", "draining", "closed"}]
      /\ joined' \in [Sockets -> 0 .. MaxEvents]
  BY <1>2, <1>4 DEF TypeOK, Attempt
<1>. QED
  BY <1>3, <1>4, <1>5 DEF TypeOK, Attempt

(* The two ways a socket leaves: the last one cancels the supervisor.      *)
LastLeaves(s) ==
    /\ DOMAIN subscribers' = {}
    /\ task # None
    /\ mine' = [mine EXCEPT ![s] = task]
    /\ task' = None
    /\ pool' = FALSE
    /\ readySet' = FALSE
    /\ cancelling' = cancelling \cup {task}
    /\ pc' = [pc EXCEPT ![s] = "draining"]

(* Any other socket only goes. *)
Leaves(s) ==
    /\ DOMAIN subscribers' # {} \/ task = None
    /\ pc' = [pc EXCEPT ![s] = "closed"]
    /\ UNCHANGED <<mine, task, pool, readySet, cancelling>>

(* Unsubscribing is one of the two. *)
LEMMA Leaving ==
    ASSUME NEW s \in Sockets, Unsubscribe(s)
    PROVE  LastLeaves(s) \/ Leaves(s)
BY Zenon DEF Unsubscribe, LastLeaves, Leaves

(* Every step keeps the types; that a number is left for a new supervisor  *)
(* is known from the attempts made.                                        *)
LEMMA TypeStep ==
    ASSUME TypeOK, LifeInv, [Next]_vars
    PROVE  TypeOK'
<1>. USE DEF TypeOK
<1>1. ASSUME NEW s \in Sockets, SocketStep(s)
      PROVE  TypeOK'
  <2>1. CASE Subscribe(s) \/ Retry(s)
    <3>. HIDE DEF TypeOK
    <3>. QED
      BY <2>1, AnAttempt, AttemptType
  <2>2. CASE Return(s)
    <3>. TenantOf[s] \in Tenants
      BY FanoutAssumption
    <3>. QED
      BY <2>2 DEF Return, state, supers, socks
  <2>4. CASE Bail(s)
    BY <2>4 DEF Bail, supers, socks, data
  <2>5. CASE Read(s)
    <3>1. Head(queue[s]) \in 1 .. MaxEvents /\ Tail(queue[s]) \in Seq(1 .. MaxEvents)
          /\ Len(Tail(queue[s])) <= QueueMax
      BY <2>5, FanoutAssumption DEF Read
    <3>2. /\ lastRead' \in [Sockets -> 0 .. MaxEvents] /\ queue' \in [Sockets -> Seq(1 .. MaxEvents)]
          /\ \A u \in Sockets : Len(queue'[u]) <= QueueMax
      BY <2>5, <3>1 DEF Read
    <3>. QED
      BY <2>5, <3>2 DEF Read, state, supers, socks
  <2>6. CASE Unsubscribe(s)
    <3>1. DOMAIN subscribers' \subseteq Tenants /\ subscribers' \in [DOMAIN subscribers' -> SUBSET Sockets]
      BY <2>6 DEF Unsubscribe, Detach
    <3>2. CASE LastLeaves(s)
      BY <2>6, <3>1, <3>2 DEF Unsubscribe, LastLeaves, data
    <3>3. CASE Leaves(s)
      BY <2>6, <3>1, <3>3 DEF Unsubscribe, Leaves, data
    <3>. QED
      BY <2>6, <3>2, <3>3, Leaving
  <2>7. CASE Drained(s)
    BY <2>7 DEF Drained, state, supers, socks, data
  <2>. QED
    BY <1>1, <2>1, <2>2, <2>4, <2>5, <2>6, <2>7 DEF SocketStep
<1>2. ASSUME NEW t \in TaskIds, SupervisorStep(t)
      PROVE  TypeOK'
  <2>. USE CrashType DEF SupStates
  <2>1. CASE Start(t)
    BY <2>1 DEF Start, socks, data
  <2>2. CASE Acquire(t)
    BY <2>2 DEF Acquire, state, socks, data
  <2>3. CASE AddListener(t)
    BY <2>3 DEF AddListener, state, socks, data
  <2>4. CASE Listen(t)
    BY <2>4 DEF Listen, SetReady, socks, data
  <2>5. CASE CancelDelivered(t)
    <3>1. inflight' \in [TaskIds -> Seq(Events)] /\ cancelling' \subseteq TaskIds
      BY <2>5, NothingInFlight DEF CancelDelivered
    <3>2. sup' \in [TaskIds -> SupStates] /\ outcome' \in [TaskIds -> {"none", "cancel", "error"}]
      BY <2>5 DEF CancelDelivered
    <3>. QED
      BY <2>5, <3>1, <3>2 DEF CancelDelivered, state, socks, data
  <2>6. CASE Cleanup(t)
    BY <2>6 DEF Cleanup, state, socks, data
  <2>7. CASE Released(t)
    BY <2>7 DEF Released, socks, data
  <2>. QED
    BY <1>2, <2>1, <2>2, <2>3, <2>4, <2>5, <2>6, <2>7 DEF SupervisorStep
<1>3. ASSUME NEW t \in TaskIds, Fault(t)
      PROVE  TypeOK'
  <2>. USE CrashType, FaultType, NothingInFlight DEF SupStates
  <2>1. CASE AcquireFails(t)
    BY <2>1 DEF AcquireFails, socks, data
  <2>2. CASE SetupFails(t)
    BY <2>2 DEF SetupFails, state, socks, data
  <2>3. CASE ConnectionLost(t)
    BY <2>3 DEF ConnectionLost, state, socks, data
  <2>4. CASE ReleaseFails(t)
    BY <2>4 DEF ReleaseFails, socks, data
  <2>. QED
    BY <1>3, <2>1, <2>2, <2>3, <2>4 DEF Fault
<1>4. ASSUME NEW t \in TaskIds, Dispatch(t)
      PROVE  TypeOK'
  <2>1. Head(inflight[t]) \in Events /\ Tail(inflight[t]) \in Seq(Events)
    BY <1>4 DEF Dispatch
  <2>2. Head(inflight[t]).n \in 1 .. MaxEvents
    BY <2>1 DEF Events
  <2>3. /\ queue' \in [Sockets -> Seq(1 .. MaxEvents)]
        /\ \A s \in Sockets : Len(queue'[s]) <= QueueMax
    BY <1>4, <2>2, PutType DEF Dispatch
  <2>. QED
    BY <1>4, <2>1, <2>3 DEF Dispatch, state, supers, socks, data
<1>5. ASSUME NEW tn \in Tenants, Notify(tn)
      PROVE  TypeOK'
  <2>1. pub' \in [Tenants -> 0 .. MaxEvents] /\ pub'[tn] \in 1 .. MaxEvents
    BY <1>5, FanoutAssumption DEF Notify
  <2>2. [tenant |-> tn, n |-> pub'[tn]] \in Events
    BY <2>1 DEF Events
  <2>3. inflight' \in [TaskIds -> Seq(Events)]
    BY <1>5, <2>2 DEF Notify
  <2>. QED
    BY <1>5, <2>1, <2>3 DEF Notify, state, supers, socks
<1>6. CASE UNCHANGED vars
  BY <1>6 DEF vars, state, supers, socks, data
<1>. QED
  BY <1>1, <1>2, <1>3, <1>4, <1>5, <1>6 DEF Next

(* An attempt counts the supervisor it spawns, and no other step spawns.   *)
LEMMA AttemptsStep ==
    ASSUME TypeOK, LifeInv, [Next]_vars
    PROVE  AttemptInv'
<1>t. /\ pc \in [Sockets -> {"connecting", "waiting", "woken", "streaming", "draining", "closed"}]
      /\ attempts \in [Sockets -> 0 .. 2] /\ spawned \in Nat
  <2>1. Cardinality(Sockets) \in Nat
    BY FanoutAssumption, FS_CardinalityType
  <2>. QED
    BY <2>1 DEF TypeOK, EventIds, TaskIds
<1>1. ASSUME NEW s \in Sockets, NEW n \in {1, 2}, attempts[s] < n, Attempt(s, n)
      PROVE  AttemptInv'
  <2>1. attempts' = [attempts EXCEPT ![s] = n] /\ (spawned' = spawned \/ spawned' = spawned + 1)
    BY <1>1 DEF Attempt, Spawn
  <2>2. spawned + 1 <= Cardinality(Tried') /\ spawned + 1 \in TaskIds
    BY <1>1, <2>1, RoomToSpawn
  <2>3. Cardinality(Tried') \in Nat
    <3>1. Tried' \subseteq Sockets \X {1, 2}
      BY DEF Tried
    <3>2. IsFiniteSet({1, 2})
      BY TwoTries
    <3>3. IsFiniteSet(Sockets \X {1, 2})
      BY <3>2, FS_Product, FanoutAssumption
    <3>. QED
      BY <3>1, <3>3, FS_Subset, FS_CardinalityType
  <2>4. spawned' <= Cardinality(Tried')
    BY <1>t, <2>1, <2>2, <2>3
  <2>5. ASSUME NEW u \in Sockets, pc'[u] = "connecting"
        PROVE  attempts'[u] = 0
    <3>1. u # s /\ pc[u] = "connecting"
      BY <1>1, <1>t, <2>5 DEF Attempt
    <3>. QED
      BY <1>t, <2>1, <3>1 DEF LifeInv, AttemptInv
  <2>. QED
    BY <2>4, <2>5 DEF AttemptInv
<1>2. ASSUME UNCHANGED <<attempts, spawned>>,
             \A s \in Sockets : pc'[s] = "connecting" => pc[s] = "connecting"
      PROVE  AttemptInv'
  <2>1. Tried' = Tried
    BY <1>2 DEF Tried
  <2>. QED
    BY <1>2, <2>1 DEF LifeInv, AttemptInv
<1>3. ASSUME NEW s \in Sockets, SocketStep(s)
      PROVE  AttemptInv'
  <2>1. CASE Subscribe(s) \/ Retry(s)
    BY <2>1, <1>1, AnAttempt
  <2>3. CASE Unsubscribe(s)
    <3>1. \A u \in Sockets : pc'[u] = "connecting" => pc[u] = "connecting"
      BY <1>t, <2>3, Leaving DEF LastLeaves, Leaves
    <3>. QED
      BY <1>2, <2>3, <3>1 DEF Unsubscribe
  <2>4. CASE Return(s) \/ Bail(s) \/ Read(s) \/ Drained(s)
    BY <1>t, <1>2, <2>4 DEF Return, Bail, Read, Drained, supers, socks
  <2>. QED
    BY <1>3, <2>1, <2>3, <2>4 DEF SocketStep
<1>4. ASSUME NEW t \in TaskIds, SupervisorStep(t)
      PROVE  AttemptInv'
  BY <1>t, <1>2, <1>4 DEF SupervisorStep, Start, Crash, SetReady, Acquire, AddListener, Listen,
     CancelDelivered, Cleanup, Released, socks
<1>5. ASSUME NEW t \in TaskIds, Fault(t)
      PROVE  AttemptInv'
  BY <1>t, <1>2, <1>5 DEF Fault, AcquireFails, SetupFails, ConnectionLost, ReleaseFails, Crash,
     SetReady, socks
<1>6. ASSUME NEW t \in TaskIds, Dispatch(t)
      PROVE  AttemptInv'
  BY <1>2, <1>6 DEF Dispatch, supers, socks
<1>7. ASSUME NEW tn \in Tenants, Notify(tn)
      PROVE  AttemptInv'
  BY <1>2, <1>7 DEF Notify, supers, socks
<1>8. CASE UNCHANGED vars
  BY <1>2, <1>8 DEF vars, supers, socks
<1>. QED
  BY <1>3, <1>4, <1>5, <1>6, <1>7, <1>8 DEF Next

(* Every step keeps what is known of the supervisors' lives, whatever      *)
(* fails.                                                                  *)
LEMMA SupervisorsStep ==
    ASSUME TypeOK, LifeInv, [Next]_vars
    PROVE  SupervisorInv'
<1>t. /\ sup \in [TaskIds -> SupStates] /\ outcome \in [TaskIds -> {"none", "cancel", "error"}]
      /\ task \in TaskIds \cup {None} /\ None \notin TaskIds /\ ready \in EventIds
      /\ inflight \in [TaskIds -> Seq(Events)] /\ TaskIds \subseteq Nat
      /\ spawned \in Nat /\ pool \in BOOLEAN
  <2>1. Cardinality(Sockets) \in Nat
    BY FanoutAssumption, FS_CardinalityType
  <2>. QED
    BY <2>1, FanoutAssumption DEF TypeOK, EventIds, TaskIds
<1>i. SupervisorInv
  BY DEF LifeInv
<1>1. ASSUME NEW s \in Sockets, NEW n \in {1, 2}, attempts[s] < n, Attempt(s, n)
      PROVE  SupervisorInv'
  <2>1. spawned + 1 \in TaskIds
    BY <1>1, RoomToSpawn DEF Attempt
  <2>2. CASE task = None
    BY <1>1, <1>t, <1>i, <2>1, <2>2 DEF SupervisorInv, CurrentTaskAlive, Done, Attempt, Spawn
  <2>3. CASE task # None
    BY <1>1, <1>t, <1>i, <2>3 DEF SupervisorInv, CurrentTaskAlive, Done, Attempt
  <2>. QED
    BY <2>2, <2>3
<1>2. ASSUME NEW s \in Sockets, SocketStep(s)
      PROVE  SupervisorInv'
  <2>1. CASE Subscribe(s) \/ Retry(s)
    BY <2>1, <1>1, AnAttempt
  <2>3. CASE LastLeaves(s) /\ Unsubscribe(s)
    BY <1>t, <1>i, <2>3 DEF SupervisorInv, CurrentTaskAlive, Done, Unsubscribe, LastLeaves
  <2>4. CASE Leaves(s) /\ Unsubscribe(s)
    BY <1>t, <1>i, <2>4 DEF SupervisorInv, CurrentTaskAlive, Done, Unsubscribe, Leaves
  <2>5. CASE Return(s) \/ Bail(s) \/ Read(s) \/ Drained(s)
    BY <1>i, <2>5 DEF SupervisorInv, CurrentTaskAlive, Done, Return, Bail, Read, Drained, state,
       supers
  <2>. QED
    BY <1>2, <2>1, <2>3, <2>4, <2>5, Leaving DEF SocketStep
<1>3. ASSUME NEW t \in TaskIds, Crash(t), sup[t] # "none",
             UNCHANGED <<ready, spawned, outcome, cancelling, lost, inflight>>
      PROVE  SupervisorInv'
  BY <1>3, <1>t, <1>i DEF SupervisorInv, CurrentTaskAlive, Done, Crash
<1>4. ASSUME NEW t \in TaskIds, SupervisorStep(t)
      PROVE  SupervisorInv'
  <2>. USE <1>t, <1>i DEF SupervisorInv, CurrentTaskAlive, Done
  <2>1. CASE Start(t)
    BY <1>3, <2>1 DEF Start
  <2>2. CASE Acquire(t)
    BY <2>2 DEF Acquire, state
  <2>3. CASE AddListener(t)
    BY <2>3 DEF AddListener, state
  <2>4. CASE Listen(t)
    BY <2>4 DEF Listen
  <2>5. CASE CancelDelivered(t)
    BY <2>5 DEF CancelDelivered, state
  <2>6. CASE Cleanup(t)
    BY <2>6 DEF Cleanup, state
  <2>7. CASE Released(t)
    BY <1>3, <2>7 DEF Released
  <2>. QED
    BY <1>4, <2>1, <2>2, <2>3, <2>4, <2>5, <2>6, <2>7 DEF SupervisorStep
<1>5. ASSUME NEW t \in TaskIds, Fault(t)
      PROVE  SupervisorInv'
  <2>. USE <1>t, <1>i DEF SupervisorInv, CurrentTaskAlive, Done
  <2>1. CASE AcquireFails(t)
    BY <1>3, <2>1 DEF AcquireFails
  <2>2. CASE SetupFails(t)
    BY <2>2 DEF SetupFails, state
  <2>3. CASE ConnectionLost(t)
    BY <2>3 DEF ConnectionLost, state
  <2>4. CASE ReleaseFails(t)
    BY <1>3, <2>4 DEF ReleaseFails
  <2>. QED
    BY <1>5, <2>1, <2>2, <2>3, <2>4 DEF Fault
<1>6. ASSUME NEW t \in TaskIds, Dispatch(t)
      PROVE  SupervisorInv'
  BY <1>6, <1>t, <1>i DEF SupervisorInv, CurrentTaskAlive, Done, Dispatch, supers, state
<1>7. ASSUME NEW tn \in Tenants, Notify(tn)
      PROVE  SupervisorInv'
  BY <1>7, <1>t, <1>i DEF SupervisorInv, CurrentTaskAlive, Done, Notify, supers, state, Listening
<1>8. CASE UNCHANGED vars
  BY <1>8, <1>i DEF SupervisorInv, CurrentTaskAlive, Done, vars, supers, state
<1>. QED
  BY <1>2, <1>4, <1>5, <1>6, <1>7, <1>8 DEF Next

(* An Event wakes the sockets that wait for it and touches no other.       *)
LEMMA OnlyWakes ==
    ASSUME TypeOK, NEW t \in TaskIds, SetReady
    PROVE  /\ pc' \in [Sockets -> {"connecting", "waiting", "woken", "streaming", "draining", "closed"}]
           /\ \A s \in Sockets :
                 pc'[s] = pc[s] \/ (pc[s] = "waiting" /\ waitsOn[s] = ready /\ pc'[s] = "woken")
BY DEF TypeOK, SetReady

(* What a supervisor does to the handlers is at most to wake them.         *)
LEMMA SupervisorWakes ==
    ASSUME TypeOK, NEW t \in TaskIds, SupervisorStep(t) \/ Fault(t) \/ Dispatch(t)
    PROVE  /\ UNCHANGED <<subscribers, ready, socks, data>>
           /\ \A s \in Sockets :
                 pc'[s] = pc[s] \/ (pc[s] = "waiting" /\ waitsOn[s] = ready /\ pc'[s] = "woken")
<1>1. CASE SupervisorStep(t)
  BY <1>1, OnlyWakes DEF SupervisorStep, Start, Crash, Acquire, AddListener, Listen,
     CancelDelivered, Cleanup, Released, socks, data, state
<1>2. CASE Fault(t)
  BY <1>2, OnlyWakes DEF Fault, AcquireFails, SetupFails, ConnectionLost, ReleaseFails, Crash,
     socks, data, state
<1>3. CASE Dispatch(t)
  BY <1>3 DEF Dispatch, state, socks, data
<1>. QED
  BY <1>1, <1>2, <1>3

(* A socket stays in its tenant's set until it leaves, and knows the       *)
(* supervisor whose Event it waits for.                                    *)
LEMMA SocketsStep ==
    ASSUME TypeOK, LifeInv, SocketInv, [Next]_vars
    PROVE  SocketInv'
<1>t. /\ pc \in [Sockets -> {"connecting", "waiting", "woken", "streaming", "draining", "closed"}]
      /\ mine \in [Sockets -> TaskIds \cup {None}] /\ waitsOn \in [Sockets -> EventIds]
      /\ subscribers \in [DOMAIN subscribers -> SUBSET Sockets]
      /\ task \in TaskIds \cup {None}
  BY DEF TypeOK
<1>r. task # None => ready = task
  BY DEF LifeInv, SupervisorInv
<1>1. ASSUME NEW s \in Sockets, NEW n \in {1, 2}, attempts[s] < n, Attempt(s, n)
      PROVE  SocketInv'
  <2>1. mine'[s] \in TaskIds /\ mine'[s] = waitsOn'[s]
    <3>1. spawned + 1 \in TaskIds
      BY <1>1, RoomToSpawn DEF Attempt
    <3>2. task' \in TaskIds /\ ready' = task'
      BY <1>1, <1>t, <1>r, <3>1 DEF Attempt, Spawn
    <3>. QED
      BY <1>1, <1>t, <3>2 DEF Attempt
  <2>2. \A u \in Sockets : u # s => pc'[u] = pc[u] /\ mine'[u] = mine[u] /\ waitsOn'[u] = waitsOn[u]
    BY <1>1, <1>t DEF Attempt
  <2>3. /\ DOMAIN subscribers' = DOMAIN subscribers \cup {TenantOf[s]}
        /\ s \in subscribers'[TenantOf[s]]
        /\ \A tn \in DOMAIN subscribers : subscribers[tn] \subseteq subscribers'[tn]
        /\ \A tn \in DOMAIN subscribers' : \A u \in subscribers'[tn] :
              (tn = TenantOf[s] /\ u = s) \/ (tn \in DOMAIN subscribers /\ u \in subscribers[tn])
    BY <1>1, <1>t DEF Attempt, Register
  <2>. QED
    BY <2>1, <2>2, <2>3, <1>t DEF SocketInv
<1>2. ASSUME UNCHANGED <<subscribers, mine, waitsOn>>,
             \A s \in Sockets :
                 \/ pc'[s] = pc[s]
                 \/ pc[s] = "waiting" /\ pc'[s] = "woken"
                 \/ pc[s] = "woken" /\ pc'[s] = "streaming"
                 \/ pc'[s] = "closed"
      PROVE  SocketInv'
  BY <1>2 DEF SocketInv
<1>3. ASSUME NEW s \in Sockets, SocketStep(s)
      PROVE  SocketInv'
  <2>1. CASE Subscribe(s) \/ Retry(s)
    BY <2>1, <1>1, AnAttempt
  <2>3. CASE Bail(s)
    <3>1. /\ DOMAIN subscribers' = DOMAIN subscribers /\ pc'[s] = "closed"
          /\ \A tn \in DOMAIN subscribers : subscribers'[tn] \subseteq subscribers[tn]
          /\ \A tn \in DOMAIN subscribers : \A u \in subscribers[tn] :
                u # s => u \in subscribers'[tn]
          /\ \A u \in Sockets : u # s => pc'[u] = pc[u]
          /\ UNCHANGED <<mine, waitsOn>>
      BY <1>t, <2>3 DEF Bail, socks
    <3>. QED
      BY <3>1, <1>t DEF SocketInv
  <2>4. CASE Unsubscribe(s)
    <3>1. /\ pc'[s] \in {"draining", "closed"}
          /\ \A u \in Sockets : u # s => pc'[u] = pc[u] /\ mine'[u] = mine[u]
      BY <1>t, <2>4, Leaving DEF LastLeaves, Leaves
    <3>2. /\ DOMAIN subscribers' \subseteq DOMAIN subscribers
          /\ \A tn \in DOMAIN subscribers' : subscribers'[tn] \subseteq subscribers[tn]
          /\ \A tn \in DOMAIN subscribers : \A u \in subscribers[tn] :
                u # s => tn \in DOMAIN subscribers' /\ u \in subscribers'[tn]
          /\ UNCHANGED waitsOn
      BY <1>t, <2>4 DEF Unsubscribe, Detach
    <3>. QED
      BY <3>1, <3>2, <1>t DEF SocketInv
  <2>5. CASE Return(s) \/ Read(s) \/ Drained(s)
    BY <1>t, <1>2, <2>5 DEF Return, Read, Drained, state, socks
  <2>. QED
    BY <1>3, <2>1, <2>3, <2>4, <2>5 DEF SocketStep
<1>4. ASSUME NEW t \in TaskIds, SupervisorStep(t) \/ Fault(t) \/ Dispatch(t)
      PROVE  SocketInv'
  BY <1>2, <1>4, SupervisorWakes DEF socks
<1>5. ASSUME NEW tn \in Tenants, Notify(tn)
      PROVE  SocketInv'
  BY <1>2, <1>5 DEF Notify, state, socks
<1>6. CASE UNCHANGED vars
  BY <1>2, <1>6 DEF vars, state, socks
<1>. QED
  BY <1>3, <1>4, <1>5, <1>6 DEF Next

(* Nothing that was lost comes back.                                       *)
LEMMA StillUnbroken ==
    ASSUME TypeOK, [Next]_vars, Unbroken'
    PROVE  Unbroken
<1>t. faults \in [setup : Nat, lost : Nat, cleanup : Nat]
  BY DEF TypeOK
<1>1. ASSUME NEW s \in Sockets, SocketStep(s)
      PROVE  UNCHANGED faults
  BY <1>1 DEF SocketStep, Subscribe, Return, Retry, Bail, Read, Unsubscribe, Drained, Attempt
<1>2. ASSUME NEW t \in TaskIds, SupervisorStep(t)
      PROVE  UNCHANGED faults
  BY <1>2 DEF SupervisorStep, Start, Acquire, AddListener, Listen, CancelDelivered, Cleanup,
     Released
<1>3. ASSUME NEW t \in TaskIds, Fault(t)
      PROVE  faults'.lost >= faults.lost /\ faults'.cleanup >= faults.cleanup
  BY <1>3, <1>t DEF Fault, AcquireFails, SetupFails, ConnectionLost, ReleaseFails
<1>4. ASSUME NEW t \in TaskIds, Dispatch(t)
      PROVE  UNCHANGED faults
  BY <1>4 DEF Dispatch
<1>5. ASSUME NEW tn \in Tenants, Notify(tn)
      PROVE  UNCHANGED faults
  BY <1>5 DEF Notify
<1>6. ASSUME UNCHANGED vars
      PROVE  UNCHANGED faults
  BY <1>6 DEF vars
<1>7. faults'.lost >= faults.lost /\ faults'.cleanup >= faults.cleanup
  BY <1>t, <1>1, <1>2, <1>3, <1>4, <1>5, <1>6 DEF Next
<1>. QED
  BY <1>t, <1>7 DEF Unbroken

(* As long as nothing is lost, a step leaves every supervisor at work the  *)
(* current one or about to be cancelled, and every streaming socket with   *)
(* a current one that sleeps.                                              *)
LEMMA OwnersStep ==
    ASSUME TypeOK, LifeInv, SocketInv, OwnedInv, [Next]_vars, Unbroken'
    PROVE  OwnedInv'
<1>t. /\ sup \in [TaskIds -> SupStates] /\ outcome \in [TaskIds -> {"none", "cancel", "error"}]
      /\ task \in TaskIds \cup {None} /\ None \notin TaskIds
      /\ pc \in [Sockets -> {"connecting", "waiting", "woken", "streaming", "draining", "closed"}]
      /\ mine \in [Sockets -> TaskIds \cup {None}] /\ pool \in BOOLEAN /\ cancelling \subseteq TaskIds
      /\ faults \in [setup : Nat, lost : Nat, cleanup : Nat]
  BY FanoutAssumption DEF TypeOK, TaskIds
<1>i. SupervisorInv
  BY DEF LifeInv
<1>w. \A s \in Sockets : pc[s] = "waiting" /\ waitsOn[s] = ready /\ task # None => mine[s] = task
  BY <1>i DEF SupervisorInv, SocketInv
<1>m. \A s \in Sockets : pc[s] \in {"waiting", "woken"} => mine[s] \in TaskIds
  BY DEF SocketInv
<1>. USE <1>t DEF Working, Listening, Done
<1>1. ASSUME NEW s \in Sockets, NEW n \in {1, 2}, attempts[s] < n, Attempt(s, n)
      PROVE  OwnedInv'
  <2>1. spawned + 1 \in TaskIds /\ sup[spawned + 1] = "none"
    <3>1. spawned + 1 \in TaskIds
      BY <1>1, RoomToSpawn DEF Attempt
    <3>2. spawned \in Nat
      BY DEF TypeOK, EventIds, TaskIds
    <3>. QED
      BY <3>1, <3>2, <1>i DEF SupervisorInv
  <2>2. CASE task = None
    <3>1. /\ task' = spawned + 1 /\ readySet' = FALSE /\ sup' = [sup EXCEPT ![spawned + 1] = "created"]
          /\ pc' = [pc EXCEPT ![s] = "waiting"]
          /\ mine' = [mine EXCEPT ![s] = task']
          /\ UNCHANGED <<outcome, cancelling, lost>>
      BY <1>1, <2>2 DEF Attempt, Spawn
    <3>. QED
      BY <2>1, <2>2, <3>1, <1>i, <1>m DEF OwnedInv, SupervisorInv, CurrentTaskAlive
  <2>3. CASE task # None
    <3>1. /\ pc' = [pc EXCEPT ![s] = IF readySet THEN "streaming" ELSE "waiting"]
          /\ mine' = [mine EXCEPT ![s] = task']
          /\ UNCHANGED <<outcome, cancelling, lost, sup, readySet, task>>
      BY <1>1, <2>3 DEF Attempt
    <3>. QED
      BY <2>3, <3>1 DEF OwnedInv
  <2>. QED
    BY <2>2, <2>3
<1>2. ASSUME NEW s \in Sockets, SocketStep(s)
      PROVE  OwnedInv'
  <2>1. CASE Subscribe(s) \/ Retry(s)
    BY <2>1, <1>1, AnAttempt
  <2>2. CASE Return(s)
    BY <2>2, <1>m DEF OwnedInv, Return, state, supers, socks
  <2>3. CASE Bail(s) \/ Read(s) \/ Drained(s)
    BY <2>3 DEF OwnedInv, Bail, Read, Drained, state, supers, socks
  <2>4. CASE Unsubscribe(s) /\ Leaves(s)
    BY <2>4 DEF OwnedInv, Unsubscribe, Leaves
  <2>5. CASE Unsubscribe(s) /\ LastLeaves(s)
    <3>1. \A u \in Sockets : u # s => pc[u] \notin {"waiting", "woken", "streaming"}
      <4>1. SUFFICES ASSUME NEW u \in Sockets, u # s, pc[u] \in {"waiting", "woken", "streaming"}
                     PROVE  FALSE
        OBVIOUS
      <4>2. TenantOf[u] \in DOMAIN subscribers /\ u \in subscribers[TenantOf[u]]
        BY <4>1 DEF SocketInv
      <4>3. TenantOf[u] \in DOMAIN subscribers'
        BY <2>5, <4>1, <4>2 DEF Unsubscribe, Detach
      <4>. QED
        BY <2>5, <4>3 DEF LastLeaves
    <3>. QED
      BY <2>5, <3>1 DEF OwnedInv, Unsubscribe, LastLeaves
  <2>. QED
    BY <1>2, <2>1, <2>2, <2>3, <2>4, <2>5, Leaving DEF SocketStep
<1>3. ASSUME NEW t \in TaskIds, Crash(t), t = task, sup[t] # "sleeping",
             UNCHANGED <<mine, outcome, cancelling, lost>>
      PROVE  OwnedInv'
  <2>1. /\ task' = None /\ sup' = [sup EXCEPT ![t] = "crashed"]
        /\ \A s \in Sockets : pc'[s] = pc[s] \/ (pc'[s] = "woken" /\ mine[s] = task)
    BY <1>3, <1>w DEF Crash, SetReady
  <2>2. \A s \in Sockets : pc'[s] # "streaming"
    BY <2>1, <1>3 DEF OwnedInv
  <2>3. \A s \in Sockets : pc'[s] = "woken" => Done(mine[s])'
    BY <2>1, <1>3 DEF OwnedInv
  <2>. QED
    BY <1>3, <2>1, <2>2, <2>3 DEF OwnedInv
<1>4. ASSUME NEW t \in TaskIds, SupervisorStep(t)
      PROVE  OwnedInv'
  <2>1. CASE Start(t)
    <3>1. t = task /\ pool
      BY <2>1, <1>i DEF Start, OwnedInv, SupervisorInv
    <3>2. sup' = [sup EXCEPT ![t] = "acquiring"] /\ UNCHANGED <<task, pool, readySet, pc>>
      BY <2>1, <3>1 DEF Start
    <3>. QED
      BY <2>1, <3>1, <3>2 DEF Start, OwnedInv, socks
  <2>2. CASE Acquire(t)
    BY <2>2 DEF Acquire, OwnedInv, state, socks
  <2>3. CASE AddListener(t)
    <3>1. t = task /\ \A u \in TaskIds : Listening(u) => u = t
      BY <2>3 DEF AddListener, OwnedInv
    <3>. QED
      BY <2>3, <3>1 DEF AddListener, OwnedInv, state, socks
  <2>4. CASE Listen(t)
    <3>1. t = task
      BY <2>4 DEF Listen, OwnedInv
    <3>2. \A s \in Sockets : pc'[s] = pc[s] \/ (pc'[s] = "woken" /\ mine[s] = task)
      BY <2>4, <3>1, <1>w DEF Listen, SetReady
    <3>. QED
      BY <2>4, <3>1, <3>2 DEF Listen, OwnedInv, socks
  <2>5. CASE CancelDelivered(t)
    <3>1. t # task
      BY <2>5, <1>i DEF CancelDelivered, SupervisorInv
    <3>2. /\ \A u \in TaskIds : u # t => sup'[u] = sup[u] /\ outcome'[u] = outcome[u]
          /\ sup'[t] \notin Working /\ (sup'[t] = "releasing" => outcome'[t] = "cancel")
          /\ sup[t] \notin {"crashed", "cancelled"}
      BY <2>5 DEF CancelDelivered
    <3>3. UNCHANGED <<task, readySet, lost, pc, mine>> /\ cancelling' = cancelling \ {t}
      BY <2>5 DEF CancelDelivered, state, socks
    <3>. QED
      BY <3>1, <3>2, <3>3, <1>m DEF OwnedInv
  <2>6. CASE Cleanup(t)
    <3>1. t # task
      BY <2>6, <1>i DEF Cleanup, SupervisorInv
    <3>. QED
      BY <2>6, <3>1 DEF Cleanup, OwnedInv, state, socks
  <2>7. CASE Released(t)
    <3>1. CASE outcome[t] = "error"
      <4>1. t = task
        BY <2>7, <3>1 DEF Released, OwnedInv
      <4>. QED
        BY <2>7, <3>1, <4>1, <1>3 DEF Released, socks
    <3>2. CASE outcome[t] # "error"
      <4>1. t # task
        BY <2>7, <3>2, <1>i DEF Released, SupervisorInv
      <4>2. sup' = [sup EXCEPT ![t] = "cancelled"] /\ UNCHANGED <<task, pool, readySet, pc>>
        BY <2>7, <3>2 DEF Released
      <4>. QED
        BY <2>7, <3>2, <4>1, <4>2 DEF Released, OwnedInv, socks
    <3>. QED
      BY <3>1, <3>2
  <2>. QED
    BY <1>4, <2>1, <2>2, <2>3, <2>4, <2>5, <2>6, <2>7 DEF SupervisorStep
<1>5. ASSUME NEW t \in TaskIds, Fault(t)
      PROVE  OwnedInv'
  <2>1. CASE AcquireFails(t)
    <3>1. t = task
      BY <2>1 DEF AcquireFails, OwnedInv
    <3>. QED
      BY <2>1, <3>1, <1>3 DEF AcquireFails, socks
  <2>2. CASE SetupFails(t)
    <3>1. t = task
      BY <2>2 DEF SetupFails, OwnedInv
    <3>. QED
      BY <2>2, <3>1 DEF SetupFails, OwnedInv, state, socks
  <2>3. CASE ConnectionLost(t)
    BY <2>3 DEF ConnectionLost, Unbroken
  <2>4. CASE ReleaseFails(t)
    BY <2>4 DEF ReleaseFails, Unbroken
  <2>. QED
    BY <1>5, <2>1, <2>2, <2>3, <2>4 DEF Fault
<1>6. ASSUME NEW t \in TaskIds, Dispatch(t)
      PROVE  OwnedInv'
  BY <1>6 DEF Dispatch, OwnedInv, state, supers, socks
<1>7. ASSUME NEW tn \in Tenants, Notify(tn)
      PROVE  OwnedInv'
  BY <1>7 DEF Notify, OwnedInv, state, supers, socks
<1>8. CASE UNCHANGED vars
  BY <1>8 DEF vars, OwnedInv, state, supers, socks
<1>. QED
  BY <1>2, <1>4, <1>5, <1>6, <1>7, <1>8 DEF Next

-----------------------------------------------------------------------------
(* What a step does to the events: a socket joins, reads, or a supervisor  *)
(* stops without disturbing who streams.                                   *)
KeepsListeners == \A t \in TaskIds : Listening(t) => Listening(t)'

Joins(s) ==
    /\ KeepsListeners
    /\ joined' = [joined EXCEPT ![s] = pub[TenantOf[s]]]
    /\ \A u \in Sockets : u # s => pc'[u] = pc[u]
    /\ UNCHANGED <<inflight, queue, pub, lastRead>>

Undisturbed(t) ==
    \/ inflight'[t] = inflight[t] /\ (Listening(t) => Listening(t)')
    \/ inflight'[t] = <<>> /\ ~(t = task /\ sup[t] = "sleeping")

Quiet ==
    /\ UNCHANGED <<queue, pub, joined, lastRead>>
    /\ \A s \in Sockets : pc'[s] = "streaming" => pc[s] = "streaming"
    /\ \A t \in TaskIds : Undisturbed(t)

(* Every step is one of these, a Read, a Dispatch or a Notify.             *)
LEMMA EventSteps ==
    ASSUME TypeOK, LifeInv, OwnedInv, [Next]_vars, Unbroken'
    PROVE  \/ \E s \in Sockets : Joins(s) \/ Read(s)
           \/ \E t \in TaskIds : Dispatch(t)
           \/ \E tn \in Tenants : Notify(tn)
           \/ Quiet
<1>t. /\ sup \in [TaskIds -> SupStates] /\ task \in TaskIds \cup {None} /\ None \notin TaskIds
      /\ inflight \in [TaskIds -> Seq(Events)]
      /\ pc \in [Sockets -> {"connecting", "waiting", "woken", "streaming", "draining", "closed"}]
      /\ faults \in [setup : Nat, lost : Nat, cleanup : Nat]
  BY FanoutAssumption DEF TypeOK, TaskIds
<1>i. SupervisorInv
  BY DEF LifeInv
<1>1. ASSUME NEW s \in Sockets, SocketStep(s)
      PROVE  Joins(s) \/ Read(s) \/ Quiet
  <2>1. CASE Subscribe(s) \/ Retry(s)
    <3>1. PICK n \in {1, 2} : attempts[s] < n /\ Attempt(s, n)
      BY <2>1, AnAttempt
    <3>2. spawned + 1 \in TaskIds /\ sup[spawned + 1] = "none"
      <4>1. spawned + 1 \in TaskIds
        BY <3>1, RoomToSpawn DEF Attempt
      <4>2. spawned \in Nat
        BY DEF TypeOK, EventIds, TaskIds
      <4>. QED
        BY <4>1, <4>2, <1>i DEF SupervisorInv
    <3>3. KeepsListeners
      BY <1>t, <3>1, <3>2 DEF KeepsListeners, Listening, Attempt, Spawn
    <3>. QED
      BY <1>t, <3>1, <3>3 DEF Attempt, Joins
  <2>2. CASE Return(s)
    BY <1>t, <2>2 DEF Return, Joins, KeepsListeners, Listening, supers
  <2>3. CASE Unsubscribe(s)
    <3>1. \A u \in Sockets : pc'[u] = "streaming" => pc[u] = "streaming"
      BY <1>t, <2>3, Leaving DEF LastLeaves, Leaves
    <3>. QED
      BY <2>3, <3>1 DEF Unsubscribe, Quiet, Undisturbed, Listening, data
  <2>4. CASE Bail(s) \/ Drained(s)
    BY <1>t, <2>4 DEF Bail, Drained, Quiet, Undisturbed, Listening, supers, data
  <2>. QED
    BY <1>1, <2>1, <2>2, <2>3, <2>4 DEF SocketStep
<1>2. ASSUME NEW t \in TaskIds, SupervisorStep(t) \/ Fault(t)
      PROVE  Quiet
  <2>1. UNCHANGED <<queue, data>>
    BY <1>2, SupervisorWakes DEF SupervisorStep, Start, Acquire, AddListener, Listen,
       CancelDelivered, Cleanup, Released, Fault, AcquireFails, SetupFails, ConnectionLost,
       ReleaseFails
  <2>2. \A s \in Sockets : pc'[s] = "streaming" => pc[s] = "streaming"
    BY <1>2, SupervisorWakes
  <2>3. ASSUME UNCHANGED <<inflight, lost>>, sup[t] \notin {"registered", "sleeping"}
                                             \/ sup'[t] \in {"registered", "sleeping"},
               \A u \in TaskIds : u # t => sup'[u] = sup[u]
        PROVE  \A u \in TaskIds : Undisturbed(u)
    BY <2>3, <1>t DEF Listening, Undisturbed
  <2>4. ASSUME inflight' = [inflight EXCEPT ![t] = <<>>], UNCHANGED lost,
               ~(t = task /\ sup[t] = "sleeping"), \A u \in TaskIds : u # t => sup'[u] = sup[u]
        PROVE  \A u \in TaskIds : Undisturbed(u)
    BY <2>4, <1>t DEF Listening, Undisturbed
  <2>5. \A u \in TaskIds : Undisturbed(u)
    <3>1. CASE Start(t) \/ Acquire(t) \/ AddListener(t) \/ Listen(t) \/ Cleanup(t) \/ Released(t)
               \/ AcquireFails(t) \/ ReleaseFails(t)
      <4>1. UNCHANGED <<inflight, lost>>
        BY <3>1 DEF Start, Acquire, AddListener, Listen, Cleanup, Released, AcquireFails,
           ReleaseFails
      <4>2. \A u \in TaskIds : u # t => sup'[u] = sup[u]
        BY <3>1, <1>t DEF Start, Acquire, AddListener, Listen, Cleanup, Released, AcquireFails,
           ReleaseFails, Crash
      <4>3. \/ sup[t] \notin {"registered", "sleeping"}
            \/ sup'[t] \in {"registered", "sleeping"}
        BY <3>1, <1>t DEF Start, Acquire, AddListener, Listen, Cleanup, Released, AcquireFails,
           ReleaseFails
      <4>. QED
        BY <2>3, <4>1, <4>2, <4>3
    <3>2. CASE CancelDelivered(t)
      <4>1. t # task
        BY <3>2, <1>i DEF CancelDelivered, SupervisorInv
      <4>2. /\ inflight' = [inflight EXCEPT ![t] = <<>>] /\ UNCHANGED lost
            /\ \A u \in TaskIds : u # t => sup'[u] = sup[u]
        BY <3>2, <1>t DEF CancelDelivered
      <4>. QED
        BY <2>4, <4>1, <4>2
    <3>3. CASE SetupFails(t)
      <4>1. /\ inflight' = [inflight EXCEPT ![t] = <<>>] /\ UNCHANGED lost /\ sup[t] # "sleeping"
            /\ \A u \in TaskIds : u # t => sup'[u] = sup[u]
        BY <3>3, <1>t DEF SetupFails
      <4>. QED
        BY <2>4, <4>1
    <3>4. CASE ConnectionLost(t)
      BY <3>4, <1>t DEF ConnectionLost, Unbroken
    <3>. QED
      BY <1>2, <3>1, <3>2, <3>3, <3>4 DEF SupervisorStep, Fault
  <2>. QED
    BY <2>1, <2>2, <2>5 DEF Quiet, data
<1>3. CASE UNCHANGED vars
  BY <1>3 DEF vars, Quiet, Undisturbed, Listening, supers, data
<1>. QED
  BY <1>1, <1>2, <1>3 DEF Next

(* put_nowait puts the new event behind the old ones, of which it drops    *)
(* the first when there is no room.                                        *)
LEMMA PutEntries ==
    ASSUME NEW q \in Seq(Nat), Len(q) <= QueueMax, NEW e \in Nat
    PROVE  \E d \in {0, 1} :
              /\ d <= Len(q) /\ (d = 1 => Len(q) = QueueMax) /\ (d = 0 => Len(q) < QueueMax)
              /\ Put(q, e) \in Seq(Nat) /\ Len(Put(q, e)) = Len(q) - d + 1
              /\ \A k \in 1 .. Len(q) - d : Put(q, e)[k] = q[k + d]
              /\ Put(q, e)[Len(q) - d + 1] = e
<1>1. QueueMax \in Nat /\ QueueMax > 0
  BY FanoutAssumption
<1>2. CASE Len(q) < QueueMax
  <2>. DEFINE d == 0
  <2>1. Put(q, e) = Append(q, e)
    BY <1>2 DEF Put
  <2>2. /\ d <= Len(q) /\ (d = 1 => Len(q) = QueueMax) /\ (d = 0 => Len(q) < QueueMax)
        /\ Put(q, e) \in Seq(Nat) /\ Len(Put(q, e)) = Len(q) - d + 1
        /\ \A k \in 1 .. Len(q) - d : Put(q, e)[k] = q[k + d]
        /\ Put(q, e)[Len(q) - d + 1] = e
    BY <1>1, <1>2, <2>1
  <2>3. d \in {0, 1}
    OBVIOUS
  <2>. HIDE DEF d
  <2>. QED
    BY <2>2, <2>3
<1>3. CASE ~(Len(q) < QueueMax)
  <2>. DEFINE d == 1
              w == Tail(q)
  <2>1. Put(q, e) = Append(w, e)
    BY <1>3 DEF Put
  <2>2. w \in Seq(Nat) /\ Len(w) = Len(q) - 1 /\ \A k \in 1 .. Len(q) - 1 : w[k] = q[k + 1]
    BY <1>1, <1>3
  <2>. HIDE DEF w
  <2>3. /\ d <= Len(q) /\ (d = 1 => Len(q) = QueueMax) /\ (d = 0 => Len(q) < QueueMax)
        /\ Put(q, e) \in Seq(Nat) /\ Len(Put(q, e)) = Len(q) - d + 1
        /\ \A k \in 1 .. Len(q) - d : Put(q, e)[k] = q[k + d]
        /\ Put(q, e)[Len(q) - d + 1] = e
    BY <1>1, <1>3, <2>1, <2>2
  <2>4. d \in {0, 1}
    OBVIOUS
  <2>. HIDE DEF d
  <2>. QED
    BY <2>3, <2>4
<1>. QED
  BY <1>2, <1>3

(* What the numbers of the events are.                                     *)
LEMMA EventTypes ==
    ASSUME TypeOK
    PROVE  /\ MaxEvents \in Nat /\ QueueMax \in Nat /\ QueueMax > 0
           /\ \A s \in Sockets :
                 /\ TenantOf[s] \in Tenants /\ pub[TenantOf[s]] \in Nat
                 /\ joined[s] \in Nat /\ lastRead[s] \in Nat
                 /\ queue[s] \in Seq(Nat) /\ Len(queue[s]) \in Nat /\ Len(queue[s]) <= QueueMax
                 /\ \A k \in 1 .. Len(queue[s]) : queue[s][k] \in Nat
           /\ \A t \in TaskIds :
                 /\ inflight[t] \in Seq(Events) /\ Len(inflight[t]) \in Nat
                 /\ \A i \in 1 .. Len(inflight[t]) :
                       /\ inflight[t][i] \in Events
                       /\ inflight[t][i].tenant \in Tenants
                       /\ inflight[t][i].n \in Nat
                       /\ pub[inflight[t][i].tenant] \in Nat
<1>1. MaxEvents \in Nat /\ QueueMax \in Nat /\ QueueMax > 0
  BY FanoutAssumption
<1>2. ASSUME NEW s \in Sockets
      PROVE  /\ TenantOf[s] \in Tenants /\ pub[TenantOf[s]] \in Nat
             /\ joined[s] \in Nat /\ lastRead[s] \in Nat
             /\ queue[s] \in Seq(Nat) /\ Len(queue[s]) \in Nat /\ Len(queue[s]) <= QueueMax
             /\ \A k \in 1 .. Len(queue[s]) : queue[s][k] \in Nat
  <2>1. TenantOf[s] \in Tenants
    BY FanoutAssumption
  <2>2. pub[TenantOf[s]] \in Nat /\ joined[s] \in Nat /\ lastRead[s] \in Nat
    BY <1>1, <2>1 DEF TypeOK
  <2>3. queue[s] \in Seq(1 .. MaxEvents) /\ Len(queue[s]) <= QueueMax
    BY DEF TypeOK
  <2>4. \A k \in 1 .. Len(queue[s]) : queue[s][k] \in 1 .. MaxEvents
    BY <2>3, ElementOfSeq
  <2>5. queue[s] \in Seq(Nat) /\ Len(queue[s]) \in Nat
    BY <2>3, <2>4
  <2>. QED
    BY <1>1, <2>1, <2>2, <2>3, <2>4, <2>5
<1>3. ASSUME NEW t \in TaskIds
      PROVE  /\ inflight[t] \in Seq(Events) /\ Len(inflight[t]) \in Nat
             /\ \A i \in 1 .. Len(inflight[t]) :
                   /\ inflight[t][i] \in Events
                   /\ inflight[t][i].tenant \in Tenants
                   /\ inflight[t][i].n \in Nat
                   /\ pub[inflight[t][i].tenant] \in Nat
  <2>1. inflight[t] \in Seq(Events)
    BY DEF TypeOK
  <2>2. \A i \in 1 .. Len(inflight[t]) : inflight[t][i] \in Events
    BY <2>1
  <2>3. \A e \in Events : e.tenant \in Tenants /\ e.n \in 1 .. MaxEvents
    BY DEF Events
  <2>4. \A tn \in Tenants : pub[tn] \in Nat
    BY <1>1 DEF TypeOK
  <2>. QED
    BY <1>1, <2>1, <2>2, <2>3, <2>4
<1>. QED
  BY <1>1, <1>2, <1>3

(* One notification reaches the queues of its tenant's sockets and of no   *)
(* other; nothing else is in flight than what follows it.                  *)
LEMMA DispatchEffect ==
    ASSUME TypeOK, SocketInv, OwnedInv, FlightInv, NEW t \in TaskIds, Dispatch(t)
    PROVE  /\ Len(inflight[t]) > 0
           /\ \A u \in TaskIds : u # t => inflight[u] = <<>> /\ inflight'[u] = <<>>
           /\ Len(inflight'[t]) = Len(inflight[t]) - 1
           /\ \A i \in 1 .. Len(inflight[t]) - 1 : inflight'[t][i] = inflight[t][i + 1]
           /\ \A s \in Sockets :
                 \/ /\ TenantOf[s] = inflight[t][1].tenant
                    /\ queue'[s] = Put(queue[s], inflight[t][1].n)
                 \/ /\ pc[s] = "streaming" => TenantOf[s] # inflight[t][1].tenant
                    /\ queue'[s] = queue[s]
           /\ UNCHANGED <<sup, task, lost, pc, pub, joined, lastRead>>
<1>1. inflight[t] \in Seq(Events) /\ inflight[t] # <<>>
  BY DEF TypeOK, Dispatch
<1>2. Len(inflight[t]) > 0 /\ Head(inflight[t]) = inflight[t][1]
  BY <1>1
<1>3. \A u \in TaskIds : u # t => inflight[u] = <<>> /\ inflight'[u] = <<>>
  <2>1. \A u \in TaskIds : u # t => inflight[u] = <<>>
    BY <1>1 DEF FlightInv, OwnedInv
  <2>. QED
    BY <2>1 DEF Dispatch, TypeOK
<1>4. inflight'[t] = Tail(inflight[t])
  BY DEF Dispatch, TypeOK
<1>5. /\ Len(inflight'[t]) = Len(inflight[t]) - 1
      /\ \A i \in 1 .. Len(inflight[t]) - 1 : inflight'[t][i] = inflight[t][i + 1]
  BY <1>1, <1>4
<1>6. ASSUME NEW s \in Sockets
      PROVE  \/ /\ TenantOf[s] = inflight[t][1].tenant
                /\ queue'[s] = Put(queue[s], inflight[t][1].n)
             \/ /\ pc[s] = "streaming" => TenantOf[s] # inflight[t][1].tenant
                /\ queue'[s] = queue[s]
  <2>. DEFINE tn == inflight[t][1].tenant
              subs == IF tn \in DOMAIN subscribers THEN subscribers[tn] ELSE {}
  <2>1. queue'[s] = IF s \in subs THEN Put(queue[s], inflight[t][1].n) ELSE queue[s]
    BY <1>2 DEF Dispatch
  <2>2. s \in subs => TenantOf[s] = tn
    BY DEF SocketInv
  <2>3. pc[s] = "streaming" /\ TenantOf[s] = tn => s \in subs
    BY DEF SocketInv
  <2>. QED
    BY <2>1, <2>2, <2>3
<1>7. UNCHANGED <<sup, task, lost, pc, pub, joined, lastRead>>
  BY DEF Dispatch, state, supers, data
<1>. QED
  BY <1>2, <1>3, <1>5, <1>6, <1>7

(* A commit adds one event behind those in flight.                         *)
LEMMA NotifyEffect ==
    ASSUME TypeOK, NEW tn \in Tenants, Notify(tn)
    PROVE  /\ pub' = [pub EXCEPT ![tn] = pub[tn] + 1] /\ pub[tn] \in Nat
           /\ \A t \in TaskIds :
                 \/ inflight'[t] = inflight[t] /\ ~Listening(t)
                 \/ /\ Listening(t)
                    /\ Len(inflight'[t]) = Len(inflight[t]) + 1
                    /\ \A i \in 1 .. Len(inflight[t]) : inflight'[t][i] = inflight[t][i]
                    /\ inflight'[t][Len(inflight[t]) + 1] = [tenant |-> tn, n |-> pub[tn] + 1]
           /\ UNCHANGED <<sup, task, lost, pc, queue, joined, lastRead>>
<1>1. pub' = [pub EXCEPT ![tn] = pub[tn] + 1] /\ pub[tn] \in Nat /\ pub'[tn] = pub[tn] + 1
  BY FanoutAssumption DEF Notify, TypeOK
<1>2. ASSUME NEW t \in TaskIds, Listening(t)
      PROVE  /\ Len(inflight'[t]) = Len(inflight[t]) + 1
             /\ \A i \in 1 .. Len(inflight[t]) : inflight'[t][i] = inflight[t][i]
             /\ inflight'[t][Len(inflight[t]) + 1] = [tenant |-> tn, n |-> pub[tn] + 1]
  <2>. DEFINE e == [tenant |-> tn, n |-> pub[tn] + 1]
  <2>1. inflight'[t] = Append(inflight[t], e)
    BY <1>1, <1>2 DEF Notify
  <2>2. inflight[t] \in Seq(Events)
    BY DEF TypeOK
  <2>. HIDE DEF e
  <2>3. /\ Len(inflight'[t]) = Len(inflight[t]) + 1
        /\ \A i \in 1 .. Len(inflight[t]) : inflight'[t][i] = inflight[t][i]
        /\ inflight'[t][Len(inflight[t]) + 1] = e
    BY <2>1, <2>2
  <2>. QED
    BY <2>3 DEF e
<1>3. ASSUME NEW t \in TaskIds, ~Listening(t)
      PROVE  inflight'[t] = inflight[t]
  BY <1>3 DEF Notify
<1>4. UNCHANGED <<sup, task, lost, pc, queue, joined, lastRead>>
  BY DEF Notify, state, supers
<1>. QED
  BY <1>1, <1>2, <1>3, <1>4

(* A client takes the oldest entry of its queue.                           *)
LEMMA ReadEffect ==
    ASSUME TypeOK, NEW s \in Sockets, Read(s)
    PROVE  /\ Len(queue[s]) > 0 /\ Len(queue'[s]) = Len(queue[s]) - 1
           /\ lastRead'[s] = queue[s][1]
           /\ \A k \in 1 .. Len(queue[s]) - 1 : queue'[s][k] = queue[s][k + 1]
           /\ \A u \in Sockets : u # s => queue'[u] = queue[u] /\ lastRead'[u] = lastRead[u]
           /\ UNCHANGED <<sup, task, lost, inflight, pc, pub, joined>>
<1>1. queue[s] \in Seq(1 .. MaxEvents) /\ queue[s] # <<>>
  BY DEF TypeOK, Read
<1>2. queue'[s] = Tail(queue[s]) /\ lastRead'[s] = Head(queue[s])
  BY DEF TypeOK, Read
<1>3. \A u \in Sockets : u # s => queue'[u] = queue[u] /\ lastRead'[u] = lastRead[u]
  BY DEF TypeOK, Read
<1>. QED
  <2>. DEFINE q == queue[s]
  <2>1. q \in Seq(1 .. MaxEvents) /\ q # <<>> /\ queue'[s] = Tail(q) /\ lastRead'[s] = Head(q)
    BY <1>1, <1>2
  <2>. HIDE DEF q
  <2>2. /\ Len(q) > 0 /\ Len(Tail(q)) = Len(q) - 1 /\ Head(q) = q[1]
        /\ \A k \in 1 .. Len(q) - 1 : Tail(q)[k] = q[k + 1]
    BY <2>1
  <2>. QED
    BY <2>1, <2>2, <1>3 DEF q, Read, state, supers

(* What is in flight stays in order and newer than what was delivered.     *)
LEMMA FlightStep ==
    ASSUME TypeOK, TypeOK', LifeInv, SocketInv, OwnedInv, FlightInv, QueueInv, [Next]_vars,
           Unbroken'
    PROVE  FlightInv'
<1>. DEFINE Sound(t, i) ==
        /\ inflight[t][i].n <= pub[inflight[t][i].tenant]
        /\ \A j \in i + 1 .. Len(inflight[t]) :
              inflight[t][i].tenant = inflight[t][j].tenant => inflight[t][i].n < inflight[t][j].n
        /\ \A s \in Sockets : TenantOf[s] = inflight[t][i].tenant =>
              /\ lastRead[s] < inflight[t][i].n
              /\ \A k \in 1 .. Len(queue[s]) : queue[s][k] < inflight[t][i].n
<1>i. \A t \in TaskIds : \A i \in 1 .. Len(inflight[t]) : Sound(t, i)
  BY DEF FlightInv
<1>l. \A t \in TaskIds : inflight[t] # <<>> => Listening(t)
  BY DEF FlightInv
<1>s. SUFFICES /\ \A t \in TaskIds : inflight'[t] # <<>> => Listening(t)'
               /\ \A t \in TaskIds : \A i \in 1 .. Len(inflight'[t]) : Sound(t, i)'
  BY DEF FlightInv
<1>1. ASSUME NEW s \in Sockets, Joins(s)
      PROVE  /\ \A t \in TaskIds : inflight'[t] # <<>> => Listening(t)'
             /\ \A t \in TaskIds : \A i \in 1 .. Len(inflight'[t]) : Sound(t, i)'
  BY <1>1, <1>i, <1>l DEF Joins, KeepsListeners
<1>2. ASSUME Quiet
      PROVE  /\ \A t \in TaskIds : inflight'[t] # <<>> => Listening(t)'
             /\ \A t \in TaskIds : \A i \in 1 .. Len(inflight'[t]) : Sound(t, i)'
  BY <1>2, <1>i, <1>l DEF Quiet, Undisturbed
<1>3. ASSUME NEW s \in Sockets, Read(s)
      PROVE  /\ \A t \in TaskIds : inflight'[t] # <<>> => Listening(t)'
             /\ \A t \in TaskIds : \A i \in 1 .. Len(inflight'[t]) : Sound(t, i)'
  <2>1. \A t \in TaskIds : inflight'[t] # <<>> => Listening(t)'
    BY <1>3, <1>l, ReadEffect DEF Listening
  <2>2. ASSUME NEW t \in TaskIds, NEW i \in 1 .. Len(inflight'[t])
        PROVE  Sound(t, i)'
    <3>. DEFINE e == inflight[t][i]
    <3>1. i \in 1 .. Len(inflight[t]) /\ Sound(t, i) /\ inflight' = inflight /\ pub' = pub
      BY <1>3, <2>2, <1>i, ReadEffect
    <3>2. ASSUME NEW u \in Sockets, TenantOf[u] = e.tenant
          PROVE  /\ lastRead'[u] < e.n
                 /\ \A k \in 1 .. Len(queue'[u]) : queue'[u][k] < e.n
      <4>1. lastRead[u] < e.n /\ \A k \in 1 .. Len(queue[u]) : queue[u][k] < e.n
        BY <3>1, <3>2
      <4>2. CASE u = s
        <5>1. /\ Len(queue[s]) \in Nat /\ Len(queue[s]) > 0 /\ Len(queue'[s]) = Len(queue[s]) - 1
              /\ lastRead'[s] = queue[s][1]
              /\ \A k \in 1 .. Len(queue[s]) - 1 : queue'[s][k] = queue[s][k + 1]
          BY <1>3, ReadEffect, EventTypes
        <5>2. 1 \in 1 .. Len(queue[s])
          BY <5>1
        <5>3. ASSUME NEW k \in 1 .. Len(queue'[s])
              PROVE  k \in 1 .. Len(queue[s]) - 1 /\ k + 1 \in 1 .. Len(queue[s])
          BY <5>1
        <5>. QED
          BY <4>1, <4>2, <5>1, <5>2, <5>3
      <4>3. CASE u # s
        BY <1>3, <4>1, <4>3, ReadEffect
      <4>. QED
        BY <4>2, <4>3
    <3>. QED
      BY <3>1, <3>2
  <2>. QED
    BY <2>1, <2>2
<1>4. ASSUME NEW tn \in Tenants, Notify(tn)
      PROVE  /\ \A t \in TaskIds : inflight'[t] # <<>> => Listening(t)'
             /\ \A t \in TaskIds : \A i \in 1 .. Len(inflight'[t]) : Sound(t, i)'
  <2>1. \A t \in TaskIds : inflight'[t] # <<>> => Listening(t)'
    BY <1>4, <1>l, NotifyEffect DEF Listening
  <2>2. ASSUME NEW t \in TaskIds, NEW i \in 1 .. Len(inflight'[t])
        PROVE  Sound(t, i)'
    <3>. DEFINE e == inflight'[t][i]
                new == [tenant |-> tn, n |-> pub[tn] + 1]
                len == Len(inflight[t])
    <3>1. /\ pub' = [pub EXCEPT ![tn] = pub[tn] + 1] /\ pub[tn] \in Nat
          /\ queue' = queue /\ lastRead' = lastRead /\ len \in Nat
          /\ pub \in [Tenants -> 0 .. MaxEvents]
      BY <1>4, NotifyEffect, EventTypes DEF TypeOK
    <3>2. /\ \/ Len(inflight'[t]) = len
             \/ Len(inflight'[t]) = len + 1 /\ inflight'[t][len + 1] = new
          /\ \A j \in 1 .. len : inflight'[t][j] = inflight[t][j]
      BY <1>4, NotifyEffect
    <3>3. CASE i \in 1 .. len
      <4>1. e = inflight[t][i] /\ Sound(t, i) /\ e.n \in Nat /\ pub[e.tenant] \in Nat
            /\ e.tenant \in Tenants
        BY <3>2, <3>3, <1>i, EventTypes
      <4>2. e.n <= pub'[e.tenant]
        BY <3>1, <4>1
      <4>3. ASSUME NEW j \in i + 1 .. Len(inflight'[t]), e.tenant = inflight'[t][j].tenant
            PROVE  e.n < inflight'[t][j].n
        <5>1. CASE j \in 1 .. len
          <6>1. j \in i + 1 .. len /\ inflight'[t][j] = inflight[t][j]
            BY <3>1, <3>2, <3>3, <4>3, <5>1
          <6>. QED
            BY <4>1, <4>3, <6>1
        <5>2. CASE j \notin 1 .. len
          <6>1. inflight'[t][j] = new
            BY <3>1, <3>2, <3>3, <4>3, <5>2
          <6>. QED
            BY <3>1, <4>1, <4>3, <6>1
        <5>. QED
          BY <5>1, <5>2
      <4>. QED
        BY <3>1, <4>1, <4>2, <4>3
    <3>4. CASE i \notin 1 .. len
      <4>1. i = len + 1 /\ Len(inflight'[t]) = len + 1 /\ e = new
        BY <2>2, <3>1, <3>2, <3>4
      <4>2. ASSUME NEW s \in Sockets, TenantOf[s] = tn
            PROVE  lastRead[s] < pub[tn] + 1 /\ \A k \in 1 .. Len(queue[s]) : queue[s][k] < pub[tn] + 1
        BY <3>1, <4>2, EventTypes DEF QueueInv, Ordered
      <4>3. e.tenant = tn /\ e.n = pub[tn] + 1
        BY <4>1
      <4>4. e.n <= pub'[e.tenant] /\ i + 1 .. Len(inflight'[t]) = {}
        BY <3>1, <4>1, <4>3
      <4>. HIDE DEF e
      <4>. QED
        BY <3>1, <4>2, <4>3, <4>4 DEF e
    <3>. QED
      BY <3>3, <3>4
  <2>. QED
    BY <2>1, <2>2
<1>5. ASSUME NEW t \in TaskIds, Dispatch(t)
      PROVE  /\ \A u \in TaskIds : inflight'[u] # <<>> => Listening(u)'
             /\ \A u \in TaskIds : \A i \in 1 .. Len(inflight'[u]) : Sound(u, i)'
  <2>1. \A u \in TaskIds : inflight'[u] # <<>> => Listening(u)'
    BY <1>5, <1>l, DispatchEffect DEF Listening
  <2>2. ASSUME NEW i \in 1 .. Len(inflight'[t])
        PROVE  Sound(t, i)'
    <3>. DEFINE e == inflight[t][i + 1]
                first == inflight[t][1]
                len == Len(inflight[t])
    <3>1. /\ len \in Nat /\ len > 0 /\ Len(inflight'[t]) = len - 1 /\ i + 1 \in 1 .. len /\ 1 \in 1 .. len
          /\ \A j \in 1 .. len - 1 : inflight'[t][j] = inflight[t][j + 1]
          /\ UNCHANGED <<pub, lastRead>>
      BY <1>5, <2>2, DispatchEffect, EventTypes
    <3>2. inflight'[t][i] = e /\ Sound(t, i + 1) /\ Sound(t, 1) /\ e.n \in Nat /\ first.n \in Nat
      BY <3>1, <2>2, <1>i, EventTypes
    <3>3. ASSUME NEW j \in i + 1 .. Len(inflight'[t]), e.tenant = inflight'[t][j].tenant
          PROVE  e.n < inflight'[t][j].n
      <4>1. j + 1 \in i + 1 + 1 .. len /\ inflight'[t][j] = inflight[t][j + 1]
        BY <3>1, <3>3
      <4>. QED
        BY <3>2, <3>3, <4>1
    <3>4. ASSUME NEW s \in Sockets, TenantOf[s] = e.tenant
          PROVE  lastRead[s] < e.n /\ \A k \in 1 .. Len(queue'[s]) : queue'[s][k] < e.n
      <4>1. lastRead[s] < e.n /\ \A k \in 1 .. Len(queue[s]) : queue[s][k] < e.n
        BY <3>2, <3>4
      <4>2. CASE queue'[s] = queue[s]
        BY <4>1, <4>2
      <4>3. CASE TenantOf[s] = first.tenant /\ queue'[s] = Put(queue[s], first.n)
        <5>1. first.n < e.n
          <6>1. i + 1 \in 1 + 1 .. len /\ first.tenant = inflight[t][i + 1].tenant
            BY <3>1, <3>4, <4>3
          <6>. QED
            BY <3>2, <6>1
        <5>2. PICK d \in {0, 1} :
                 /\ d <= Len(queue[s]) /\ Len(queue'[s]) = Len(queue[s]) - d + 1
                 /\ \A k \in 1 .. Len(queue[s]) - d : queue'[s][k] = queue[s][k + d]
                 /\ queue'[s][Len(queue[s]) - d + 1] = first.n
          <6>. DEFINE q == queue[s]
                      f == first.n
          <6>1. q \in Seq(Nat) /\ Len(q) <= QueueMax /\ f \in Nat /\ queue'[s] = Put(q, f)
            BY <3>2, <4>3, EventTypes
          <6>. HIDE DEF q, f
          <6>2. \E d \in {0, 1} :
                   /\ d <= Len(q) /\ (d = 1 => Len(q) = QueueMax) /\ (d = 0 => Len(q) < QueueMax)
                   /\ Put(q, f) \in Seq(Nat) /\ Len(Put(q, f)) = Len(q) - d + 1
                   /\ \A k \in 1 .. Len(q) - d : Put(q, f)[k] = q[k + d]
                   /\ Put(q, f)[Len(q) - d + 1] = f
            BY <6>1, PutEntries, Zenon
          <6>. QED
            BY <6>1, <6>2 DEF q, f
        <5>3. Len(queue[s]) \in Nat
          BY EventTypes
        <5>4. ASSUME NEW k \in 1 .. Len(queue'[s])
              PROVE  queue'[s][k] < e.n
          <6>1. CASE k = Len(queue[s]) - d + 1
            BY <5>1, <5>2, <6>1
          <6>2. CASE k # Len(queue[s]) - d + 1
            <7>1. k \in 1 .. Len(queue[s]) - d /\ k + d \in 1 .. Len(queue[s])
              BY <5>2, <5>3, <6>2
            <7>. QED
              BY <4>1, <5>2, <7>1
          <6>. QED
            BY <6>1, <6>2
        <5>. QED
          BY <4>1, <5>4
      <4>. QED
        BY <1>5, <4>2, <4>3, DispatchEffect
    <3>. QED
      BY <3>1, <3>2, <3>3, <3>4
  <2>3. \A u \in TaskIds : u # t => inflight'[u] = <<>>
    BY <1>5, DispatchEffect
  <2>. HIDE DEF Sound
  <2>4. ASSUME NEW u \in TaskIds, NEW i \in 1 .. Len(inflight'[u])
        PROVE  Sound(u, i)'
    <3>1. u = t
      <4>1. SUFFICES ASSUME u # t PROVE FALSE
        OBVIOUS
      <4>2. Len(inflight'[u]) = 0
        BY <2>3, <4>1
      <4>. QED
        BY <2>4, <4>2
    <3>. QED
      BY <2>2, <3>1
  <2>. QED
    BY <2>1, <2>4
<1>. QED
  BY <1>1, <1>2, <1>3, <1>4, <1>5, EventSteps

(* Whoever streams, what is on its way is in flight from the current       *)
(* supervisor.                                                             *)
LEMMA FromTheCurrent ==
    ASSUME TypeOK, OwnedInv, FlightInv, NEW s \in Sockets, pc[s] = "streaming",
           NEW t \in TaskIds, NEW i \in 1 .. Len(inflight[t])
    PROVE  t = task /\ sup[t] = "sleeping"
<1>1. task \in TaskIds /\ sup[task] = "sleeping" /\ Listening(task)
  BY DEF OwnedInv, TypeOK, Listening
<1>2. inflight[t] # <<>>
  BY EventTypes
<1>3. Listening(t)
  BY <1>2 DEF FlightInv
<1>. QED
  BY <1>1, <1>3 DEF OwnedInv

(* The newest event a socket knows of, by the length of its queue.         *)
LEMMA LastOfQueue ==
    ASSUME TypeOK, NEW s \in Sockets
    PROVE  /\ Len(queue[s]) = 0 => LastSeen(s) = lastRead[s]
           /\ Len(queue[s]) > 0 => LastSeen(s) = queue[s][Len(queue[s])]
           /\ LastSeen(s) \in Nat
<1>1. queue[s] \in Seq(Nat) /\ Len(queue[s]) \in Nat /\ lastRead[s] \in Nat
      /\ \A k \in 1 .. Len(queue[s]) : queue[s][k] \in Nat
  BY EventTypes
<1>2. queue[s] = <<>> <=> Len(queue[s]) = 0
  BY <1>1, EmptySeq
<1>. QED
  BY <1>1, <1>2 DEF LastSeen

(* What is dispatched is the next event a streaming socket has to see.     *)
LEMMA NextInLine ==
    ASSUME TypeOK, OwnedInv, FlightInv, NEW s \in Sockets, pc[s] = "streaming", Complete(s),
           NEW t \in TaskIds, Len(inflight[t]) > 0, inflight[t][1].tenant = TenantOf[s]
    PROVE  inflight[t][1].n <= Max2(LastSeen(s), joined[s]) + 1
<1>. DEFINE n == inflight[t][1].n
            m == n - 1
<1>1. 1 \in 1 .. Len(inflight[t]) /\ n \in Nat
  BY EventTypes
<1>2. n <= pub[TenantOf[s]]
  BY <1>1 DEF FlightInv
<1>3. LastSeen(s) \in Nat /\ joined[s] \in Nat /\ pub[TenantOf[s]] \in Nat
  BY LastOfQueue, EventTypes
<1>4. CASE m <= joined[s]
  BY <1>1, <1>3, <1>4 DEF Max2
<1>5. CASE m > joined[s]
  <2>1. m \in joined[s] + 1 .. pub[TenantOf[s]]
    BY <1>1, <1>2, <1>3, <1>5
  <2>2. ~OnTheWay(TenantOf[s], m)
    <3>1. SUFFICES ASSUME NEW u \in TaskIds, NEW i \in 1 .. Len(inflight[u]),
                          inflight[u][i] = [tenant |-> TenantOf[s], n |-> m]
                   PROVE  FALSE
      BY DEF OnTheWay
    <3>2. u = t
      BY <1>1, FromTheCurrent
    <3>3. inflight[t][i].tenant = TenantOf[s] /\ inflight[t][i].n = m
      BY <3>1, <3>2
    <3>4. i # 1
      BY <1>1, <3>3
    <3>5. i \in 1 + 1 .. Len(inflight[t])
      BY <3>2, <3>4, EventTypes
    <3>6. n < m
      BY <1>1, <3>3, <3>5 DEF FlightInv
    <3>. QED
      BY <1>1, <3>6
  <2>3. m <= LastSeen(s)
    BY <2>1, <2>2 DEF Complete
  <2>. QED
    BY <1>1, <1>3, <2>3 DEF Max2
<1>. QED
  BY <1>1, <1>3, <1>4, <1>5

(* Every step keeps the queues in order, whole since subscribe() returned. *)
LEMMA QueueStep ==
    ASSUME TypeOK, TypeOK', LifeInv, SocketInv, OwnedInv, FlightInv, QueueInv, [Next]_vars,
           Unbroken'
    PROVE  QueueInv'
<1>i. \A s \in Sockets : Ordered(s) /\ (pc[s] = "streaming" => Complete(s))
  BY DEF QueueInv
<1>s. SUFFICES ASSUME NEW u \in Sockets
               PROVE  Ordered(u)' /\ (pc'[u] = "streaming" => Complete(u)')
  BY DEF QueueInv
<1>p. joined \in [Sockets -> 0 .. MaxEvents] /\ pub \in [Tenants -> 0 .. MaxEvents]
  BY DEF TypeOK
<1>1. ASSUME NEW s \in Sockets, Joins(s)
      PROVE  Ordered(u)' /\ (pc'[u] = "streaming" => Complete(u)')
  <2>1. UNCHANGED <<inflight, queue, pub, lastRead>>
    BY <1>1 DEF Joins
  <2>2. CASE u # s
    <3>1. joined'[u] = joined[u] /\ pc'[u] = pc[u]
      BY <1>1, <1>p, <2>2 DEF Joins
    <3>. QED
      BY <1>i, <2>1, <3>1 DEF Ordered, Complete, LastSeen, OnTheWay
  <2>3. CASE u = s
    <3>1. joined'[u] = pub[TenantOf[u]] /\ pub[TenantOf[u]] \in Nat
      BY <1>1, <1>p, <2>3, EventTypes DEF Joins
    <3>2. Ordered(u)'
      BY <1>i, <2>1, <3>1 DEF Ordered
    <3>3. ASSUME NEW k \in 1 .. Len(queue[u])
          PROVE  queue[u][k] \in Nat /\ queue[u][k] <= pub[TenantOf[u]]
      BY <1>i, EventTypes DEF Ordered
    <3>4. \A x \in Nat : pub[TenantOf[u]] <= Max2(x, joined'[u])
      BY <3>1 DEF Max2
    <3>5. \A k \in 1 .. Len(queue[u]) - 1 : queue[u][k + 1] <= Max2(queue[u][k], joined'[u]) + 1
      <4>1. SUFFICES ASSUME NEW k \in 1 .. Len(queue[u]) - 1
                     PROVE  queue[u][k + 1] <= Max2(queue[u][k], joined'[u]) + 1
        OBVIOUS
      <4>2. k \in 1 .. Len(queue[u]) /\ k + 1 \in 1 .. Len(queue[u])
        BY EventTypes
      <4>. QED
        BY <3>1, <3>3, <4>2 DEF Max2
    <3>6. queue[u] # <<>> => ~(queue[u][1] > Max2(lastRead[u], joined'[u]) + 1)
      <4>1. SUFFICES ASSUME queue[u] # <<>>
                     PROVE  queue[u][1] <= Max2(lastRead[u], joined'[u]) + 1 /\ queue[u][1] \in Nat
                            /\ Max2(lastRead[u], joined'[u]) \in Nat
        OBVIOUS
      <4>2. 1 \in 1 .. Len(queue[u]) /\ lastRead[u] \in Nat
        BY <4>1, EventTypes, EmptySeq
      <4>. QED
        BY <3>1, <3>3, <4>2 DEF Max2
    <3>7. \A m \in joined'[u] + 1 .. pub[TenantOf[u]] : FALSE
      BY <3>1
    <3>8. Complete(u)'
      BY <2>1, <3>5, <3>6, <3>7 DEF Complete
    <3>. QED
      BY <3>2, <3>8
  <2>. QED
    BY <2>2, <2>3
<1>2. ASSUME Quiet
      PROVE  Ordered(u)' /\ (pc'[u] = "streaming" => Complete(u)')
  <2>1. UNCHANGED <<queue, pub, joined, lastRead>>
    BY <1>2 DEF Quiet
  <2>2. Ordered(u)'
    BY <1>i, <2>1 DEF Ordered
  <2>3. ASSUME pc'[u] = "streaming"
        PROVE  Complete(u)'
    <3>1. pc[u] = "streaming" /\ Complete(u)
      BY <1>2, <1>i, <2>3 DEF Quiet
    <3>2. ASSUME NEW m, OnTheWay(TenantOf[u], m)
          PROVE  OnTheWay(TenantOf[u], m)'
      <4>1. PICK t \in TaskIds : \E i \in 1 .. Len(inflight[t]) :
                inflight[t][i] = [tenant |-> TenantOf[u], n |-> m]
        BY <3>2 DEF OnTheWay
      <4>2. t = task /\ sup[t] = "sleeping"
        BY <3>1, <4>1, FromTheCurrent
      <4>3. inflight'[t] = inflight[t]
        BY <1>2, <4>2 DEF Quiet, Undisturbed
      <4>. QED
        BY <4>1, <4>3 DEF OnTheWay
    <3>. QED
      BY <2>1, <3>1, <3>2 DEF Complete, LastSeen
  <2>. QED
    BY <2>2, <2>3
<1>3. ASSUME NEW s \in Sockets, Read(s)
      PROVE  Ordered(u)' /\ (pc'[u] = "streaming" => Complete(u)')
  <2>1. UNCHANGED <<inflight, pub, joined, pc>>
    BY <1>3, ReadEffect
  <2>2. CASE u # s
    <3>1. queue'[u] = queue[u] /\ lastRead'[u] = lastRead[u]
      BY <1>3, <2>2, ReadEffect
    <3>. QED
      BY <1>i, <2>1, <3>1 DEF Ordered, Complete, LastSeen, OnTheWay
  <2>3. CASE u = s
    <3>. DEFINE q == queue[u]
                w == queue'[u]
                len == Len(q)
                tn == TenantOf[u]
    <3>1. /\ len \in Nat /\ len > 0 /\ Len(w) = len - 1 /\ lastRead'[u] = q[1]
          /\ \A k \in 1 .. len - 1 : w[k] = q[k + 1]
          /\ \A k \in 1 .. len : q[k] \in Nat
          /\ joined[u] \in Nat /\ lastRead[u] \in Nat /\ pub[tn] \in Nat
      BY <1>3, <2>3, ReadEffect, EventTypes
    <3>2. /\ joined[u] <= pub[tn]
          /\ \A k \in 1 .. len : lastRead[u] < q[k] /\ q[k] <= pub[tn]
          /\ \A k \in 1 .. len : \A j \in k + 1 .. len : q[k] < q[j]
      BY <1>i DEF Ordered
    <3>3. /\ Len(w) = 0 => LastSeen(u)' = lastRead'[u]
          /\ Len(w) > 0 => LastSeen(u)' = w[Len(w)]
      <4>1. w \in Seq(Nat)
        BY <1>3, <2>3, EventTypes DEF Read, TypeOK
      <4>2. w = <<>> <=> Len(w) = 0
        BY <4>1, EmptySeq
      <4>. QED
        BY <3>1, <4>2 DEF LastSeen
    <3>4. LastSeen(u) = q[len]
      BY <3>1, LastOfQueue
    <3>. HIDE DEF q, w, len, tn
    <3>5. 1 \in 1 .. len /\ \A k \in 1 .. len - 1 : k \in 1 .. len /\ k + 1 \in 1 .. len
                                                    /\ k + 1 \in 1 + 1 .. len
      BY <3>1
    <3>6. \A k \in 1 .. Len(w) : q[1] < w[k] /\ w[k] <= pub[tn]
      BY <3>1, <3>2, <3>5
    <3>7. \A k \in 1 .. Len(w) : \A j \in k + 1 .. Len(w) : w[k] < w[j]
      <4>1. SUFFICES ASSUME NEW k \in 1 .. Len(w), NEW j \in k + 1 .. Len(w)
                     PROVE  w[k] < w[j]
        OBVIOUS
      <4>2. /\ k + 1 \in 1 .. len /\ j + 1 \in k + 1 + 1 .. len
            /\ k \in 1 .. len - 1 /\ j \in 1 .. len - 1
        BY <3>1
      <4>. QED
        BY <3>1, <3>2, <4>2
    <3>8. q[1] <= pub[tn]
      BY <3>2, <3>5
    <3>9. Ordered(u)'
      BY <2>1, <3>1, <3>2, <3>6, <3>7, <3>8 DEF Ordered, q, w, len, tn
    <3>10. ASSUME Complete(u)
           PROVE  Complete(u)'
      <4>0. /\ \A k \in 1 .. len - 1 : q[k + 1] <= Max2(q[k], joined[u]) + 1
            /\ \A m \in joined[u] + 1 .. pub[tn] : m <= LastSeen(u) \/ OnTheWay(tn, m)
        BY <3>10 DEF Complete, q, len, tn
      <4>1. \A k \in 1 .. Len(w) - 1 : w[k + 1] <= Max2(w[k], joined[u]) + 1
        <5>1. SUFFICES ASSUME NEW k \in 1 .. Len(w) - 1
                       PROVE  w[k + 1] <= Max2(w[k], joined[u]) + 1
          OBVIOUS
        <5>2. k \in 1 .. len - 1 /\ k + 1 \in 1 .. len - 1
          BY <3>1
        <5>3. w[k] = q[k + 1] /\ w[k + 1] = q[k + 1 + 1]
          BY <3>1, <5>2
        <5>. QED
          BY <4>0, <5>2, <5>3
      <4>2. w # <<>> => ~(w[1] > Max2(q[1], joined[u]) + 1)
        <5>1. SUFFICES ASSUME w # <<>>
                       PROVE  w[1] <= Max2(q[1], joined[u]) + 1 /\ w[1] \in Nat
                              /\ Max2(q[1], joined[u]) \in Nat
          OBVIOUS
        <5>2. Len(w) > 0
          <6>1. w \in Seq(Nat)
            BY <1>3, <2>3, EventTypes DEF Read, TypeOK, w
          <6>. QED
            BY <5>1, <6>1, EmptySeq
        <5>3. 1 \in 1 .. len - 1 /\ w[1] = q[1 + 1] /\ q[1] \in Nat /\ q[1 + 1] \in Nat
          BY <3>1, <3>5, <5>2
        <5>. QED
          BY <3>1, <4>0, <5>3 DEF Max2
      <4>3. LastSeen(u)' = LastSeen(u)
        <5>1. CASE Len(w) = 0
          BY <3>1, <3>3, <3>4, <5>1
        <5>2. CASE Len(w) # 0
          <6>1. Len(w) \in 1 .. len - 1 /\ Len(w) + 1 = len
            BY <3>1, <5>2
          <6>. QED
            BY <3>1, <3>3, <3>4, <6>1
        <5>. QED
          BY <5>1, <5>2
      <4>. QED
        BY <2>1, <3>1, <4>0, <4>1, <4>2, <4>3 DEF Complete, OnTheWay, q, w, len, tn
    <3>. QED
      BY <1>i, <2>1, <3>9, <3>10
  <2>. QED
    BY <2>2, <2>3
<1>4. ASSUME NEW tn \in Tenants, Notify(tn)
      PROVE  Ordered(u)' /\ (pc'[u] = "streaming" => Complete(u)')
  <2>1. /\ pub' = [pub EXCEPT ![tn] = pub[tn] + 1] /\ pub[tn] \in Nat
        /\ UNCHANGED <<sup, task, lost, pc, queue, joined, lastRead>>
    BY <1>4, NotifyEffect
  <2>2. pub[TenantOf[u]] \in Nat /\ pub'[TenantOf[u]] \in Nat /\ pub[TenantOf[u]] <= pub'[TenantOf[u]]
        /\ pub'[TenantOf[u]] <= pub[TenantOf[u]] + 1
        /\ (pub'[TenantOf[u]] # pub[TenantOf[u]] => TenantOf[u] = tn)
        /\ joined[u] \in Nat /\ lastRead[u] \in Nat
    BY <2>1, <1>p, EventTypes
  <2>3. Ordered(u)'
    <3>1. \A k \in 1 .. Len(queue[u]) : queue[u][k] \in Nat
      BY EventTypes
    <3>. QED
      BY <1>i, <2>1, <2>2, <3>1 DEF Ordered
  <2>4. ASSUME pc'[u] = "streaming"
        PROVE  Complete(u)'
    <3>1. pc[u] = "streaming" /\ Complete(u)
      BY <1>i, <2>1, <2>4
    <3>2. ASSUME NEW m, OnTheWay(TenantOf[u], m)
          PROVE  OnTheWay(TenantOf[u], m)'
      <4>0. PICK t \in TaskIds : \E i \in 1 .. Len(inflight[t]) :
                inflight[t][i] = [tenant |-> TenantOf[u], n |-> m]
        BY <3>2 DEF OnTheWay
      <4>1. PICK i \in 1 .. Len(inflight[t]) : inflight[t][i] = [tenant |-> TenantOf[u], n |-> m]
        BY <4>0
      <4>2. i \in 1 .. Len(inflight'[t]) /\ inflight'[t][i] = inflight[t][i]
        <5>1. /\ \/ Len(inflight'[t]) = Len(inflight[t])
                 \/ Len(inflight'[t]) = Len(inflight[t]) + 1
              /\ \A j \in 1 .. Len(inflight[t]) : inflight'[t][j] = inflight[t][j]
          BY <1>4, NotifyEffect
        <5>2. Len(inflight[t]) \in Nat
          BY EventTypes
        <5>. QED
          BY <5>1, <5>2
      <4>. QED
        BY <4>1, <4>2 DEF OnTheWay
    <3>3. ASSUME NEW m, m = pub[tn] + 1
          PROVE  OnTheWay(tn, m)'
      <4>1. task \in TaskIds /\ Listening(task)
        BY <3>1 DEF OwnedInv, Listening, TypeOK
      <4>2. /\ Len(inflight'[task]) = Len(inflight[task]) + 1
            /\ inflight'[task][Len(inflight[task]) + 1] = [tenant |-> tn, n |-> pub[tn] + 1]
        BY <1>4, <4>1, NotifyEffect
      <4>3. Len(inflight[task]) + 1 \in 1 .. Len(inflight'[task])
        BY <4>1, <4>2, EventTypes
      <4>. QED
        BY <3>3, <4>1, <4>2, <4>3 DEF OnTheWay
    <3>4. ASSUME NEW m \in joined[u] + 1 .. pub'[TenantOf[u]]
          PROVE  m <= LastSeen(u) \/ OnTheWay(TenantOf[u], m)'
      <4>1. CASE m \in joined[u] + 1 .. pub[TenantOf[u]]
        BY <3>1, <3>2, <4>1 DEF Complete
      <4>2. CASE m \notin joined[u] + 1 .. pub[TenantOf[u]]
        <5>1. TenantOf[u] = tn /\ m = pub[tn] + 1
          BY <2>2, <4>2
        <5>. QED
          BY <3>3, <5>1
      <4>. QED
        BY <4>1, <4>2
    <3>. QED
      BY <2>1, <3>1, <3>4 DEF Complete, LastSeen
  <2>. QED
    BY <2>3, <2>4
<1>5. ASSUME NEW t \in TaskIds, Dispatch(t)
      PROVE  Ordered(u)' /\ (pc'[u] = "streaming" => Complete(u)')
  <2>. DEFINE q == queue[u]
              w == queue'[u]
              len == Len(q)
              tn == TenantOf[u]
              e == inflight[t][1]
              rest == Len(inflight[t]) - 1
  <2>1. UNCHANGED <<sup, task, lost, pc, pub, joined, lastRead>>
    BY <1>5, DispatchEffect
  <2>2. /\ rest \in Nat /\ rest + 1 = Len(inflight[t]) /\ Len(inflight'[t]) = rest
        /\ 1 \in 1 .. Len(inflight[t]) /\ e.n \in Nat
        /\ \A i \in 1 .. rest : inflight'[t][i] = inflight[t][i + 1]
    BY <1>5, DispatchEffect, EventTypes
  <2>3. /\ len \in Nat /\ len <= QueueMax /\ QueueMax \in Nat
        /\ \A k \in 1 .. len : q[k] \in Nat
        /\ joined[u] \in Nat /\ lastRead[u] \in Nat /\ pub[tn] \in Nat
    BY EventTypes
  <2>4. /\ joined[u] <= pub[tn] /\ lastRead[u] <= pub[tn]
        /\ \A k \in 1 .. len : lastRead[u] < q[k] /\ q[k] <= pub[tn]
        /\ \A k \in 1 .. len : \A j \in k + 1 .. len : q[k] < q[j]
    BY <1>i DEF Ordered
  <2>5. ASSUME NEW m, OnTheWay(tn, m), e # [tenant |-> tn, n |-> m], pc[u] = "streaming"
        PROVE  OnTheWay(tn, m)'
    <3>0. PICK v \in TaskIds : \E i \in 1 .. Len(inflight[v]) :
              inflight[v][i] = [tenant |-> tn, n |-> m]
      BY <2>5 DEF OnTheWay
    <3>1. PICK i \in 1 .. Len(inflight[v]) : inflight[v][i] = [tenant |-> tn, n |-> m]
      BY <3>0
    <3>2. v = t
      BY <2>2, <2>5, FromTheCurrent
    <3>3. i # 1
      BY <2>5, <3>1, <3>2
    <3>4. i - 1 \in 1 .. rest /\ inflight'[t][i - 1] = inflight[t][i]
      BY <2>2, <3>2, <3>3
    <3>. QED
      BY <2>2, <3>1, <3>2, <3>4 DEF OnTheWay
  <2>6. CASE TenantOf[u] # e.tenant /\ queue'[u] = queue[u]
    <3>1. Ordered(u)'
      BY <1>i, <2>1, <2>6 DEF Ordered
    <3>2. ASSUME pc'[u] = "streaming"
          PROVE  Complete(u)'
      <4>1. pc[u] = "streaming" /\ Complete(u)
        BY <1>i, <2>1, <3>2
      <4>2. \A m : e # [tenant |-> tn, n |-> m]
        BY <2>6
      <4>3. \A m : OnTheWay(tn, m) => OnTheWay(tn, m)'
        BY <2>5, <4>1, <4>2
      <4>. QED
        BY <2>1, <2>6, <4>1, <4>3 DEF Complete, LastSeen
    <3>. QED
      BY <3>1, <3>2
  <2>7. CASE pc[u] # "streaming" /\ queue'[u] = queue[u]
    BY <1>i, <2>1, <2>7 DEF Ordered
  <2>8. CASE TenantOf[u] = e.tenant /\ queue'[u] = Put(queue[u], e.n)
    <3>1. PICK d \in {0, 1} :
             /\ d <= len /\ (d = 1 => len = QueueMax) /\ (d = 0 => len < QueueMax)
             /\ w \in Seq(Nat) /\ Len(w) = len - d + 1
             /\ \A k \in 1 .. len - d : w[k] = q[k + d]
             /\ w[len - d + 1] = e.n
      <4>. DEFINE f == e.n
      <4>1. q \in Seq(Nat) /\ Len(q) <= QueueMax /\ f \in Nat /\ w = Put(q, f)
        BY <2>2, <2>8, EventTypes
      <4>. HIDE DEF q, f, w
      <4>2. \E d \in {0, 1} :
               /\ d <= Len(q) /\ (d = 1 => Len(q) = QueueMax) /\ (d = 0 => Len(q) < QueueMax)
               /\ Put(q, f) \in Seq(Nat) /\ Len(Put(q, f)) = Len(q) - d + 1
               /\ \A k \in 1 .. Len(q) - d : Put(q, f)[k] = q[k + d]
               /\ Put(q, f)[Len(q) - d + 1] = f
        BY <4>1, PutEntries, Zenon
      <4>. QED
        BY <4>1, <4>2 DEF f
    <3>2. /\ e.n <= pub[tn] /\ lastRead[u] < e.n
          /\ \A k \in 1 .. len : q[k] < e.n
      BY <2>2, <2>8 DEF FlightInv
    <3>3. LastSeen(u)' = e.n
      <4>1. Len(w) > 0 /\ w # <<>> /\ Len(w) = len - d + 1
        BY <2>3, <3>1
      <4>. QED
        BY <3>1, <4>1 DEF LastSeen
    <3>4. pc[u] = "streaming" => e.n <= Max2(LastSeen(u), joined[u]) + 1
      <4>1. Len(inflight[t]) > 0
        BY <2>2
      <4>. QED
        BY <1>i, <2>8, <4>1, NextInLine
    <3>5. LastSeen(u) = (IF len = 0 THEN lastRead[u] ELSE q[len]) /\ LastSeen(u) \in Nat
      BY <2>3, LastOfQueue
    <3>6. pc[u] = "streaming" => Complete(u)
      BY <1>i
    <3>7. ASSUME NEW m, m <= LastSeen(u), m \in Int
          PROVE  m <= e.n
      BY <2>2, <2>3, <3>2, <3>5, <3>7
    <3>. HIDE DEF q, w, len, tn
    <3>8. \A k \in 1 .. Len(w) :
             \/ k = len - d + 1 /\ w[k] = e.n
             \/ k \in 1 .. len - d /\ w[k] = q[k + d] /\ k + d \in 1 .. len
      BY <2>3, <3>1
    <3>9. \A k \in 1 .. Len(w) : lastRead[u] < w[k] /\ w[k] <= pub[tn] /\ w[k] \in Nat
      BY <2>2, <2>3, <2>4, <3>2, <3>8
    <3>10. \A k \in 1 .. Len(w) : \A j \in k + 1 .. Len(w) : w[k] < w[j]
      <4>1. SUFFICES ASSUME NEW k \in 1 .. Len(w), NEW j \in k + 1 .. Len(w)
                     PROVE  w[k] < w[j]
        OBVIOUS
      <4>2. k \in 1 .. len - d /\ w[k] = q[k + d] /\ k + d \in 1 .. len /\ j \in 1 .. Len(w)
        BY <2>3, <3>1, <3>8, <4>1
      <4>3. CASE j = len - d + 1
        BY <3>1, <3>2, <4>2, <4>3
      <4>4. CASE j # len - d + 1
        <5>1. w[j] = q[j + d] /\ j + d \in k + d + 1 .. len
          BY <2>3, <3>1, <3>8, <4>2, <4>4
        <5>. QED
          BY <2>4, <4>2, <5>1
      <4>. QED
        BY <4>3, <4>4
    <3>11. Ordered(u)'
      BY <2>1, <2>4, <3>9, <3>10 DEF Ordered, w, tn
    <3>12. ASSUME pc[u] = "streaming"
           PROVE  Complete(u)'
      <4>1. /\ \A k \in 1 .. len - 1 : q[k + 1] <= Max2(q[k], joined[u]) + 1
            /\ q # <<>> /\ q[1] > Max2(lastRead[u], joined[u]) + 1 => len = QueueMax
            /\ \A m \in joined[u] + 1 .. pub[tn] : m <= LastSeen(u) \/ OnTheWay(tn, m)
        BY <3>6, <3>12 DEF Complete, q, len, tn
      <4>2. \A k \in 1 .. Len(w) - 1 : w[k + 1] <= Max2(w[k], joined[u]) + 1
        <5>1. SUFFICES ASSUME NEW k \in 1 .. Len(w) - 1
                       PROVE  w[k + 1] <= Max2(w[k], joined[u]) + 1
          OBVIOUS
        <5>2. k \in 1 .. len - d /\ w[k] = q[k + d] /\ k + d \in 1 .. len /\ k + 1 \in 1 .. Len(w)
          BY <2>3, <3>1, <3>8
        <5>3. CASE k = len - d
          <6>1. w[k + 1] = e.n /\ w[k] = q[len] /\ len > 0 /\ LastSeen(u) = q[len]
            BY <2>3, <3>1, <3>5, <5>2, <5>3
          <6>. QED
            BY <3>4, <3>12, <6>1
        <5>4. CASE k # len - d
          <6>1. k + 1 \in 1 .. len - d /\ k + d \in 1 .. len - 1
            <7>1. k \in Int /\ len \in Int /\ 1 <= k /\ k < len - d /\ (d = 0 \/ d = 1)
              BY <2>3, <5>2, <5>4
            <7>. QED
              BY <7>1
          <6>2. w[k + 1] = q[k + 1 + d] /\ k + 1 + d = k + d + 1
            BY <2>3, <3>1, <6>1
          <6>3. q[k + d + 1] <= Max2(q[k + d], joined[u]) + 1
            BY <4>1, <6>1
          <6>. QED
            BY <5>2, <6>2, <6>3
        <5>. QED
          BY <5>3, <5>4
      <4>3. w[1] > Max2(lastRead[u], joined[u]) + 1 => Len(w) = QueueMax
        <5>1. CASE d = 1
          BY <2>3, <3>1, <5>1
        <5>2. CASE d = 0 /\ len = 0
          <6>1. w[1] = e.n /\ LastSeen(u) = lastRead[u]
            BY <3>1, <3>5, <5>2
          <6>2. Max2(lastRead[u], joined[u]) \in Nat
            BY <2>3 DEF Max2
          <6>. QED
            BY <2>2, <3>4, <3>12, <6>1, <6>2
        <5>3. CASE d = 0 /\ len > 0
          <6>1. w[1] = q[1] /\ q # <<>> /\ len < QueueMax
            BY <2>3, <3>1, <5>3 DEF len
          <6>. QED
            BY <2>3, <4>1, <6>1
        <5>. QED
          BY <2>3, <5>1, <5>2, <5>3
      <4>4. ASSUME NEW m \in joined[u] + 1 .. pub[tn]
            PROVE  m <= e.n \/ OnTheWay(tn, m)'
        <5>1. CASE m <= LastSeen(u)
          BY <3>7, <5>1
        <5>2. CASE e = [tenant |-> tn, n |-> m]
          <6>1. e.n = m
            BY <5>2
          <6>. QED
            BY <2>2, <6>1
        <5>3. CASE OnTheWay(tn, m) /\ e # [tenant |-> tn, n |-> m]
          BY <2>5, <3>12, <5>3
        <5>. QED
          BY <4>1, <5>1, <5>2, <5>3
      <4>. QED
        BY <2>1, <3>3, <4>2, <4>3, <4>4 DEF Complete, w, tn
    <3>. QED
      BY <2>1, <3>11, <3>12
  <2>. QED
    BY <1>5, <2>6, <2>7, <2>8, DispatchEffect
<1>. QED
  BY <1>1, <1>2, <1>3, <1>4, <1>5, EventSteps

-----------------------------------------------------------------------------
(* Nobody is connected, nothing runs and nothing was notified at first.    *)
LEMMA FanoutInit == Init => TypeOK /\ FanoutInv
<1>. SUFFICES ASSUME Init PROVE TypeOK /\ FanoutInv
  OBVIOUS
<1>1. Cardinality(Sockets) \in Nat /\ MaxEvents \in Nat /\ QueueMax \in Nat /\ None \notin TaskIds
  BY FanoutAssumption, FS_CardinalityType DEF TaskIds
<1>2. TypeOK
  <2>1. inflight \in [TaskIds -> Seq(Events)] /\ queue \in [Sockets -> Seq(1 .. MaxEvents)]
        /\ \A s \in Sockets : Len(queue[s]) = 0
    BY DEF Init
  <2>2. DOMAIN subscribers = {} /\ subscribers \in [DOMAIN subscribers -> SUBSET Sockets]
    BY DEF Init
  <2>3. faults \in [setup : Nat, lost : Nat, cleanup : Nat]
    BY DEF Init
  <2>4. /\ task \in TaskIds \cup {None} /\ pool \in BOOLEAN /\ readySet \in BOOLEAN
        /\ ready \in EventIds /\ spawned \in EventIds
        /\ cancelling \subseteq TaskIds /\ lost \subseteq TaskIds
    BY DEF Init, EventIds
  <2>5. /\ sup \in [TaskIds -> SupStates] /\ outcome \in [TaskIds -> {"none", "cancel", "error"}]
        /\ pc \in [Sockets -> {"connecting", "waiting", "woken", "streaming", "draining", "closed"}]
        /\ mine \in [Sockets -> TaskIds \cup {None}] /\ waitsOn \in [Sockets -> EventIds]
    BY DEF Init, EventIds, SupStates
  <2>6. /\ attempts \in [Sockets -> 0 .. 2] /\ pub \in [Tenants -> 0 .. MaxEvents]
        /\ joined \in [Sockets -> 0 .. MaxEvents] /\ lastRead \in [Sockets -> 0 .. MaxEvents]
    BY <1>1 DEF Init
  <2>7. DOMAIN subscribers \subseteq Tenants /\ \A s \in Sockets : Len(queue[s]) <= QueueMax
    BY <1>1, <2>1, <2>2
  <2>. QED
    BY <2>1, <2>2, <2>3, <2>4, <2>5, <2>6, <2>7 DEF TypeOK
<1>3. AttemptInv
  <2>1. Tried \subseteq Sockets \X {1, 2}
    BY DEF Tried
  <2>2. IsFiniteSet(Sockets \X {1, 2})
    BY TwoTries, FS_Product, FanoutAssumption
  <2>3. Cardinality(Tried) \in Nat
    BY <2>1, <2>2, FS_Subset, FS_CardinalityType
  <2>. QED
    BY <2>3 DEF Init, AttemptInv
<1>4. SupervisorInv
  BY <1>1 DEF Init, SupervisorInv, CurrentTaskAlive, TaskIds
<1>5. SocketInv
  BY DEF Init, SocketInv
<1>6. OwnedInv
  BY <1>1 DEF Init, OwnedInv, Working, Listening, Done
<1>7. (\A t \in TaskIds : inflight[t] = <<>> /\ Len(inflight[t]) = 0)
      /\ \A s \in Sockets : Len(queue[s]) = 0
  BY DEF Init
<1>8. FlightInv
  BY <1>7 DEF FlightInv
<1>9. ASSUME NEW s \in Sockets
      PROVE  Ordered(s) /\ pc[s] # "streaming"
  <2>1. joined[s] = 0 /\ lastRead[s] = 0 /\ pub[TenantOf[s]] = 0 /\ pc[s] = "connecting"
    BY FanoutAssumption DEF Init
  <2>. QED
    BY <1>7, <2>1 DEF Ordered
<1>10. QueueInv
  BY <1>9 DEF QueueInv
<1>. QED
  BY <1>2, <1>3, <1>4, <1>5, <1>6, <1>8, <1>10 DEF FanoutInv, LifeInv

(* The strengthened invariant is inductive: what is in flight and in the   *)
(* queues is sound because one supervisor listens, which holds because a   *)
(* supervisor at work is the current one or about to be cancelled, which   *)
(* nothing but a lost connection or a failed release can change.           *)
THEOREM FanoutInvariant == Spec => [](TypeOK /\ FanoutInv)
<1>1. TypeOK /\ FanoutInv /\ [Next]_vars => (TypeOK /\ FanoutInv)'
  <2>. SUFFICES ASSUME TypeOK, FanoutInv, [Next]_vars
                PROVE  TypeOK' /\ FanoutInv'
    OBVIOUS
  <2>1. LifeInv /\ SocketInv
    BY DEF FanoutInv
  <2>2. TypeOK' /\ LifeInv' /\ SocketInv'
    BY <2>1, TypeStep, AttemptsStep, SupervisorsStep, SocketsStep DEF LifeInv
  <2>3. ASSUME Unbroken'
        PROVE  OwnedInv' /\ FlightInv' /\ QueueInv'
    <3>1. OwnedInv /\ FlightInv /\ QueueInv
      BY <2>3, StillUnbroken DEF FanoutInv
    <3>. QED
      BY <2>1, <2>2, <2>3, <3>1, OwnersStep, FlightStep, QueueStep
  <2>. QED
    BY <2>2, <2>3 DEF FanoutInv
<1>. QED
  BY <1>1, FanoutInit, PTL DEF Spec

(* Every variable keeps the type _PubSubFanout.__init__ gives it, and no   *)
(* queue grows beyond QUEUE_MAX_SIZE.                                      *)
THEOREM FanoutTypeCorrect == Spec => []TypeOK
BY FanoutInvariant, PTL

(* Whoever finds self._task set finds a live task, whatever was lost and   *)
(* whatever failed (ws_fanout.py 120-127, 147-158).                        *)
THEOREM CurrentTaskAliveHolds == Spec => []CurrentTaskAlive
<1>1. FanoutInv => CurrentTaskAlive
  BY DEF FanoutInv, LifeInv, SupervisorInv
<1>. QED
  BY <1>1, FanoutInvariant, PTL

(* At most one LISTEN session feeds _dispatch, whatever fails during setup *)
(* (ws_fanout.py 12-14).                                                   *)
THEOREM OneListenerHolds == Spec => []OneListener
<1>1. FanoutInv => OneListener
  BY DEF FanoutInv, OneListener, OwnedInv, Unbroken
<1>. QED
  BY <1>1, FanoutInvariant, PTL

(* As long as no connection is lost and every one is given back, a socket  *)
(* gets what was notified since it joined in order and once (_dispatch,    *)
(* ws_fanout.py 95-106).                                                   *)
THEOREM InOrderOnceHolds == Spec => [](Unbroken => InOrderOnce)
<1>1. ASSUME TypeOK, FanoutInv, Unbroken
      PROVE  InOrderOnce
  <2>. SUFFICES ASSUME NEW s \in Sockets, pc[s] = "streaming"
                PROVE  /\ \A i \in 1 .. Len(queue[s]) - 1 :
                             /\ queue[s][i] < queue[s][i + 1]
                             /\ queue[s][i + 1] <= Max2(queue[s][i], joined[s]) + 1
                       /\ queue[s] # <<>> => Head(queue[s]) > lastRead[s]
    BY DEF InOrderOnce
  <2>1. Ordered(s) /\ Complete(s)
    BY <1>1 DEF FanoutInv, QueueInv
  <2>2. queue[s] \in Seq(Nat) /\ Len(queue[s]) \in Nat /\ lastRead[s] \in Nat
        /\ \A k \in 1 .. Len(queue[s]) : queue[s][k] \in Nat
    BY <1>1, EventTypes
  <2>3. ASSUME NEW i \in 1 .. Len(queue[s]) - 1
        PROVE  queue[s][i] < queue[s][i + 1]
    <3>1. i \in 1 .. Len(queue[s]) /\ i + 1 \in i + 1 .. Len(queue[s])
      BY <2>2
    <3>. QED
      BY <2>1, <3>1 DEF Ordered
  <2>4. ASSUME queue[s] # <<>>
        PROVE  Head(queue[s]) > lastRead[s]
    <3>1. 1 \in 1 .. Len(queue[s]) /\ Head(queue[s]) = queue[s][1]
      BY <2>2, <2>4
    <3>. QED
      BY <2>1, <2>2, <3>1 DEF Ordered
  <2>. QED
    BY <2>1, <2>3, <2>4 DEF Complete
<1>. QED
  BY <1>1, FanoutInvariant, PTL

(* As long as no connection is lost and every one is given back, the last  *)
(* event of its tenant since it joined is in the socket's queue, was sent  *)
(* or is on its way (ws_fanout.py 196-197).                                *)
THEOREM NothingMissedHolds == Spec => [](Unbroken => NothingMissed)
<1>1. ASSUME TypeOK, FanoutInv, Unbroken
      PROVE  NothingMissed
  <2>. SUFFICES ASSUME NEW s \in Sockets, pc[s] = "streaming", pub[TenantOf[s]] > joined[s]
                PROVE  \/ LastSeen(s) = pub[TenantOf[s]]
                       \/ \E t \in TaskIds : \E i \in DOMAIN inflight[t] :
                             inflight[t][i] = [tenant |-> TenantOf[s], n |-> pub[TenantOf[s]]]
    BY DEF NothingMissed
  <2>. DEFINE latest == pub[TenantOf[s]]
  <2>1. Ordered(s) /\ Complete(s)
    BY <1>1 DEF FanoutInv, QueueInv
  <2>2. joined[s] \in Nat /\ latest \in Nat /\ LastSeen(s) \in Nat /\ Len(queue[s]) \in Nat
    BY <1>1, EventTypes, LastOfQueue
  <2>3. latest <= LastSeen(s) \/ OnTheWay(TenantOf[s], latest)
    <3>1. latest \in joined[s] + 1 .. pub[TenantOf[s]]
      BY <2>2
    <3>. QED
      BY <2>1, <3>1 DEF Complete
  <2>4. LastSeen(s) <= latest
    <3>1. CASE Len(queue[s]) = 0
      BY <1>1, <2>1, <3>1, LastOfQueue DEF Ordered
    <3>2. CASE Len(queue[s]) > 0
      <4>1. Len(queue[s]) \in 1 .. Len(queue[s])
        BY <2>2, <3>2
      <4>. QED
        BY <1>1, <2>1, <3>2, <4>1, LastOfQueue DEF Ordered
    <3>. QED
      BY <2>2, <3>1, <3>2
  <2>5. ASSUME NEW t \in TaskIds
        PROVE  DOMAIN inflight[t] = 1 .. Len(inflight[t])
    <3>1. inflight[t] \in Seq(Events)
      BY <1>1, EventTypes
    <3>. QED
      BY <3>1
  <2>. QED
    BY <2>2, <2>3, <2>4, <2>5 DEF OnTheWay
<1>. QED
  BY <1>1, FanoutInvariant, PTL

(* As long as no connection is lost and every one is given back, a client  *)
(* sees a gap only when its queue is full (ws_fanout.py 22-24).            *)
THEOREM GapOnlyWhenFullHolds == Spec => [](Unbroken => GapOnlyWhenFull)
<1>1. ASSUME TypeOK, FanoutInv, Unbroken
      PROVE  GapOnlyWhenFull
  <2>. SUFFICES ASSUME NEW s \in Sockets, pc[s] = "streaming", queue[s] # <<>>,
                       Head(queue[s]) > Max2(lastRead[s], joined[s]) + 1
                PROVE  Len(queue[s]) = QueueMax
    BY DEF GapOnlyWhenFull
  <2>1. Complete(s)
    BY <1>1 DEF FanoutInv, QueueInv
  <2>2. queue[s] \in Seq(Nat) /\ Head(queue[s]) = queue[s][1]
    BY <1>1, EventTypes
  <2>. QED
    BY <2>1, <2>2 DEF Complete
<1>. QED
  BY <1>1, FanoutInvariant, PTL
=============================================================================
