-------------------------- MODULE DispatcherProofs --------------------------
(***************************************************************************)
(* Proofs about the circuit breaker of Dispatcher, for any number of       *)
(* concurrent dispatches, any chains, and any threshold, window, cooldown. *)
(***************************************************************************)
EXTENDS Dispatcher, TLAPS

(* What the deque of a breaker is after an append (dispatcher.py 77, 126). *)
LEMMA PushType ==
    ASSUME NEW f \in Seq(Nat), Len(f) <= Threshold, NEW stamp \in Nat
    PROVE  /\ Push(f, stamp) \in Seq(Nat)
           /\ Len(Push(f, stamp)) <= Threshold
           /\ Len(Push(f, stamp)) <= Len(f) + 1
  <1>1. CASE Len(f) < Threshold
    BY <1>1, ConstantsAssumption DEF Push
  <1>2. CASE Len(f) >= Threshold
    <2>1. f # <<>>
      BY <1>2, ConstantsAssumption
    <2>2. Tail(f) \in Seq(Nat) /\ Len(Tail(f)) = Len(f) - 1
      BY <2>1
    <2>3. Push(f, stamp) = Append(Tail(f), stamp)
      BY <1>2, ConstantsAssumption DEF Push
    <2> QED  BY <2>2, <2>3
  <1> QED  BY <1>1, <1>2, ConstantsAssumption

(* A call in progress uses a provider of its chain. *)
LEMMA CurrentType ==
    ASSUME CallsOK, NEW c \in Calls, pc[c] = "calling"
    PROVE  /\ Current(c) \in Providers
           /\ next[c] \in Nat
           /\ next[c] - 1 \in Nat
           /\ next[c] - 2 \in Nat
  <1>1. Chain(c) \in Seq(Providers) /\ Len(Chain(c)) \in Nat
    BY ConstantsAssumption DEF Chain
  <1>2. next[c] \in Nat /\ next[c] \in 1 .. Len(Chain(c)) + 1
    BY DEF CallsOK
  <1>3. next[c] > 1
    <2>1. pc[c] \notin {"new", "unavailable"}
      OBVIOUS
    <2> QED  BY <2>1, Zenon DEF CallsOK
  <1> QED  BY <1>1, <1>2, <1>3 DEF Current

(* Recording a failure keeps the types of the breakers. *)
LEMMA FailureType ==
    ASSUME BreakersOK, clock \in Nat, NEW p \in Providers, NEW stamp \in Nat,
           RecordFailure(p, stamp)
    PROVE  BreakersOK'
  <1>1. Push(failures[p], stamp) \in Seq(Nat) /\ Len(Push(failures[p], stamp)) <= Threshold
    BY PushType DEF BreakersOK
  <1>2. failures' = [failures EXCEPT ![p] = Push(failures[p], stamp)]
    BY DEF RecordFailure
  <1>3. failures' \in [Providers -> Seq(Nat)] /\ \A x \in Providers : Len(failures'[x]) <= Threshold
    BY <1>1, <1>2 DEF BreakersOK
  <1>4. openedAt' \in [Providers -> Nat \cup {None}]
    BY DEF RecordFailure, BreakersOK
  <1>5. Push(failedAt[p], clock) \in Seq(Nat) /\ Len(Push(failedAt[p], clock)) <= Threshold
    BY PushType DEF BreakersOK
  <1>6. failedAt' = [failedAt EXCEPT ![p] = Push(failedAt[p], clock)]
    BY DEF RecordFailure
  <1>7. failedAt' \in [Providers -> Seq(Nat)] /\ \A x \in Providers : Len(failedAt'[x]) <= Threshold
    BY <1>5, <1>6 DEF BreakersOK
  <1>8. /\ streak' \in [Providers -> Nat]
        /\ lastFail' \in [Providers -> Nat]
    BY DEF RecordFailure, BreakersOK
  <1> QED  BY <1>3, <1>4, <1>8, <1>7 DEF BreakersOK

(* So does clearing one. *)
LEMMA ClearType ==
    ASSUME BreakersOK, NEW p \in Providers, Clear(p)
    PROVE  BreakersOK'
  BY ConstantsAssumption DEF Clear, BreakersOK

(* Every variable keeps its type (dispatcher.py 74-85, 246-256). *)
THEOREM TypeCorrect == Spec => []TypeOK
  <1>1. Init => TypeOK
    <2> SUFFICES ASSUME Init PROVE TypeOK
      OBVIOUS
    <2>1. \A c \in Calls : Len(Chain(c)) \in Nat
      BY ConstantsAssumption DEF Chain
    <2>2. BreakersOK /\ clock \in Nat
      BY ConstantsAssumption DEF Init, BreakersOK
    <2>3. CallsOK
      BY <2>1 DEF Init, CallsOK, Ended
    <2> QED  BY <2>2, <2>3 DEF TypeOK
  <1>2. TypeOK /\ [Next]_vars => TypeOK'
    <2> SUFFICES ASSUME TypeOK, [Next]_vars PROVE TypeOK'
      OBVIOUS
    <2> USE DEF TypeOK
    <2>b. UNCHANGED breakers => BreakersOK'
      BY DEF breakers, BreakersOK
    <2>c. UNCHANGED calls => CallsOK'
      BY DEF calls, CallsOK, Chain, Ended
    <2>1. CASE UNCHANGED vars
      BY <2>1, <2>b, <2>c DEF vars
    <2>2. CASE Tick
      BY <2>2, <2>b, <2>c DEF Tick
    <2>3. ASSUME NEW c \in Calls, NEW i \in Indexes(c), Call(c, i)
          PROVE  TypeOK'
      <3>1. /\ Chain(c) \in Seq(Providers) /\ Len(Chain(c)) \in Nat
            /\ i \in Nat /\ 1 <= i /\ i <= Len(Chain(c))
            /\ Chain(c)[i] \in Providers
        BY ConstantsAssumption DEF Chain, Indexes
      <3>2. BreakersOK'
        <4>1. ResetIfExpired(Chain(c)[i])
          BY <2>3 DEF Call
        <4> QED  BY <4>1, <2>b, <3>1, ClearType DEF ResetIfExpired
      <3>3. next' = [next EXCEPT ![c] = i + 1] /\ pc' = [pc EXCEPT ![c] = "calling"]
        BY <2>3 DEF Call
      <3>4. /\ next' \in [Calls -> Nat]
            /\ \A d \in Calls : next'[d] \in 1 .. Len(Chain(d)) + 1
            /\ \A d \in Calls : pc'[d] \notin {"new", "unavailable"} => next'[d] > 1
        BY <3>1, <3>3 DEF CallsOK
      <3>5. /\ pc' \in [Calls -> {"new", "calling", "backoff"} \cup Ended]
            /\ started' \in [Calls -> Nat]
            /\ clock' \in Nat
        BY <2>3, <3>3 DEF Call, CallsOK
      <3>6. skipped' \in [Calls -> SUBSET Nat]
        <4>1. skipped' = [skipped EXCEPT ![c] = @ \cup (next[c] .. i - 1)]
          BY <2>3 DEF Call
        <4>2. next[c] .. i - 1 \in SUBSET Nat
          BY <3>1 DEF CallsOK
        <4> QED  BY <4>1, <4>2 DEF CallsOK
      <3>7. failed' = failed /\ audits' = audits
        BY <2>3 DEF Call
      <3>8. CallsOK'
        BY <3>4, <3>5, <3>6, <3>7 DEF CallsOK, Chain, Ended
      <3> QED  BY <3>2, <3>5, <3>8
    <2>4. ASSUME NEW c \in Calls, Exhausted(c)
          PROVE  TypeOK'
      <3>1. Len(Chain(c)) \in Nat
        BY ConstantsAssumption DEF Chain
      <3>2. next[c] .. Len(Chain(c)) \in SUBSET Nat
        BY <3>1 DEF CallsOK
      <3>3. skipped' \in [Calls -> SUBSET Nat]
        BY <2>4, <3>2 DEF Exhausted, CallsOK
      <3>4. audits' \in [Calls -> Seq(AuditRows)]
        <4>1. [used |-> None, depth |-> Len(Chain(c)), success |-> FALSE] \in AuditRows
          BY <3>1 DEF AuditRows
        <4> QED  BY <2>4, <4>1 DEF Exhausted, Audit, CallsOK
      <3>5. CallsOK'
        BY <2>4, <3>3, <3>4 DEF Exhausted, CallsOK, Ended, Chain
      <3> QED  BY <2>4, <2>b, <3>5 DEF Exhausted
    <2>5. ASSUME NEW c \in Calls, Succeeds(c) \/ ContentRejected(c)
          PROVE  TypeOK'
      <3>1. pc[c] = "calling"
        BY <2>5 DEF Succeeds, ContentRejected
      <3>2. Current(c) \in Providers /\ next[c] - 2 \in Nat /\ next[c] > 1
        BY <3>1, CurrentType DEF CallsOK
      <3>3. BreakersOK'
        BY <2>5, <3>2, ClearType DEF Succeeds, ContentRejected, RecordSuccess
      <3>4. audits' \in [Calls -> Seq(AuditRows)]
        <4>1. \A b \in BOOLEAN :
                [used |-> Current(c), depth |-> next[c] - 2, success |-> b] \in AuditRows
          BY <3>2 DEF AuditRows
        <4>2. PICK row \in AuditRows : audits' = [audits EXCEPT ![c] = Append(@, row)]
          BY <2>5, <4>1 DEF Succeeds, ContentRejected, Audit
        <4> QED  BY <4>2 DEF CallsOK
      <3>5. CallsOK'
        BY <2>5, <3>2, <3>4 DEF Succeeds, ContentRejected, CallsOK, Ended, Chain
      <3> QED  BY <2>5, <3>3, <3>5 DEF Succeeds, ContentRejected
    <2>6. ASSUME NEW c \in Calls, RetryableError(c)
          PROVE  TypeOK'
      <3>1. pc[c] = "calling" /\ RecordFailure(Current(c), started[c])
        BY <2>6 DEF RetryableError
      <3>2. Current(c) \in Providers /\ next[c] - 1 \in Nat /\ next[c] > 1
            /\ Len(Chain(c)) \in Nat
        BY <3>1, CurrentType, ConstantsAssumption DEF Chain, CallsOK
      <3>3. BreakersOK'
        BY <3>1, <3>2, FailureType DEF CallsOK
      <3>4. audits' \in [Calls -> Seq(AuditRows)]
        <4>1. [used |-> None, depth |-> Len(Chain(c)), success |-> FALSE] \in AuditRows
          BY <3>2 DEF AuditRows
        <4>2. \/ audits' = audits
              \/ \E row \in AuditRows : audits' = [audits EXCEPT ![c] = Append(@, row)]
          BY <2>6, <4>1 DEF RetryableError, Audit
        <4>3. CASE audits' = audits
          BY <4>3 DEF CallsOK
        <4>4. ASSUME NEW row \in AuditRows, audits' = [audits EXCEPT ![c] = Append(@, row)]
              PROVE  audits' \in [Calls -> Seq(AuditRows)]
          BY <4>4 DEF CallsOK
        <4> QED  BY <4>2, <4>3, <4>4
      <3>5. failed' \in [Calls -> SUBSET Nat]
        BY <2>6, <3>2 DEF RetryableError, CallsOK
      <3>6. CallsOK'
        BY <2>6, <3>2, <3>4, <3>5 DEF RetryableError, CallsOK, Ended, Chain
      <3> QED  BY <2>6, <3>3, <3>6 DEF RetryableError
    <2>7. ASSUME NEW c \in Calls, OtherError(c)
          PROVE  TypeOK'
      <3>1. CallsOK'
        BY <2>7 DEF OtherError, CallsOK, Ended, Chain
      <3> QED  BY <2>7, <2>b, <3>1 DEF OtherError
    <2> QED  BY <2>1, <2>2, <2>3, <2>4, <2>5, <2>6, <2>7 DEF Next, Answer
  <1> QED  BY <1>1, <1>2, PTL DEF Spec

-----------------------------------------------------------------------------
(***************************************************************************)
(* The strengthening: the deque holds no more stamps than failures in a    *)
(* row, no stamp is in the future, and an opened_at is not later than the  *)
(* last failure.                                                           *)
(***************************************************************************)
BreakerInv ==
    /\ \A p \in Providers :
        /\ Len(failures[p]) <= streak[p]
        /\ lastFail[p] <= clock
        /\ openedAt[p] # None =>
            /\ streak[p] >= Threshold
            /\ openedAt[p] <= lastFail[p]
    /\ \A c \in Calls : started[c] <= clock

(* The breaker's bookkeeping is never wrong about the failures it counted  *)
(* (dispatcher.py 111-144, 255-310).                                       *)
THEOREM BreakerInvariant == Spec => []BreakerInv
  <1>1. Init => BreakerInv
    BY ConstantsAssumption DEF Init, BreakerInv
  <1>2. TypeOK /\ BreakerInv /\ [Next]_vars => BreakerInv'
    <2> SUFFICES ASSUME TypeOK, BreakerInv, [Next]_vars PROVE BreakerInv'
      OBVIOUS
    <2>c. ASSUME NEW p \in Providers, Clear(p), started' = started, clock' = clock
          PROVE  BreakerInv'
      BY <2>c, ConstantsAssumption DEF Clear, TypeOK, BreakersOK, BreakerInv
    <2>1. CASE UNCHANGED vars
      BY <2>1 DEF vars, breakers, calls, BreakerInv
    <2>2. CASE Tick
      BY <2>2 DEF Tick, breakers, calls, TypeOK, BreakersOK, CallsOK, BreakerInv
    <2>3. ASSUME NEW c \in Calls, NEW i \in Indexes(c), Call(c, i)
          PROVE  BreakerInv'
      <3>1. Chain(c)[i] \in Providers
        BY ConstantsAssumption DEF Chain, Indexes
      <3>2. \A d \in Calls : started'[d] <= clock'
        BY <2>3 DEF Call, TypeOK, CallsOK, BreakerInv
      <3>3. CASE openedAt[Chain(c)[i]] # None
        <4>1. Clear(Chain(c)[i])
          BY <3>3, <2>3 DEF Call, ResetIfExpired
        <4>2. \A p \in Providers : /\ Len(failures'[p]) <= streak'[p]
                                   /\ openedAt'[p] # None => openedAt[p] # None /\ openedAt'[p] = openedAt[p]
                                   /\ openedAt'[p] # None => streak'[p] = streak[p]
                                   /\ lastFail'[p] = lastFail[p]
          BY <4>1, <3>1 DEF Clear, TypeOK, BreakersOK, BreakerInv
        <4>3. clock' = clock
          BY <2>3 DEF Call
        <4> QED  BY <4>2, <4>3, <3>2 DEF BreakerInv
      <3>4. CASE openedAt[Chain(c)[i]] = None
        BY <3>4, <3>2, <2>3 DEF Call, ResetIfExpired, breakers, BreakerInv
      <3> QED  BY <3>3, <3>4
    <2>4. ASSUME NEW c \in Calls, Exhausted(c) \/ OtherError(c)
          PROVE  BreakerInv'
      BY <2>4 DEF Exhausted, OtherError, breakers, BreakerInv
    <2>5. ASSUME NEW c \in Calls, Succeeds(c) \/ ContentRejected(c)
          PROVE  BreakerInv'
      <3>1. Current(c) \in Providers
        BY <2>5, CurrentType DEF Succeeds, ContentRejected, TypeOK
      <3> QED  BY <2>5, <3>1, <2>c DEF Succeeds, ContentRejected, RecordSuccess
    <2>6. ASSUME NEW c \in Calls, RetryableError(c)
          PROVE  BreakerInv'
      <3> DEFINE p == Current(c)
                 f == Push(failures[p], started[c])
      <3>1. p \in Providers
        BY <2>6, CurrentType DEF RetryableError, TypeOK
      <3>2. RecordFailure(p, started[c]) /\ started' = started /\ clock' = clock
        BY <2>6 DEF RetryableError
      <3>3. f \in Seq(Nat) /\ Len(f) \in Nat /\ Len(f) <= Len(failures[p]) + 1
        BY <3>1, PushType DEF TypeOK, BreakersOK, CallsOK
      <3>4. failures' = [failures EXCEPT ![p] = f] /\ streak' = [streak EXCEPT ![p] = @ + 1]
        BY <3>2 DEF RecordFailure
      <3>5. \A x \in Providers : Len(failures'[x]) <= streak'[x]
        <4> SUFFICES ASSUME NEW x \in Providers PROVE Len(failures'[x]) <= streak'[x]
          OBVIOUS
        <4>1. streak[p] \in Nat /\ Len(failures[p]) \in Nat /\ Len(failures[p]) <= streak[p]
          BY <3>1 DEF TypeOK, BreakersOK, CallsOK, BreakerInv
        <4>2. CASE x = p
          BY <4>1, <4>2, <3>1, <3>3, <3>4 DEF TypeOK, BreakersOK
        <4>3. CASE x # p
          BY <4>3, <3>4 DEF TypeOK, BreakersOK, CallsOK, BreakerInv
        <4> QED  BY <4>2, <4>3
      <3>6. \A x \in Providers : openedAt'[x] # None =>
                streak'[x] >= Threshold /\ openedAt'[x] <= lastFail'[x]
        <4> SUFFICES ASSUME NEW x \in Providers, openedAt'[x] # None
                     PROVE  streak'[x] >= Threshold /\ openedAt'[x] <= lastFail'[x]
          OBVIOUS
        <4>1. CASE x # p
          BY <4>1, <3>1, <3>2 DEF RecordFailure, TypeOK, BreakersOK, CallsOK, BreakerInv
        <4>2. CASE x = p
          <5>1. lastFail'[p] = clock /\ clock \in Nat /\ streak[p] \in Nat /\ streak'[p] = streak[p] + 1
            BY <3>1, <3>2 DEF RecordFailure, TypeOK, BreakersOK
          <5>2. CASE openedAt' = [openedAt EXCEPT ![p] = started[c]] /\ Len(f) >= Threshold
            <6>1. Len(failures[p]) \in Nat /\ Len(failures[p]) <= streak[p]
              BY <3>1 DEF TypeOK, BreakersOK, CallsOK, BreakerInv
            <6>2. openedAt'[p] = started[c] /\ started[c] <= clock
              BY <5>2, <3>1 DEF TypeOK, BreakersOK, CallsOK, BreakerInv
            <6> QED  BY <4>2, <5>1, <5>2, <6>1, <6>2, <3>3, ConstantsAssumption
          <5>3. CASE openedAt' = openedAt
            <6>1. streak[p] >= Threshold
              BY <4>2, <5>3, <3>1 DEF BreakerInv
            <6>2. openedAt[p] \in Nat /\ openedAt[p] <= lastFail[p]
              BY <4>2, <5>3, <3>1 DEF TypeOK, BreakersOK, CallsOK, BreakerInv
            <6>3. openedAt[p] <= clock
              BY <6>2, <5>1, <3>1 DEF TypeOK, BreakersOK, BreakerInv
            <6> QED  BY <4>2, <5>1, <5>3, <6>1, <6>2, <6>3, ConstantsAssumption
          <5>4. \/ openedAt' = openedAt
                \/ openedAt' = [openedAt EXCEPT ![p] = started[c]] /\ Len(f) >= Threshold
            BY <3>2 DEF RecordFailure
          <5> QED  BY <5>2, <5>3, <5>4
        <4> QED  BY <4>1, <4>2
      <3>7. \A x \in Providers : lastFail'[x] <= clock'
        BY <3>1, <3>2 DEF RecordFailure, TypeOK, BreakersOK, BreakerInv
      <3>8. \A d \in Calls : started'[d] <= clock'
        BY <3>2 DEF BreakerInv
      <3> QED  BY <3>5, <3>6, <3>7, <3>8 DEF BreakerInv
    <2> QED  BY <2>1, <2>2, <2>3, <2>4, <2>5, <2>6 DEF Next, Answer
  <1> QED  BY <1>1, <1>2, TypeCorrect, PTL DEF Spec

(* No breaker is open after fewer than Threshold failures in a row, for    *)
(* any interleaving of concurrent dispatches (dispatcher.py 111-144).      *)
THEOREM OpenNeedsStreakHolds == Spec => []OpenNeedsStreak
  <1>1. BreakerInv => OpenNeedsStreak
    BY DEF BreakerInv, OpenNeedsStreak
  <1> QED  BY <1>1, BreakerInvariant, PTL

(* No provider is skipped a whole cooldown after it last failed, although  *)
(* opened_at comes from stamps read before slow calls (111-133, 256, 281). *)
THEOREM SkipOnlyDuringCooldownHolds == Spec => []SkipOnlyDuringCooldown
  <1>1. TypeOK /\ BreakerInv => SkipOnlyDuringCooldown
    <2> SUFFICES ASSUME TypeOK, BreakerInv, NEW p \in Providers, CircuitOpen(p)
                 PROVE  clock < lastFail[p] + Cooldown
      BY DEF SkipOnlyDuringCooldown
    <2>1. openedAt[p] \in Nat /\ clock < openedAt[p] + Cooldown /\ openedAt[p] <= lastFail[p]
      BY DEF CircuitOpen, TypeOK, BreakersOK, BreakerInv
    <2>2. lastFail[p] \in Nat /\ clock \in Nat /\ Cooldown \in Nat
      BY ConstantsAssumption DEF TypeOK, BreakersOK
    <2> QED  BY <2>1, <2>2
  <1> QED  BY <1>1, TypeCorrect, BreakerInvariant, PTL

-----------------------------------------------------------------------------
(*                  the walk down the chain and its audit                  *)

(* The indexes before `next` were tried or skipped, each once; the one a   *)
(* call uses is the last before `next` (dispatcher.py 255-322).            *)
WalkOf(c) ==
    /\ failed[c] \cap skipped[c] = {}
    /\ pc[c] \in {"new", "backoff"} => failed[c] \cup skipped[c] = 1 .. next[c] - 1
    /\ pc[c] \in {"calling", "returned", "rejected"} =>
            failed[c] \cup skipped[c] = 1 .. next[c] - 2
    /\ pc[c] = "unavailable" => failed[c] \cup skipped[c] = Indexes(c)

(* Nothing is audited before the end, and one row at it (270-278, 313-333).*)
AuditOf(c) ==
    /\ pc[c] \notin Ended \ {"raised"} => audits[c] = <<>>
    /\ pc[c] \in Ended \ {"raised"} =>
            /\ Len(audits[c]) = 1
            /\ audits[c][1].success <=> pc[c] = "returned"
            /\ pc[c] = "returned" =>
                    LET row == audits[c][1]
                    IN row.depth < Len(Chain(c)) /\ row.used = Chain(c)[row.depth + 1]

(* The walk and the audit rows of every call. *)
WalkInv == \A c \in Calls : WalkOf(c) /\ AuditOf(c)

(* Auditing adds one row to an empty list.                                 *)
LEMMA AuditOnce ==
    ASSUME CallsOK, NEW c \in Calls, audits[c] = <<>>, NEW row,
           audits' = [audits EXCEPT ![c] = Append(audits[c], row)]
    PROVE  audits'[c] = <<row>>
  <1>1. audits'[c] = Append(<<>>, row)
    BY DEF CallsOK
  <1> QED  BY <1>1

(* The walk of a dispatch is its own: no step of another one changes it.   *)
THEOREM WalkInvariant == Spec => []WalkInv
  <1>1. Init => WalkInv
    <2> SUFFICES ASSUME Init, NEW c \in Calls PROVE WalkOf(c) /\ AuditOf(c)
      BY DEF WalkInv
    <2> QED  BY DEF Init, WalkOf, AuditOf, Ended
  <1>2. TypeOK /\ WalkInv /\ [Next]_vars => WalkInv'
    <2> SUFFICES ASSUME TypeOK, WalkInv, [Next]_vars, NEW d \in Calls
                 PROVE  WalkOf(d)' /\ AuditOf(d)'
      BY DEF WalkInv
    <2>0. WalkOf(d) /\ AuditOf(d)
      BY DEF WalkInv
    <2>t. /\ Len(Chain(d)) \in Nat
          /\ next[d] \in Nat /\ next[d] \in 1 .. Len(Chain(d)) + 1
          /\ pc[d] \notin {"new", "unavailable"} => next[d] > 1
      BY ConstantsAssumption DEF Chain, TypeOK, CallsOK
    <2>a. CallsOK
      BY DEF TypeOK
    <2>1. CASE UNCHANGED calls
      BY <2>0, <2>1 DEF calls, WalkOf, AuditOf, Chain, Indexes
    <2>2. ASSUME NEW c \in Calls, NEW i \in Indexes(c), Call(c, i)
          PROVE  WalkOf(d)' /\ AuditOf(d)'
      <3>1. CASE c # d
        <4>1. /\ pc'[d] = pc[d] /\ next'[d] = next[d] /\ failed'[d] = failed[d]
              /\ skipped'[d] = skipped[d] /\ audits'[d] = audits[d]
          BY <2>2, <3>1 DEF Call, TypeOK, CallsOK
        <4> QED  BY <2>0, <4>1 DEF WalkOf, AuditOf, Chain, Indexes
      <3>2. CASE c = d
        <4>1. /\ pc[d] \in {"new", "backoff"} /\ pc'[d] = "calling" /\ next'[d] = i + 1
              /\ skipped'[d] = skipped[d] \cup (next[d] .. i - 1)
              /\ failed'[d] = failed[d] /\ audits'[d] = audits[d] /\ i >= next[d]
          BY <2>2, <3>2 DEF Call, Walking, TypeOK, CallsOK
        <4>2. i \in Nat
          BY <2>2, <3>2, <2>t DEF Indexes
        <4>3. WalkOf(d)'
          BY <2>0, <2>t, <4>1, <4>2 DEF WalkOf
        <4>4. AuditOf(d)'
          BY <2>0, <4>1 DEF AuditOf, Ended
        <4> QED  BY <4>3, <4>4
      <3> QED  BY <3>1, <3>2
    <2>3. ASSUME NEW c \in Calls, Exhausted(c) \/ Answer(c), c # d
          PROVE  WalkOf(d)' /\ AuditOf(d)'
      <3>1. /\ pc'[d] = pc[d] /\ next'[d] = next[d] /\ failed'[d] = failed[d]
            /\ skipped'[d] = skipped[d] /\ audits'[d] = audits[d]
        BY <2>3 DEF Exhausted, Answer, Succeeds, ContentRejected, RetryableError, OtherError,
                    Audit, TypeOK, CallsOK
      <3> QED  BY <2>0, <3>1 DEF WalkOf, AuditOf, Chain, Indexes
    <2>4. CASE Exhausted(d)
      <3>1. /\ pc[d] \in {"new", "backoff"} /\ pc'[d] = "unavailable"
            /\ skipped'[d] = skipped[d] \cup (next[d] .. Len(Chain(d)))
            /\ failed'[d] = failed[d] /\ next'[d] = next[d]
            /\ Audit(d, None, Len(Chain(d)), FALSE)
        BY <2>4 DEF Exhausted, Walking, TypeOK, CallsOK
      <3>2. WalkOf(d)'
        BY <2>0, <2>t, <3>1 DEF WalkOf, Indexes, Chain
      <3>3. audits[d] = <<>>
        BY <2>0, <3>1 DEF AuditOf, Ended
      <3>4. Len(audits'[d]) = 1 /\ ~audits'[d][1].success
        <4>1. audits' = [audits EXCEPT ![d] = Append(audits[d], [used |-> None, depth |-> Len(Chain(d)), success |-> FALSE])]
          BY <3>1, Zenon DEF Audit
        <4>2. audits'[d] = <<[used |-> None, depth |-> Len(Chain(d)), success |-> FALSE]>>
          BY <2>a, <3>3, <4>1, AuditOnce, Zenon
        <4> QED  BY <4>2
      <3>5. AuditOf(d)'
        BY <3>1, <3>4 DEF AuditOf, Ended
      <3> QED  BY <3>2, <3>5
    <2>5. CASE Succeeds(d)
      <3>1. /\ pc[d] = "calling" /\ pc'[d] = "returned" /\ skipped'[d] = skipped[d]
            /\ failed'[d] = failed[d] /\ next'[d] = next[d]
            /\ Audit(d, Current(d), next[d] - 2, TRUE)
        BY <2>5 DEF Succeeds, TypeOK, CallsOK
      <3>2. WalkOf(d)'
        BY <2>0, <3>1 DEF WalkOf
      <3>3. audits[d] = <<>>
        BY <2>0, <3>1 DEF AuditOf, Ended
      <3>4. /\ Len(audits'[d]) = 1
            /\ audits'[d][1] = [used |-> Current(d), depth |-> next[d] - 2, success |-> TRUE]
        <4>1. audits' = [audits EXCEPT ![d] = Append(audits[d], [used |-> Current(d), depth |-> next[d] - 2, success |-> TRUE])]
          BY <3>1, Zenon DEF Audit
        <4>2. audits'[d] = <<[used |-> Current(d), depth |-> next[d] - 2, success |-> TRUE]>>
          BY <2>a, <3>3, <4>1, AuditOnce, Zenon
        <4> QED  BY <4>2
      <3>5. next[d] - 2 < Len(Chain(d)) /\ Current(d) = Chain(d)[(next[d] - 2) + 1]
        BY <2>t, <3>1 DEF Current
      <3>6. AuditOf(d)'
        BY <3>1, <3>4, <3>5 DEF AuditOf, Ended, Chain
      <3> QED  BY <3>2, <3>6
    <2>6. CASE ContentRejected(d)
      <3>1. /\ pc[d] = "calling" /\ pc'[d] = "rejected" /\ skipped'[d] = skipped[d]
            /\ failed'[d] = failed[d] /\ next'[d] = next[d]
            /\ Audit(d, Current(d), next[d] - 2, FALSE)
        BY <2>6 DEF ContentRejected, TypeOK, CallsOK
      <3>2. WalkOf(d)'
        BY <2>0, <3>1 DEF WalkOf
      <3>3. audits[d] = <<>>
        BY <2>0, <3>1 DEF AuditOf, Ended
      <3>4. Len(audits'[d]) = 1 /\ ~audits'[d][1].success
        <4>1. audits' = [audits EXCEPT ![d] = Append(audits[d], [used |-> Current(d), depth |-> next[d] - 2, success |-> FALSE])]
          BY <3>1, Zenon DEF Audit
        <4>2. audits'[d] = <<[used |-> Current(d), depth |-> next[d] - 2, success |-> FALSE]>>
          BY <2>a, <3>3, <4>1, AuditOnce, Zenon
        <4> QED  BY <4>2
      <3>5. AuditOf(d)'
        BY <3>1, <3>4 DEF AuditOf, Ended
      <3> QED  BY <3>2, <3>5
    <2>7. CASE RetryableError(d)
      <3>1. /\ pc[d] = "calling" /\ skipped'[d] = skipped[d] /\ next'[d] = next[d]
            /\ failed'[d] = failed[d] \cup {next[d] - 1}
        BY <2>7 DEF RetryableError, TypeOK, CallsOK
      <3>2. /\ failed'[d] \cap skipped'[d] = {}
            /\ failed'[d] \cup skipped'[d] = 1 .. next[d] - 1
        BY <2>0, <2>t, <3>1 DEF WalkOf
      <3>3. audits[d] = <<>>
        BY <2>0, <3>1 DEF AuditOf, Ended
      <3>4. CASE next[d] <= Len(Chain(d))
        <4>1. pc'[d] = "backoff" /\ audits'[d] = audits[d]
          BY <2>7, <3>4 DEF RetryableError, TypeOK, CallsOK
        <4> QED  BY <3>1, <3>2, <3>3, <4>1 DEF WalkOf, AuditOf, Ended
      <3>5. CASE ~(next[d] <= Len(Chain(d)))
        <4>1. pc'[d] = "unavailable" /\ Audit(d, None, Len(Chain(d)), FALSE)
          BY <2>7, <3>5 DEF RetryableError, TypeOK, CallsOK
        <4>2. Len(audits'[d]) = 1 /\ ~audits'[d][1].success
          <5>1. audits' = [audits EXCEPT ![d] = Append(audits[d], [used |-> None, depth |-> Len(Chain(d)), success |-> FALSE])]
            BY <4>1, Zenon DEF Audit
          <5>2. audits'[d] = <<[used |-> None, depth |-> Len(Chain(d)), success |-> FALSE]>>
            BY <2>a, <3>3, <5>1, AuditOnce, Zenon
          <5> QED  BY <5>2
        <4>3. next[d] - 1 = Len(Chain(d))
          BY <2>t, <3>5
        <4>4. WalkOf(d)'
          BY <3>1, <3>2, <4>1, <4>3 DEF WalkOf, Indexes, Chain
        <4>5. AuditOf(d)'
          BY <4>1, <4>2 DEF AuditOf, Ended
        <4> QED  BY <4>4, <4>5
      <3> QED  BY <3>4, <3>5
    <2>8. CASE OtherError(d)
      <3>1. /\ pc[d] = "calling" /\ pc'[d] = "raised" /\ skipped'[d] = skipped[d]
            /\ failed'[d] = failed[d] /\ next'[d] = next[d] /\ audits'[d] = audits[d]
        BY <2>8 DEF OtherError, TypeOK, CallsOK
      <3> QED  BY <2>0, <3>1 DEF WalkOf, AuditOf, Ended
    <2> QED  BY <2>1, <2>2, <2>3, <2>4, <2>5, <2>6, <2>7, <2>8 DEF Next, Answer, Tick, vars
  <1> QED  BY <1>1, <1>2, TypeCorrect, PTL DEF Spec

(* A dispatch settles on the first provider of its chain that neither      *)
(* failed it nor was skipped, and gives up only when there is none, for    *)
(* chains of any length and any concurrent dispatches (255-322).           *)
THEOREM ChainInOrderHolds == Spec => []ChainInOrder
  <1>1. WalkInv => ChainInOrder
    BY DEF WalkInv, WalkOf, ChainInOrder
  <1> QED  BY <1>1, WalkInvariant, PTL

(* A dispatch the policy ends is audited once, and a success names the     *)
(* provider that worked and its depth in the chain (270-278, 313-333).     *)
THEOREM PolicyEndAuditedHolds == Spec => []PolicyEndAudited
  <1>1. WalkInv => PolicyEndAudited
    BY DEF WalkInv, AuditOf, PolicyEndAudited
  <1> QED  BY <1>1, WalkInvariant, PTL
=============================================================================
