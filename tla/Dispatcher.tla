----------------------------- MODULE Dispatcher -----------------------------
(***************************************************************************)
(* The AI provider dispatcher: fallback chain, circuit breaker and audit   *)
(* (copiloto_core/ai/dispatcher.py).                                       *)
(*                                                                         *)
(* The breakers are module state of one worker process, shared by every    *)
(* dispatch() coroutine of its event loop.  An action is the code between  *)
(* two awaits: the chain is walked up to the next call_fn, the answer is   *)
(* recorded, the backoff is slept.  The provider is external: a call ends  *)
(* when it likes and as it likes.                                          *)
(*                                                                         *)
(* Time is a natural number that only Tick advances.  failedAt, streak and *)
(* lastFail are history variables: no guard reads them.                    *)
(***************************************************************************)
EXTENDS Naturals, Sequences, FiniteSets

CONSTANTS
    Providers,
    Calls,        \* the dispatch() invocations
    ChainOf,      \* call -> [primary, *fallback_chain]
    None,         \* Python None
    Threshold,    \* CB_FAILURE_THRESHOLD
    Window,       \* CB_WINDOW_SECONDS
    Cooldown,     \* CB_COOLDOWN_SECONDS
    MaxInFlight,  \* bound: provider calls in progress at a time
    MaxClock      \* bound: time

ASSUME ConstantsAssumption ==
    /\ ChainOf \in [Calls -> Seq(Providers)]
    /\ Threshold \in Nat \ {0}
    /\ Window \in Nat
    /\ Cooldown \in Nat
    /\ MaxInFlight \in Nat
    /\ MaxClock \in Nat
    /\ None \notin Nat

VARIABLES
    clock,       \* time.monotonic()
    failures,    \* provider -> _CircuitState.failures, a deque of stamps
    openedAt,    \* provider -> _CircuitState.opened_at
    pc,          \* call -> where its coroutine is
    next,        \* call -> index of the chain the for loop looks at next
    started,     \* call -> local `now` of the current iteration
    failed,      \* call -> indexes whose provider failed with a retryable error
    skipped,     \* call -> indexes skipped because their circuit was open
    audits,      \* call -> audit rows emitted
    failedAt,    \* provider -> when the failures in its deque were recorded
    streak,      \* provider -> retryable failures since its breaker was last cleared
    lastFail     \* provider -> time of its last retryable failure

breakers == <<failures, openedAt, failedAt, streak, lastFail>>
calls    == <<pc, next, started, failed, skipped, audits>>
vars     == <<clock, breakers, calls>>

Chain(c) == ChainOf[c]
Indexes(c) == 1 .. Len(Chain(c))

(* The provider the call is using: the one before `next`. *)
Current(c) == Chain(c)[next[c] - 1]

-----------------------------------------------------------------------------
(*                            Circuit breaker                              *)

Init ==
    /\ clock = 0
    /\ failures = [p \in Providers |-> <<>>]
    /\ openedAt = [p \in Providers |-> None]
    /\ pc = [c \in Calls |-> "new"]
    /\ next = [c \in Calls |-> 1]
    /\ started = [c \in Calls |-> 0]
    /\ failed = [c \in Calls |-> {}]
    /\ skipped = [c \in Calls |-> {}]
    /\ audits = [c \in Calls |-> <<>>]
    /\ failedAt = [p \in Providers |-> <<>>]
    /\ streak = [p \in Providers |-> 0]
    /\ lastFail = [p \in Providers |-> 0]

(* Mutant: the cooldown lasts one unit too long. *)
CircuitOpenOneMore(p) == openedAt[p] # None /\ clock <= openedAt[p] + Cooldown

(* _circuit_open: now - opened_at < CB_COOLDOWN_SECONDS *)
CircuitOpen(p) == openedAt[p] # None /\ clock < openedAt[p] + Cooldown

(* state.failures.clear(); state.opened_at = None *)
Clear(p) ==
    /\ failures' = [failures EXCEPT ![p] = <<>>]
    /\ openedAt' = [openedAt EXCEPT ![p] = None]
    /\ failedAt' = [failedAt EXCEPT ![p] = <<>>]
    /\ streak' = [streak EXCEPT ![p] = 0]
    /\ UNCHANGED lastFail

(* The reset that _circuit_open makes of a breaker whose cooldown is over. *)
ResetIfExpired(p) ==
    IF openedAt[p] # None THEN Clear(p) ELSE UNCHANGED breakers

(* Mutant: a success closes the breaker and keeps the failures. *)
SuccessKeepsFailures(p) ==
    /\ openedAt' = [openedAt EXCEPT ![p] = None]
    /\ streak' = [streak EXCEPT ![p] = 0]
    /\ UNCHANGED <<failures, failedAt, lastFail>>

RecordSuccess(p) == Clear(p)

(* Mutant: a deque without maxlen. *)
PushUnbounded(f, stamp) == Append(f, stamp)

(* append on a deque with maxlen=CB_FAILURE_THRESHOLD *)
Push(f, stamp) == Append(IF Len(f) < Threshold THEN f ELSE Tail(f), stamp)

(* The stamp is the `now` read before the provider was called, so it is    *)
(* not the time of the failure and may be older than stamps recorded since.*)
RecordFailure(p, stamp) ==
    LET f == Push(failures[p], stamp)
        opens == Len(f) >= Threshold /\ stamp <= f[1] + Window
    IN /\ failures' = [failures EXCEPT ![p] = f]
       /\ openedAt' = IF opens THEN [openedAt EXCEPT ![p] = stamp] ELSE openedAt
       /\ failedAt' = [failedAt EXCEPT ![p] = Push(@, clock)]
       /\ streak' = [streak EXCEPT ![p] = @ + 1]
       /\ lastFail' = [lastFail EXCEPT ![p] = clock]

-----------------------------------------------------------------------------
(*                               dispatch                                  *)

Tick ==
    /\ clock < MaxClock
    /\ clock' = clock + 1
    /\ UNCHANGED <<breakers, calls>>

(* About to look at Chain(c)[next[c]]: at the start, or after a backoff.   *)
Walking(c) == pc[c] \in {"new", "backoff"}

InFlight == {c \in Calls : pc[c] = "calling"}

(* Mutant: an open circuit is waited for instead of skipped. *)
CallWaitsForNext(c, i) ==
    /\ Walking(c)
    /\ Cardinality(InFlight) < MaxInFlight
    /\ i = next[c]
    /\ ~CircuitOpen(Chain(c)[i])
    /\ ResetIfExpired(Chain(c)[i])
    /\ pc' = [pc EXCEPT ![c] = "calling"]
    /\ next' = [next EXCEPT ![c] = i + 1]
    /\ started' = [started EXCEPT ![c] = clock]
    /\ UNCHANGED <<clock, failed, skipped, audits>>

(* Skip open circuits up to index i, whose circuit is not, and call it.    *)
Call(c, i) ==
    /\ Walking(c)
    /\ Cardinality(InFlight) < MaxInFlight
    /\ i >= next[c]
    /\ \A j \in next[c] .. i - 1 : CircuitOpen(Chain(c)[j])
    /\ ~CircuitOpen(Chain(c)[i])
    /\ ResetIfExpired(Chain(c)[i])
    /\ pc' = [pc EXCEPT ![c] = "calling"]
    /\ next' = [next EXCEPT ![c] = i + 1]
    /\ started' = [started EXCEPT ![c] = clock]
    /\ skipped' = [skipped EXCEPT ![c] = @ \cup (next[c] .. i - 1)]
    /\ UNCHANGED <<clock, failed, audits>>

(* Mutant: the depth counts from one. *)
AuditDepthFromOne(c, provider, depth, success) ==
    audits' = [audits EXCEPT ![c] =
        Append(@, [used |-> provider, depth |-> depth + 1, success |-> success])]

Audit(c, provider, depth, success) ==
    audits' = [audits EXCEPT ![c] =
        Append(@, [used |-> provider, depth |-> depth, success |-> success])]

(* The rest of the chain is open: audit and raise ProviderUnavailable. *)
Exhausted(c) ==
    /\ Walking(c)
    /\ \A j \in next[c] .. Len(Chain(c)) : CircuitOpen(Chain(c)[j])
    /\ pc' = [pc EXCEPT ![c] = "unavailable"]
    /\ skipped' = [skipped EXCEPT ![c] = @ \cup (next[c] .. Len(Chain(c)))]
    /\ Audit(c, None, Len(Chain(c)), FALSE)
    /\ UNCHANGED <<clock, breakers, next, started, failed>>

Succeeds(c) ==
    /\ pc[c] = "calling"
    /\ RecordSuccess(Current(c))
    /\ pc' = [pc EXCEPT ![c] = "returned"]
    /\ Audit(c, Current(c), next[c] - 2, TRUE)
    /\ UNCHANGED <<clock, next, started, failed, skipped>>

(* ProviderContentRejected: the provider works, the prompt does not. *)
ContentRejected(c) ==
    /\ pc[c] = "calling"
    /\ RecordSuccess(Current(c))
    /\ pc' = [pc EXCEPT ![c] = "rejected"]
    /\ Audit(c, Current(c), next[c] - 2, FALSE)
    /\ UNCHANGED <<clock, next, started, failed, skipped>>

(* Mutant: the loop advances twice. *)
RetryableSkipsOne(c) ==
    /\ pc[c] = "calling"
    /\ RecordFailure(Current(c), started[c])
    /\ failed' = [failed EXCEPT ![c] = @ \cup {next[c] - 1}]
    /\ next' = [next EXCEPT ![c] = @ + 1]
    /\ pc' = [pc EXCEPT ![c] = "backoff"]
    /\ UNCHANGED <<clock, started, skipped, audits>>

(* Timeout, unavailable or rate limited: record, and back off when there   *)
(* is a next provider.                                                     *)
RetryableError(c) ==
    /\ pc[c] = "calling"
    /\ RecordFailure(Current(c), started[c])
    /\ failed' = [failed EXCEPT ![c] = @ \cup {next[c] - 1}]
    /\ IF next[c] <= Len(Chain(c))
         THEN /\ pc' = [pc EXCEPT ![c] = "backoff"]
              /\ UNCHANGED audits
         ELSE /\ pc' = [pc EXCEPT ![c] = "unavailable"]
              /\ Audit(c, None, Len(Chain(c)), FALSE)
    /\ UNCHANGED <<clock, next, started, skipped>>

(* Any other exception of call_fn leaves dispatch() as it is. *)
OtherError(c) ==
    /\ pc[c] = "calling"
    /\ pc' = [pc EXCEPT ![c] = "raised"]
    /\ UNCHANGED <<clock, breakers, next, started, failed, skipped, audits>>

Answer(c) == Succeeds(c) \/ ContentRejected(c) \/ RetryableError(c) \/ OtherError(c)

Next ==
    \/ Tick
    \/ \E c \in Calls :
        \/ \E i \in Indexes(c) : Call(c, i)
        \/ Exhausted(c)
        \/ Answer(c)

Spec == Init /\ [][Next]_vars

(* A backoff ends, and a provider answers or times out. *)
Fairness ==
    \A c \in Calls :
        /\ WF_vars(pc[c] = "backoff" /\ (Exhausted(c) \/ \E i \in Indexes(c) : Call(c, i)))
        /\ WF_vars(Answer(c))

FairSpec == Spec /\ Fairness

-----------------------------------------------------------------------------
(*                               properties                                *)

Ended == {"returned", "rejected", "unavailable", "raised"}

BreakersOK ==
    /\ failures \in [Providers -> Seq(Nat)]
    /\ \A p \in Providers : Len(failures[p]) <= Threshold
    /\ openedAt \in [Providers -> Nat \cup {None}]
    /\ failedAt \in [Providers -> Seq(Nat)]
    /\ \A p \in Providers : Len(failedAt[p]) <= Threshold
    /\ streak \in [Providers -> Nat]
    /\ lastFail \in [Providers -> Nat]

AuditRows == [used : Providers \cup {None}, depth : Nat, success : BOOLEAN]

CallsOK ==
    /\ pc \in [Calls -> {"new", "calling", "backoff"} \cup Ended]
    /\ next \in [Calls -> Nat]
    /\ \A c \in Calls : next[c] \in 1 .. Len(Chain(c)) + 1
    /\ \A c \in Calls : pc[c] \notin {"new", "unavailable"} => next[c] > 1
    /\ started \in [Calls -> Nat]
    /\ failed \in [Calls -> SUBSET Nat]
    /\ skipped \in [Calls -> SUBSET Nat]
    /\ audits \in [Calls -> Seq(AuditRows)]

(* Every variable has its type; a deque never outgrows its maxlen (77).    *)
TypeOK == clock \in Nat /\ BreakersOK /\ CallsOK

(* A breaker opens after Threshold failures in a row and no less (16-18,   *)
(* 111-144): a success, a rejection or an expired cooldown in between, of  *)
(* whatever concurrent dispatch, starts the count again.                   *)
OpenNeedsStreak ==
    \A p \in Providers : openedAt[p] # None => streak[p] >= Threshold

(* A provider is skipped only while less than a cooldown has passed since  *)
(* it last failed: however late the answers of concurrent dispatches come  *)
(* in, it is never degraded for longer (111-133).                          *)
SkipOnlyDuringCooldown ==
    \A p \in Providers : CircuitOpen(p) => clock < lastFail[p] + Cooldown

(* A dispatch gives up only when each provider of its chain failed it or   *)
(* was skipped, and settles on the first that did neither (255-322).       *)
ChainInOrder ==
    \A c \in Calls :
        /\ failed[c] \cap skipped[c] = {}
        /\ pc[c] = "unavailable" => failed[c] \cup skipped[c] = Indexes(c)
        /\ pc[c] \in {"calling", "returned", "rejected"} =>
                failed[c] \cup skipped[c] = 1 .. next[c] - 2

(* Every dispatch ends: no breaker, backoff or failure of another one      *)
(* keeps it (255-337).                                                     *)
DispatchEnds == \A c \in Calls : pc[c] = "calling" ~> pc[c] \in Ended

(* "5 fallos consecutivos en una ventana de 60s" (16-17): the failures     *)
(* that open a breaker happened within Window seconds.  It does not hold:  *)
(* what lies in the window are the beginnings of the calls (256, 281).     *)
OpensOnRecentFailures ==
    [][\A p \in Providers :
        openedAt[p] = None /\ openedAt'[p] # None =>
            \A i, j \in 1 .. Len(failedAt'[p]) : failedAt'[p][i] <= failedAt'[p][j] + Window]_vars

(* A dispatch that the policy ends, well or badly, is audited once, and a  *)
(* success names the provider that worked (270-278, 313-333).              *)
PolicyEndAudited ==
    \A c \in Calls : pc[c] \in Ended \ {"raised"} =>
        /\ Len(audits[c]) = 1
        /\ audits[c][1].success <=> pc[c] = "returned"
        /\ pc[c] = "returned" =>
                LET row == audits[c][1]
                IN row.depth < Len(Chain(c)) /\ row.used = Chain(c)[row.depth + 1]

=============================================================================
