-------------------------- MODULE FetchHookProofs --------------------------
(***************************************************************************)
(* Proofs about FetchHook: the inductive invariant of a read hook, for any *)
(* keys and any number of runs, and that the hook implements LatestRead.   *)
(* The lemmas about one step are stated without the specification, so that *)
(* PanelPagesProofs can use them for the hooks of the pages.               *)
(***************************************************************************)
EXTENDS FetchHook, TLAPS

(* The facts that make the invariant inductive, whatever the error state   *)
(* does: the spinner is the live run, the live run is the newest and asks  *)
(* for the current key, runs are told apart by their number, and a hook    *)
(* that is not mounted has no key.                                         *)
CallsInv ==
    /\ TypeOK
    /\ LoadingIsLive
    /\ LiveIsNewest
    /\ CallsAreRuns
    /\ ~mounted => key = NoKey

(* The inductive invariant of a hook. *)
HookInv == CallsInv /\ SettledIsCurrent

-----------------------------------------------------------------------------
(* A run that asks leaves exactly one live request, its own. *)
LEMMA AskKeepsCalls ==
    ASSUME MaxRuns \in Nat, CallsInv, NEW k \in Keys, Ask(k), key' = k, mounted' = TRUE
    PROVE  CallsInv'
<1>. DEFINE new == [gen |-> gen + 1, key |-> k, cancelled |-> FALSE]
<1>1. gen \in 0..MaxRuns /\ gen + 1 \in 1..MaxRuns /\ gen' = gen + 1
  BY DEF CallsInv, TypeOK, Ask
<1>2. calls \subseteq Call /\ new \in Call
  BY <1>1 DEF CallsInv, TypeOK, Call
<1>3. \A c \in calls' : c = new \/ \E d \in calls : c = [d EXCEPT !.cancelled = TRUE]
  BY DEF Ask, Cancelled
<1>4. new \in calls'
  BY DEF Ask
<1>5. \A c \in calls' : c \in Call /\ (c = new \/ (c.cancelled /\ c.gen \in 1..gen))
  <2>. SUFFICES ASSUME NEW c \in calls'
                PROVE  c \in Call /\ (c = new \/ (c.cancelled /\ c.gen \in 1..gen))
    OBVIOUS
  <2>1. CASE c = new
    BY <2>1, <1>2
  <2>2. ASSUME NEW d \in calls, c = [d EXCEPT !.cancelled = TRUE]
        PROVE  c \in Call /\ c.cancelled /\ c.gen \in 1..gen
    <3>1. d \in Call /\ d.gen \in 1..gen
      BY <1>2 DEF CallsInv, CallsAreRuns
    <3>. QED
      BY <2>2, <3>1 DEF Call
  <2>. QED
    BY <1>3, <2>1, <2>2
<1>6. TypeOK'
  <2>1. data' \in Answer \cup {NoData} /\ loading' = TRUE /\ failed' = FALSE
    BY DEF Ask, CallsInv, TypeOK
  <2>2. calls' \subseteq Call
    BY <1>5
  <2>3. gen' \in 0..MaxRuns
    BY <1>1
  <2>4. key' \in Keys \cup {NoKey} /\ mounted' \in BOOLEAN
    OBVIOUS
  <2>5. loading' \in BOOLEAN /\ failed' \in BOOLEAN
    BY <2>1
  <2>. QED
    BY <2>1, <2>2, <2>3, <2>4, <2>5 DEF TypeOK
<1>7. LoadingIsLive' /\ LiveIsNewest'
  <2>1. LoadingIsLive'
    BY <1>4 DEF Ask, LoadingIsLive
  <2>2. \A c \in calls' : ~c.cancelled => c = new
    BY <1>5
  <2>. QED
    BY <1>1, <2>1, <2>2 DEF LiveIsNewest
<1>8. CallsAreRuns'
  <2>. SUFFICES ASSUME NEW c \in calls', NEW d \in calls'
                PROVE  c.gen \in 1..gen' /\ (c.gen = d.gen => c = d)
    BY DEF CallsAreRuns
  <2>1. c.gen \in 1..gen'
    BY <1>1, <1>5
  <2>2. ASSUME c = new \/ d = new, c.gen = d.gen
        PROVE  c = d
    <3>1. new.gen = gen + 1 /\ gen \in Nat
      BY <1>1
    <3>2. \A e \in calls' : e = new \/ e.gen # gen + 1
      BY <1>1, <1>5
    <3>. QED
      BY <2>2, <3>1, <3>2
  <2>3. ASSUME NEW e \in calls, c = [e EXCEPT !.cancelled = TRUE],
               NEW f \in calls, d = [f EXCEPT !.cancelled = TRUE],
               c.gen = d.gen
        PROVE  c = d
    <3>1. e \in Call /\ f \in Call
      BY <1>2
    <3>2. e.gen = f.gen
      BY <2>3, <3>1 DEF Call
    <3>3. e = f
      BY <3>2 DEF CallsInv, CallsAreRuns
    <3>. QED
      BY <2>3, <3>3
  <2>. QED
    BY <1>3, <2>1, <2>2, <2>3
<1>. QED
  BY <1>6, <1>7, <1>8 DEF CallsInv

(* A reset leaves no live request. *)
LEMMA ResetKeepsCalls ==
    ASSUME MaxRuns \in Nat, CallsInv, Reset, mounted' \in BOOLEAN,
           key' = NoKey
    PROVE  CallsInv'
<1>1. calls \subseteq Call /\ gen' = gen
  BY DEF CallsInv, TypeOK, Reset
<1>2. \A c \in calls' : \E d \in calls : c = [d EXCEPT !.cancelled = TRUE]
  BY DEF Reset, Cancelled
<1>3. \A c \in calls' : c \in Call /\ c.cancelled /\ c.gen \in 1..gen
  <2>. SUFFICES ASSUME NEW c \in calls', NEW d \in calls, c = [d EXCEPT !.cancelled = TRUE]
                PROVE  c \in Call /\ c.cancelled /\ c.gen \in 1..gen
    BY <1>2
  <2>1. d \in Call /\ d.gen \in 1..gen
    BY <1>1 DEF CallsInv, CallsAreRuns
  <2>. QED
    BY <2>1 DEF Call
<1>4. TypeOK'
  BY <1>1, <1>3 DEF Reset, CallsInv, TypeOK
<1>5. LoadingIsLive' /\ LiveIsNewest'
  BY <1>3 DEF Reset, LoadingIsLive, LiveIsNewest
<1>6. CallsAreRuns'
  <2>. SUFFICES ASSUME NEW c \in calls', NEW d \in calls'
                PROVE  c.gen \in 1..gen' /\ (c.gen = d.gen => c = d)
    BY DEF CallsAreRuns
  <2>1. ASSUME NEW e \in calls, c = [e EXCEPT !.cancelled = TRUE],
               NEW f \in calls, d = [f EXCEPT !.cancelled = TRUE],
               c.gen = d.gen
        PROVE  c = d
    <3>1. e \in Call /\ f \in Call
      BY <1>1
    <3>2. e.gen = f.gen
      BY <2>1, <3>1 DEF Call
    <3>3. e = f
      BY <3>2 DEF CallsInv, CallsAreRuns
    <3>. QED
      BY <2>1, <3>3
  <2>. QED
    BY <1>1, <1>2, <1>3, <2>1
<1>. QED
  BY <1>4, <1>5, <1>6 DEF CallsInv

(* An answer or a failure takes its request away; nobody but the live run  *)
(* touches the spinner.                                                    *)
LEMMA AnswerKeepsCalls ==
    ASSUME MaxRuns \in Nat, CallsInv, NEW c \in calls, Resolve(c) \/ Reject(c),
           mounted' = mounted
    PROVE  CallsInv'
<1>1. c \in Call /\ calls \subseteq Call
  BY DEF CallsInv, TypeOK
<1>2. calls' = calls \ {c} /\ gen' = gen /\ key' = key
  BY DEF Resolve, Reject
<1>3. [gen |-> c.gen, key |-> c.key] \in Answer
  BY <1>1 DEF Call, Answer
<1>4. data' \in Answer \cup {NoData} /\ failed' \in BOOLEAN /\ loading' \in BOOLEAN
  BY <1>3 DEF Resolve, Reject, CallsInv, TypeOK
<1>5. TypeOK'
  BY <1>1, <1>2, <1>4 DEF CallsInv, TypeOK
<1>6. LiveIsNewest' /\ CallsAreRuns'
  BY <1>2 DEF CallsInv, LiveIsNewest, CallsAreRuns
<1>7. LoadingIsLive'
  <2>1. CASE c.cancelled
    BY <2>1, <1>2 DEF Resolve, Reject, CallsInv, LoadingIsLive
  <2>2. CASE ~c.cancelled
    <3>1. \A d \in calls : ~d.cancelled => d = c
      BY <2>2 DEF CallsInv, LiveIsNewest, CallsAreRuns
    <3>2. loading' = FALSE
      BY <2>2 DEF Resolve, Reject
    <3>. QED
      BY <1>2, <3>1, <3>2 DEF LoadingIsLive
  <2>. QED
    BY <2>1, <2>2
<1>. QED
  BY <1>2, <1>5, <1>6, <1>7 DEF CallsInv

(* An answer that reaches the screen is the answer of the newest request. *)
LEMMA AnswerIsCurrent ==
    ASSUME CallsInv, SettledIsCurrent, NEW c \in calls, Resolve(c) \/ Reject(c),
           mounted' = mounted
    PROVE  SettledIsCurrent'
<1>1. CASE c.cancelled
  BY <1>1 DEF Resolve, Reject, SettledIsCurrent
<1>2. CASE ~c.cancelled
  <2>1. c.gen = gen /\ c.key = key
    BY <1>2 DEF CallsInv, LiveIsNewest
  <2>. QED
    BY <1>2, <2>1 DEF Resolve, Reject, SettledIsCurrent
<1>. QED
  BY <1>1, <1>2

-----------------------------------------------------------------------------
(* What the invariants say of a step of the hook. *)
LEMMA CallsStep ==
    ASSUME MaxRuns \in Nat, NoKey \notin Keys, CallsInv, [Next]_vars
    PROVE  CallsInv'
<1>1. ASSUME NEW k \in Keys \cup {NoKey}, Mount(k) \/ Rekey(k)
      PROVE  CallsInv'
  <2>1. mounted' = TRUE /\ key' = k
    BY <1>1 DEF Mount, Rekey, CallsInv, TypeOK
  <2>2. CASE k = NoKey
    BY <1>1, <2>1, <2>2, ResetKeepsCalls DEF Mount, Rekey
  <2>3. CASE k # NoKey
    <3>1. k \in Keys /\ Ask(k)
      BY <1>1, <2>3 DEF Mount, Rekey
    <3>. QED
      BY <2>1, <3>1, AskKeepsCalls
  <2>. QED
    BY <2>2, <2>3
<1>2. CASE Reload
  <2>1. key \in Keys /\ Ask(key) /\ key' = key /\ mounted' = TRUE
    BY <1>2 DEF Reload, CallsInv, TypeOK
  <2>. QED
    BY <2>1, AskKeepsCalls
<1>3. CASE Unmount
  BY <1>3, ResetKeepsCalls DEF Unmount
<1>4. ASSUME NEW c \in calls, Resolve(c) \/ Reject(c)
      PROVE  CallsInv'
  <2>1. mounted' = mounted
    BY <1>4 DEF Resolve, Reject
  <2>. QED
    BY <1>4, <2>1, AnswerKeepsCalls
<1>5. CASE UNCHANGED vars
  BY <1>5 DEF vars, CallsInv, TypeOK, LoadingIsLive, LiveIsNewest, CallsAreRuns
<1>. QED
  BY <1>1, <1>2, <1>3, <1>4, <1>5 DEF Next

(* A screen that settles is given the answer of its newest request. *)
LEMMA SettledStep ==
    ASSUME MaxRuns \in Nat, NoKey \notin Keys, CallsInv, SettledIsCurrent, [Next]_vars
    PROVE  SettledIsCurrent'
<1>1. ASSUME NEW k \in Keys \cup {NoKey}, Mount(k) \/ Rekey(k)
      PROVE  SettledIsCurrent'
  BY <1>1 DEF Mount, Rekey, Ask, SettledIsCurrent
<1>2. CASE Reload
  BY <1>2 DEF Reload, Ask, SettledIsCurrent
<1>3. CASE Unmount
  BY <1>3 DEF Unmount, SettledIsCurrent
<1>4. ASSUME NEW c \in calls, Resolve(c) \/ Reject(c)
      PROVE  SettledIsCurrent'
  <2>1. mounted' = mounted
    BY <1>4 DEF Resolve, Reject
  <2>. QED
    BY <1>4, <2>1, AnswerIsCurrent
<1>5. CASE UNCHANGED vars
  BY <1>5 DEF vars, SettledIsCurrent
<1>. QED
  BY <1>1, <1>2, <1>3, <1>4, <1>5 DEF Next

(* What a hook starts with. *)
LEMMA HookStart ==
    ASSUME MaxRuns \in Nat, Init
    PROVE  HookInv
<1>1. TypeOK
  <2>1. gen \in 0..MaxRuns
    BY DEF Init
  <2>. QED
    BY <2>1 DEF Init, TypeOK
<1>. QED
  BY <1>1 DEF Init, HookInv, CallsInv, LoadingIsLive, LiveIsNewest, CallsAreRuns,
              SettledIsCurrent

(* A step of the hook is a step of the abstract reader. *)
LEMMA HookImplementsReader ==
    ASSUME MaxRuns \in Nat, CallsInv, [Next]_vars
    PROVE  [Reader!Next]_(Reader!vars)
<1>. USE DEF Reader!Next, Reader!Ask, Reader!Show, Reader!Clear, Reader!vars
<1>1. data.gen \in 0..MaxRuns /\ gen \in 0..MaxRuns
  BY DEF CallsInv, TypeOK, Answer, NoData
<1>2. ASSUME NEW k, Ask(k)
      PROVE  Reader!Ask
  BY <1>1, <1>2 DEF Ask, NoData
<1>3. ASSUME Reset
      PROVE  Reader!Clear
  BY <1>3 DEF Reset, NoData
<1>4. ASSUME NEW c \in calls, Resolve(c) \/ Reject(c)
      PROVE  [Reader!Next]_(Reader!vars)
  <2>1. CASE c.cancelled
    BY <1>4, <2>1 DEF Resolve, Reject
  <2>2. CASE ~c.cancelled /\ Resolve(c)
    <3>1. c.gen = gen /\ gen \in 1..gen
      BY <2>2 DEF CallsInv, LiveIsNewest, CallsAreRuns
    <3>. QED
      BY <1>1, <2>2, <3>1 DEF Resolve
  <2>3. CASE ~c.cancelled /\ Reject(c)
    BY <2>3 DEF Reject, NoData
  <2>. QED
    BY <1>4, <2>1, <2>2, <2>3
<1>. QED
  BY <1>2, <1>3, <1>4 DEF Next, Mount, Rekey, Reload, Unmount, vars

-----------------------------------------------------------------------------
(* The hook of every page, on its own: the inductive invariant holds, so   *)
(* a settled page shows the answer of its newest request.                  *)
THEOREM HookInvariant ==
    ASSUME MaxRuns \in Nat, NoKey \notin Keys
    PROVE  Spec => []HookInv
<1>1. Init => HookInv
  BY HookStart
<1>2. HookInv /\ [Next]_vars => HookInv'
  BY CallsStep, SettledStep DEF HookInv
<1>. QED
  BY <1>1, <1>2, PTL DEF Spec

(* The hook implements the abstract reader: a late answer never replaces   *)
(* the answer of a newer request.                                          *)
THEOREM HookRefinesReader ==
    ASSUME MaxRuns \in Nat, NoKey \notin Keys
    PROVE  Spec => ReaderSpec
<1>1. Init => Reader!Init
  BY DEF Init, Reader!Init, NoData
<1>2. HookInv /\ [Next]_vars => [Reader!Next]_(Reader!vars)
  BY HookImplementsReader DEF HookInv
<1>3. Spec => []HookInv
  BY HookInvariant
<1>. QED
  BY <1>1, <1>2, <1>3, PTL DEF Spec, ReaderSpec, Reader!Spec
=============================================================================
