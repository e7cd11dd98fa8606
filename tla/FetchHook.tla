---------------------------- MODULE FetchHook -----------------------------
(***************************************************************************)
(* The read hooks of the admin panel.  useFleetTenants, usePlatformDlq,    *)
(* usePlatformIncidents, useRunbooks, useRunbookDetail, useFeatureFlags,   *)
(* usePlatformBilling, useSystemHealth, useTenantModules and the two       *)
(* provider containers are one piece of code with small variations: an     *)
(* effect that runs on mount and whenever its key (filters, slug, tenant,  *)
(* reload token) changes, starts a request, and on clean-up sets a         *)
(* "cancelled" flag that only the closure of that run reads.  The request  *)
(* itself is not aborted: its answer arrives whatever happens.             *)
(*                                                                         *)
(* An effect caused by a click or a keystroke is flushed by React before   *)
(* the next event is handled, so a change of key and the effect it causes  *)
(* are one step here.  The answer is abstracted to the request it answers. *)
(***************************************************************************)
EXTENDS Naturals, FiniteSets

CONSTANTS Keys,           \* what the hook can be asked for
          NoKey,          \* nothing selected: the hook does not ask
          MaxRuns,        \* bound on the runs of the effect
          ClearsOnStart   \* TRUE when the effect empties the data it holds

VARIABLES mounted,   \* the component that uses the hook is on the screen
          key,       \* the key of the last run
          gen,       \* how many runs of the effect have asked
          calls,     \* requests in flight, each with its run's cancelled flag
          data,      \* the answer in state
          loading,
          failed     \* the error state is set

vars == <<mounted, key, gen, calls, data, loading, failed>>

Call   == [gen : 1..MaxRuns, key : Keys, cancelled : BOOLEAN]
Answer == [gen : 1..MaxRuns, key : Keys]
NoData == [gen |-> 0]

TypeOK ==
    /\ mounted \in BOOLEAN
    /\ key \in Keys \cup {NoKey}
    /\ gen \in 0..MaxRuns
    /\ calls \subseteq Call
    /\ data \in Answer \cup {NoData}
    /\ loading \in BOOLEAN
    /\ failed \in BOOLEAN

Init ==
    /\ mounted = FALSE
    /\ key = NoKey
    /\ gen = 0
    /\ calls = {}
    /\ data = NoData
    /\ loading = FALSE
    /\ failed = FALSE

-----------------------------------------------------------------------------
(* The clean-up function of the previous run. *)
Cancelled(cs) == {[c EXCEPT !.cancelled = TRUE] : c \in cs}

(* The effect with a key: the previous run is cancelled, the error is      *)
(* cleared and one request is started.                                     *)
Ask(k) ==
    /\ gen < MaxRuns
    /\ gen' = gen + 1
    /\ calls' = Cancelled(calls)
                  \cup {[gen |-> gen + 1, key |-> k, cancelled |-> FALSE]}
    /\ loading' = TRUE
    /\ failed' = FALSE
    /\ data' = IF ClearsOnStart THEN NoData ELSE data

(* The effect without a key (nothing selected): state is emptied. *)
Reset ==
    /\ calls' = Cancelled(calls)
    /\ data' = NoData
    /\ loading' = FALSE
    /\ failed' = FALSE
    /\ UNCHANGED gen

(* The component appears, with or without a key. *)
Mount(k) ==
    /\ ~mounted
    /\ key' = k
    /\ mounted' = TRUE
    /\ IF k = NoKey THEN Reset ELSE Ask(k)

(* Its key changes: another filter, another slug. *)
Rekey(k) ==
    /\ mounted
    /\ k # key
    /\ key' = k
    /\ IF k = NoKey THEN Reset ELSE Ask(k)
    /\ UNCHANGED mounted

(* refresh(): the reload token changes and the effect runs again. *)
Reload ==
    /\ mounted
    /\ key # NoKey
    /\ Ask(key)
    /\ UNCHANGED <<key, mounted>>

(* The component goes away: its state with it, its requests do not. *)
Unmount ==
    /\ mounted
    /\ key' = NoKey
    /\ mounted' = FALSE
    /\ Reset

(* Mutant: an answer is stored without asking whether its run is cancelled. *)
ResolveAnyway(c) ==
    /\ c \in calls
    /\ calls' = calls \ {c}
    /\ data' = [gen |-> c.gen, key |-> c.key]
    /\ loading' = (loading /\ c.cancelled)
    /\ UNCHANGED <<key, mounted, gen, failed>>

(* then(): a cancelled run drops its answer; the live one stores it and    *)
(* ends the loading state.                                                 *)
Resolve(c) ==
    /\ c \in calls
    /\ calls' = calls \ {c}
    /\ IF c.cancelled
       THEN UNCHANGED <<data, loading>>
       ELSE /\ data' = [gen |-> c.gen, key |-> c.key]
            /\ loading' = FALSE
    /\ UNCHANGED <<key, mounted, gen, failed>>

(* Mutant: the finally block of a cancelled run ends the spinner. *)
RejectEndsLoading(c) ==
    /\ c \in calls
    /\ calls' = calls \ {c}
    /\ loading' = FALSE
    /\ failed' = (failed \/ ~c.cancelled)
    /\ data' = IF c.cancelled THEN data ELSE NoData
    /\ UNCHANGED <<key, mounted, gen>>

(* catch(): the live run replaces the data by the error. *)
Reject(c) ==
    /\ c \in calls
    /\ calls' = calls \ {c}
    /\ IF c.cancelled
       THEN UNCHANGED <<data, loading, failed>>
       ELSE /\ data' = NoData
            /\ failed' = TRUE
            /\ loading' = FALSE
    /\ UNCHANGED <<key, mounted, gen>>

Next ==
    \/ \E k \in Keys \cup {NoKey} : Mount(k) \/ Rekey(k)
    \/ Reload
    \/ Unmount
    \/ \E c \in calls : Resolve(c) \/ Reject(c)

Spec == Init /\ [][Next]_vars

-----------------------------------------------------------------------------
(* The spinner tells the truth: loading is set exactly while the request   *)
(* of the newest run is unanswered.  A cancelled run that reset it would   *)
(* end the spinner of its successor.                                       *)
LoadingIsLive == loading <=> \E c \in calls : ~c.cancelled

(* Once the page has settled without error, what it shows answers the      *)
(* newest request for the key that is selected.                            *)
SettledIsCurrent ==
    (mounted /\ key # NoKey /\ ~loading /\ ~failed)
        => data = [gen |-> gen, key |-> key]

(* Only the newest run is not cancelled, and it asked for the current key. *)
LiveIsNewest ==
    \A c \in calls : ~c.cancelled => c.gen = gen /\ c.key = key /\ mounted

(* The requests in flight are of different runs, all of them started. *)
CallsAreRuns ==
    \A c, d \in calls : c.gen \in 1..gen /\ (c.gen = d.gen => c = d)

(* The screen as the abstract reader sees it. *)
Reader == INSTANCE LatestRead WITH asked <- gen, shown <- data.gen

(* Every hook of the panel implements the abstract reader: an answer that  *)
(* comes late never replaces the answer of a newer request.                *)
ReaderSpec == Reader!Spec
=============================================================================
