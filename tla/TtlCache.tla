------------------------------ MODULE TtlCache ------------------------------
(***************************************************************************)
(* The TTL caches of a worker: the AI providers (ai/registry.py), the      *)
(* gates of modules and capabilities (auth/gating.py) and the signing keys *)
(* of Auth0 (core/security.py).  One shape in three copies: a read that    *)
(* misses looks at the clock, awaits the source, and stores the answer     *)
(* until the clock it looked at plus the TTL.  The writers are the routes  *)
(* of the platform owner, each one transaction of Postgres, and Auth0.     *)
(*                                                                         *)
(* A row is what one key of a cache is computed from.  Its value is its    *)
(* version: how many changes of it are committed.  Workers share the rows  *)
(* and nothing else.  Time is a number that only Tick advances.            *)
(***************************************************************************)
EXTENDS Naturals, Sequences, FiniteSets

CONSTANTS
    Workers,
    Modalities,   \* rows of app.platform_ai_providers
    Gates,        \* (tenant, module) and (actor, capability)
    Issuers,      \* key sets of Auth0
    Requests,     \* calls that read through a cache
    Patches,      \* requests of the platform owner that change a row
    None,         \* Python None
    TTL,          \* PROVIDER_CACHE_TTL_SECONDS, _GATE_CACHE_TTL_SECONDS, ttl_seconds
    Overlap,      \* rotations for which Auth0 goes on listing a key
    MaxChanges,   \* bound: rotations of an issuer
    MaxClock      \* bound: time

Rows   == Modalities \cup Gates \cup Issuers
Stored == Modalities \cup Gates

ASSUME CacheAssumption ==
    /\ Modalities \cap Gates = {} /\ Stored \cap Issuers = {}
    /\ TTL \in Nat \ {0}
    /\ Overlap \in Nat
    /\ MaxChanges \in Nat
    /\ MaxClock \in Nat
    /\ None \notin Nat
    /\ None \notin [until : Nat, version : Nat]

VARIABLES
    clock,     \* time.monotonic()
    commits,   \* row -> when each of its changes was committed
    cache,     \* worker, row -> its entry, or None
    at,        \* request -> where its coroutine is
    asks,      \* request -> what it asks for: worker, row, key id of a token
    now,       \* request -> local `now` of its latest look at the cache
    got,       \* request -> the version it was answered, or found
    forced,    \* request -> its fetch is the forced one
    seen,      \* request -> version of its row when it began (history)
    patch      \* patch -> where it is, its worker, its row, its version

reads == <<at, asks, now, got, forced, seen>>
vars  == <<clock, commits, cache, reads, patch>>

Ended == {"done", "rejected", "failed"}

Entries   == [until : Nat, version : Nat]
Slots     == Workers \X Rows
Questions == [worker : Workers, row : Stored, kid : {None}]
                \cup [worker : Workers, row : Issuers, kid : {None} \cup (0 .. MaxChanges)]
Works     == [at : {"new", "updated", "cleared", "answered", "failed"},
              worker : Workers, row : Stored, version : Nat]

TypeOK ==
    /\ clock \in Nat
    /\ commits \in [Rows -> Seq(Nat)]
    /\ cache \in [Slots -> Entries \cup {None}]
    /\ at \in [Requests -> {"new", "reading", "read"} \cup Ended]
    /\ asks \in [Requests -> Questions]
    /\ now \in [Requests -> Nat]
    /\ got \in [Requests -> Nat]
    /\ forced \in [Requests -> BOOLEAN]
    /\ seen \in [Requests -> Nat]
    /\ patch \in [Patches -> Works]

-----------------------------------------------------------------------------
(* What a read finds.                                                      *)

Version(k) == Len(commits[k])

Slot(r) == <<asks[r].worker, asks[r].row>>

Fresh(slot) == cache[slot] # None /\ cache[slot].until > clock

(* Auth0: rotation n adds key n, and lists the Overlap keys before it.     *)
Jwks(version) == {k \in 0 .. version : version <= k + Overlap}

(* _select_jwk; the other caches hold one value, which is what is asked.   *)
Selected(r, version) ==
    LET kid == asks[r].kid
    IN  \/ asks[r].row \notin Issuers
        \/ kid \in Jwks(version)
        \/ kid = None /\ \E k \in Jwks(version) : Jwks(version) = {k}

(* Mutant: what is stored lives from the answer on. *)
EntryLate(r) == [until |-> clock + TTL, version |-> got[r]]

Entry(r) == [until |-> now[r] + TTL, version |-> got[r]]

-----------------------------------------------------------------------------
Init ==
    /\ clock = 0
    /\ commits = [k \in Rows |-> <<>>]
    /\ cache = [slot \in Slots |-> None]
    /\ at = [r \in Requests |-> "new"]
    /\ asks \in [Requests -> Questions]
    /\ now = [r \in Requests |-> 0]
    /\ got = [r \in Requests |-> 0]
    /\ forced = [r \in Requests |-> FALSE]
    /\ seen = [r \in Requests |-> 0]
    /\ patch \in [Patches -> [at : {"new"}, worker : Workers, row : Stored, version : {0}]]

-----------------------------------------------------------------------------
(* Reads.                                                                  *)

(* With a version in hand: it has what is asked, or the token waits for    *)
(* the one forced fetch, or that was it and the token is rejected.         *)

(* Mutant: the key set of the cache is final, as before M-001. *)
OutcomeOnce(r, version) == IF Selected(r, version) THEN "done" ELSE "rejected"

Outcome(r, version) ==
    IF Selected(r, version) THEN "done" ELSE IF forced[r] THEN "rejected" ELSE "reading"

(* The read looks at the cache when it begins. *)
Hit(r) ==
    LET version == cache[Slot(r)].version
    IN  /\ at[r] = "new"
        /\ Fresh(Slot(r))
        /\ at' = [at EXCEPT ![r] = Outcome(r, version)]
        /\ forced' = [forced EXCEPT ![r] = Outcome(r, version) = "reading"]
        /\ got' = [got EXCEPT ![r] = version]
        /\ now' = [now EXCEPT ![r] = clock]
        /\ seen' = [seen EXCEPT ![r] = Version(asks[r].row)]
        /\ UNCHANGED <<clock, commits, cache, asks, patch>>

Miss(r) ==
    /\ at[r] = "new"
    /\ ~Fresh(Slot(r))
    /\ at' = [at EXCEPT ![r] = "reading"]
    /\ now' = [now EXCEPT ![r] = clock]
    /\ seen' = [seen EXCEPT ![r] = Version(asks[r].row)]
    /\ UNCHANGED <<clock, commits, cache, asks, got, forced, patch>>

(* Postgres, or Auth0, answers with what is committed. *)
Answer(r) ==
    /\ at[r] = "reading"
    /\ at' = [at EXCEPT ![r] = "read"]
    /\ got' = [got EXCEPT ![r] = Version(asks[r].row)]
    /\ UNCHANGED <<clock, commits, cache, asks, now, forced, seen, patch>>

(* The query or the fetch raises, or the request is cancelled: nothing is  *)
(* cached, and a gate answers 503.                                         *)
Fail(r) ==
    /\ at[r] \in {"reading", "read"}
    /\ at' = [at EXCEPT ![r] = "failed"]
    /\ UNCHANGED <<clock, commits, cache, asks, now, got, forced, seen, patch>>

(* After the await: the answer is stored, whatever the cache holds now. *)
Resume(r) ==
    LET outcome == Outcome(r, got[r])
    IN  /\ at[r] = "read"
        /\ cache' = [cache EXCEPT ![Slot(r)] = Entry(r)]
        /\ at' = [at EXCEPT ![r] = outcome]
        /\ forced' = [forced EXCEPT ![r] = @ \/ outcome = "reading"]
        /\ now' = [now EXCEPT ![r] = IF outcome = "reading" THEN clock ELSE @]
        /\ UNCHANGED <<clock, commits, asks, got, seen, patch>>

Read(r) == Hit(r) \/ Miss(r) \/ Answer(r) \/ Fail(r) \/ Resume(r)

-----------------------------------------------------------------------------
(* Changes.                                                                *)

At(p, place) == patch' = [patch EXCEPT ![p].at = place]

Pending(k) == \E p \in Patches : patch[p].row = k /\ patch[p].at \in {"updated", "cleared"}

(* The statement of the handler takes the lock of the row. *)
Update(p) ==
    /\ patch[p].at = "new"
    /\ ~Pending(patch[p].row)
    /\ At(p, "updated")
    /\ UNCHANGED <<clock, commits, cache, reads>>

(* The handler of the providers clears their cache in its own worker when  *)
(* its savepoint is released: the transaction of the request is open.  The *)
(* hook of the modules does nothing, and the routes of the roles have none.*)
Clear(p) ==
    /\ patch[p].at = "updated"
    /\ patch[p].row \in Modalities
    /\ cache' = [slot \in Slots |->
                    IF slot[1] = patch[p].worker /\ slot[2] \in Modalities
                    THEN None ELSE cache[slot]]
    /\ At(p, "cleared")
    /\ UNCHANGED <<clock, commits, reads>>

(* get_db commits when the handler has returned, and then it is answered. *)
Commit(p) ==
    LET k == patch[p].row
    IN  /\ patch[p].at = IF k \in Modalities THEN "cleared" ELSE "updated"
        /\ commits' = [commits EXCEPT ![k] = Append(@, clock)]
        /\ patch' = [patch EXCEPT ![p] =
                        [@ EXCEPT !.at = "answered", !.version = Version(k) + 1]]
        /\ UNCHANGED <<clock, cache, reads>>

Rollback(p) ==
    /\ patch[p].at \in {"updated", "cleared"}
    /\ At(p, "failed")
    /\ UNCHANGED <<clock, commits, cache, reads>>

Write(p) == Update(p) \/ Clear(p) \/ Commit(p) \/ Rollback(p)

(* invalidate_gate_caches, for the extensions, and clear_jwks_cache, for   *)
(* who operates a worker: nothing in the core calls them.                  *)
Invalidate(w, rows) ==
    /\ \E k \in rows : cache[w, k] # None
    /\ cache' = [slot \in Slots |->
                    IF slot[1] = w /\ slot[2] \in rows THEN None ELSE cache[slot]]
    /\ UNCHANGED <<clock, commits, reads, patch>>

(* Auth0 replaces its signing key. *)
Rotate(i) ==
    /\ Version(i) < MaxChanges
    /\ commits' = [commits EXCEPT ![i] = Append(@, clock)]
    /\ UNCHANGED <<clock, cache, reads, patch>>

Tick ==
    /\ clock < MaxClock
    /\ clock' = clock + 1
    /\ UNCHANGED <<commits, cache, reads, patch>>

Next ==
    \/ \E r \in Requests : Read(r)
    \/ \E p \in Patches : Write(p)
    \/ \E w \in Workers : Invalidate(w, Gates) \/ Invalidate(w, Issuers)
    \/ \E i \in Issuers : Rotate(i)
    \/ Tick

Spec == Init /\ [][Next]_vars

-----------------------------------------------------------------------------
(* registry.py:63-68, gating.py:41-44: a change has reached every worker a *)
(* TTL after its commit.  Whoever looks at the cache then, or later, is    *)
(* served that change or a newer one, although an older read may have been *)
(* stored after the commit, or over a newer one, or after a clear.         *)
PropagatesWithinTTL ==
    \A r \in Requests : at[r] = "done" =>
        \A v \in 1 .. Version(asks[r].row) :
            commits[asks[r].row][v] + TTL <= now[r] => v <= got[r]

(* security.py:190-199 (M-001): a token is rejected for its key only if    *)
(* Auth0 did not list the key when the request began, or does not any more.*)
ValidKeyAccepted ==
    \A r \in Requests : at[r] = "rejected" =>
        ~(asks[r].kid \in Jwks(seen[r]) \cap Jwks(Version(asks[r].row)))

(* admin_routes.py:229-230: a change of a provider has immediate effect in *)
(* the worker that made it.  It does not: a read between the clear and the *)
(* commit stores the old row again.                                        *)
ProviderEffective ==
    \A p \in Patches :
        LET slot == <<patch[p].worker, patch[p].row>>
        IN  patch[p].at = "answered" /\ slot[2] \in Modalities /\ Fresh(slot) =>
                patch[p].version <= cache[slot].version
=============================================================================
