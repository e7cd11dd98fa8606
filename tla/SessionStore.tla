---------------------------- MODULE SessionStore ----------------------------
(***************************************************************************)
(* The BFF session store on Redis, with its per-process cache              *)
(* (copiloto_core/admin/session_store.py, RedisSessionStore), driven by    *)
(* the handlers of admin/routes.py: the OAuth callback writes a session,   *)
(* the proxy and /admin/api/session read it, logout and an upstream 401    *)
(* delete it.                                                              *)
(*                                                                         *)
(* Requests run on several worker processes.  A Redis command is three     *)
(* steps (sent, applied by the server, answered), so that a delete on one  *)
(* worker lands between the steps of a read on another.  A payload is what *)
(* the store looks at: its expires_at, and whether it parses.              *)
(*                                                                         *)
(* Redis is external; a command may fail, before or after the server       *)
(* applied it, at most MaxFaults times.  The clocks of the workers and of  *)
(* the server are one clock, a natural number that Tick advances.          *)
(***************************************************************************)
EXTENDS Naturals, FiniteSets

CONSTANTS
    Workers,
    Sids,        \* session ids
    Corrupt,     \* sids whose Redis value does not parse (left by an older build)
    Requests,    \* HTTP requests
    None,
    SessionTTL,  \* session_ttl of the callback
    LocalTTL,    \* local_cache_ttl
    CacheMax,    \* local_cache_max_entries
    MaxFaults,   \* bound: failed Redis commands
    MaxClock     \* bound: time

(* What Redis keeps for a session, and what a local cache does. *)
Payloads == [parses : BOOLEAN, exp : Nat, until : Nat]
Entries  == [until : Nat, exp : Nat]

ASSUME StoreAssumption ==
    /\ Corrupt \subseteq Sids
    /\ SessionTTL \in Nat \ {0}
    /\ LocalTTL \in Nat
    /\ CacheMax \in Nat \ {0}
    /\ MaxFaults \in Nat
    /\ MaxClock \in Nat
    /\ None \notin Nat /\ None \notin Payloads

VARIABLES
    clock,
    redis,      \* sid -> None, or the value stored: [parses, exp, until]
    cache,      \* worker -> sid -> None, or the _local_cache entry: [until, exp]
    older,      \* worker -> pairs <<s, t>>: s precedes t in the OrderedDict
    pc,         \* request -> where its handler is
    op,         \* request -> "none", "login", "proxy" or "logout"
    worker,     \* request -> the process that serves it
    sid,        \* request -> the session id it works on
    now,        \* request -> local `now` of get(); the payload's expires_at in set()
    reply,      \* request -> answer of the GET it waits for
    cookies,    \* sids a browser has received
    issued,     \* sids secrets.token_urlsafe has returned
    faulted,    \* requests a Redis command of which failed
    revokedAt   \* sid -> time at which Redis applied its first delete

reqs == <<pc, op, worker, sid, now, reply>>
vars == <<clock, redis, cache, older, reqs, cookies, issued, faulted, revokedAt>>

Init ==
    /\ clock = 0
    /\ redis = [s \in Sids |-> IF s \in Corrupt
                                 THEN [parses |-> FALSE, exp |-> 0, until |-> MaxClock + 1]
                                 ELSE None]
    /\ cache = [w \in Workers |-> [s \in Sids |-> None]]
    /\ older = [w \in Workers |-> {}]
    /\ pc = [r \in Requests |-> "new"]
    /\ op = [r \in Requests |-> "none"]
    /\ worker \in [Requests -> Workers]
    /\ sid = [r \in Requests |-> None]
    /\ now = [r \in Requests |-> 0]
    /\ reply = [r \in Requests |-> None]
    /\ cookies = Corrupt
    /\ issued = Corrupt
    /\ faulted = {}
    /\ revokedAt = [s \in Sids |-> None]

Tick ==
    /\ clock < MaxClock
    /\ clock' = clock + 1
    /\ UNCHANGED <<redis, cache, older, reqs, cookies, issued, faulted, revokedAt>>

-----------------------------------------------------------------------------
(*                            The local cache                              *)

Cached(w) == {s \in Sids : cache[w][s] # None}

(* What get() answers from the cache. *)
Fresh(w, s)  == cache[w][s] # None /\ clock < cache[w][s].until
Usable(w, s) == Fresh(w, s) /\ clock < cache[w][s].exp

(* The order of the other entries when s leaves the OrderedDict. *)
Without(order, s) == {pair \in order : pair[1] # s /\ pair[2] # s}

(* pop(sid, None) *)
Pop(w, s) ==
    /\ cache' = [cache EXCEPT ![w][s] = None]
    /\ older' = [older EXCEPT ![w] = Without(@, s)]

(* Mutant: the entry lives LocalTTL from the answer, not from the request. *)
FillAtAnswer(r) ==
    /\ cache' = [cache EXCEPT ![worker[r]][sid[r]] =
                    [until |-> clock + LocalTTL, exp |-> reply[r].exp]]
    /\ UNCHANGED older

(* _local_cache[sid] = (now + ttl, payload); move_to_end; then popitem of  *)
(* the first entry when there is one too many.                             *)
Fill(r) ==
    LET w == worker[r]
        s == sid[r]
        others == Cached(w) \ {s}
        first == {v \in others : \A u \in others : <<u, v>> \notin older[w]}
        evicted == IF Cardinality(others) >= CacheMax THEN first ELSE {}
        entry == [until |-> now[r] + LocalTTL, exp |-> reply[r].exp]
    IN IF LocalTTL = 0
         THEN UNCHANGED <<cache, older>>
         ELSE /\ cache' = [cache EXCEPT ![w] =
                    [t \in Sids |-> IF t = s THEN entry
                                    ELSE IF t \in evicted THEN None ELSE @[t]]]
              /\ older' = [older EXCEPT ![w] =
                    {pair \in Without(@, s) : pair[1] \notin evicted}
                        \cup {<<t, s>> : t \in others \ evicted}]

(* The fill and the pop of the same sid, in one step of a handler that     *)
(* deletes what it has just read: only an eviction may remain.             *)
FillThenPop(r) ==
    LET w == worker[r]
        s == sid[r]
        others == Cached(w) \ {s}
        first == {v \in others : \A u \in others : <<u, v>> \notin older[w]}
        evicted == IF LocalTTL > 0 /\ Cardinality(others) >= CacheMax THEN first ELSE {}
    IN /\ cache' = [cache EXCEPT ![w] =
            [t \in Sids |-> IF t \in evicted \cup {s} THEN None ELSE @[t]]]
       /\ older' = [older EXCEPT ![w] = {pair \in Without(@, s) : pair[1] \notin evicted}]

-----------------------------------------------------------------------------
(*                    set(): the OAuth callback                            *)

GoTo(r, label) == pc' = [pc EXCEPT ![r] = label]

(* A fresh session id; expires_at is computed before the SET is sent. *)
Login(r, s) ==
    /\ pc[r] = "new"
    /\ s \notin issued
    /\ issued' = issued \cup {s}
    /\ op' = [op EXCEPT ![r] = "login"]
    /\ sid' = [sid EXCEPT ![r] = s]
    /\ now' = [now EXCEPT ![r] = clock + SessionTTL]
    /\ GoTo(r, "set")
    /\ UNCHANGED <<clock, redis, cache, older, worker, reply, cookies, faulted, revokedAt>>

(* Mutant: SET with the wrong unit in EX, a key that dies at once. *)
ApplySetShort(r) ==
    /\ pc[r] = "set"
    /\ redis' = [redis EXCEPT ![sid[r]] = [parses |-> TRUE, exp |-> now[r], until |-> clock + 1]]
    /\ GoTo(r, "stored")
    /\ UNCHANGED <<clock, cache, older, op, worker, sid, now, reply, cookies, issued, faulted,
                   revokedAt>>

(* Mutant: the payload is stored without its expires_at. *)
ApplySetBare(r) ==
    /\ pc[r] = "set"
    /\ redis' = [redis EXCEPT ![sid[r]] =
                    [parses |-> TRUE, exp |-> None, until |-> clock + SessionTTL]]
    /\ GoTo(r, "stored")
    /\ UNCHANGED <<clock, cache, older, op, worker, sid, now, reply, cookies, issued, faulted,
                   revokedAt>>

(* SET ... EX ttl *)
ApplySet(r) ==
    /\ pc[r] = "set"
    /\ redis' = [redis EXCEPT ![sid[r]] =
                    [parses |-> TRUE, exp |-> now[r], until |-> clock + SessionTTL]]
    /\ GoTo(r, "stored")
    /\ UNCHANGED <<clock, cache, older, op, worker, sid, now, reply, cookies, issued, faulted,
                   revokedAt>>

(* The callback's response carries the cookie. *)
LoggedIn(r) ==
    /\ pc[r] = "stored"
    /\ Pop(worker[r], sid[r])
    /\ cookies' = cookies \cup {sid[r]}
    /\ GoTo(r, "loggedin")
    /\ UNCHANGED <<clock, redis, op, worker, sid, now, reply, issued, faulted, revokedAt>>

(* RuntimeError: the callback redirects to the recovery page. *)
SetFails(r) ==
    /\ pc[r] \in {"set", "stored"}
    /\ Cardinality(faulted) < MaxFaults
    /\ faulted' = faulted \cup {r}
    /\ GoTo(r, "loginfailed")
    /\ UNCHANGED <<clock, redis, cache, older, op, worker, sid, now, reply, cookies, issued,
                   revokedAt>>

-----------------------------------------------------------------------------
(*                                get()                                    *)

(* What the caller of get() does with the result in the same step: the     *)
(* proxy goes on or answers 401; logout goes on to delete() in any case.   *)
NotFound(r) == IF op[r] = "logout" THEN "del" ELSE "denied"

Begin(r, kind, s) ==
    /\ pc[r] = "new"
    /\ s \in cookies
    /\ op' = [op EXCEPT ![r] = kind]
    /\ sid' = [sid EXCEPT ![r] = s]
    /\ now' = [now EXCEPT ![r] = clock]
    /\ UNCHANGED <<clock, redis, worker, reply, cookies, issued, faulted, revokedAt>>

(* Answered by the cache.  Logout pops the entry as it goes on to delete.  *)
Hit(r, kind, s) ==
    /\ Begin(r, kind, s)
    /\ Usable(worker[r], s)
    /\ IF kind = "logout"
         THEN Pop(worker[r], s) /\ GoTo(r, "del")
         ELSE UNCHANGED <<cache, older>> /\ GoTo(r, "found")

(* The entry is fresh but its session has expired: purge, a miss. *)
HitExpired(r, kind, s) ==
    /\ Begin(r, kind, s)
    /\ Fresh(worker[r], s)
    /\ ~Usable(worker[r], s)
    /\ Pop(worker[r], s)
    /\ GoTo(r, IF kind = "logout" THEN "del" ELSE "denied")

(* No entry, or a stale one, which is purged: GET. *)
Miss(r, kind, s) ==
    /\ Begin(r, kind, s)
    /\ ~Fresh(worker[r], s)
    /\ Pop(worker[r], s)
    /\ GoTo(r, "get")

Stored(s) == redis[s] # None /\ clock < redis[s].until

ApplyGet(r) ==
    /\ pc[r] = "get"
    /\ reply' = [reply EXCEPT ![r] = IF Stored(sid[r]) THEN redis[sid[r]] ELSE None]
    /\ GoTo(r, "got")
    /\ UNCHANGED <<clock, redis, cache, older, op, worker, sid, now, cookies, issued, faulted,
                   revokedAt>>

(* The GET failed (treated as a miss), or there is no such key.  Logout    *)
(* goes on to delete(), whose first step is to pop the entry.              *)
GotNothing(r) ==
    /\ \/ /\ pc[r] \in {"get", "got"}
          /\ Cardinality(faulted) < MaxFaults
          /\ faulted' = faulted \cup {r}
       \/ /\ pc[r] = "got"
          /\ reply[r] = None
          /\ UNCHANGED faulted
    /\ IF op[r] = "logout" THEN Pop(worker[r], sid[r]) ELSE UNCHANGED <<cache, older>>
    /\ GoTo(r, NotFound(r))
    /\ UNCHANGED <<clock, redis, op, worker, sid, now, reply, cookies, issued, revokedAt>>

(* The value does not parse: a DELETE is sent, and its failure ignored. *)
GotCorrupt(r) ==
    /\ pc[r] = "got"
    /\ reply[r] # None
    /\ ~reply[r].parses
    /\ GoTo(r, "drop")
    /\ UNCHANGED <<clock, redis, cache, older, op, worker, sid, now, reply, cookies, issued,
                   faulted, revokedAt>>

(* The DELETE of a corrupt value, done or failed; then as for a miss. *)
Dropped(r) ==
    /\ pc[r] = "drop"
    /\ \/ /\ redis' = [redis EXCEPT ![sid[r]] = None]
          /\ UNCHANGED faulted
       \/ /\ Cardinality(faulted) < MaxFaults
          /\ faulted' = faulted \cup {r}
          /\ UNCHANGED redis
    /\ IF op[r] = "logout" THEN Pop(worker[r], sid[r]) ELSE UNCHANGED <<cache, older>>
    /\ GoTo(r, NotFound(r))
    /\ UNCHANGED <<clock, op, worker, sid, now, reply, cookies, issued, revokedAt>>

(* Mutant: _active_session_id without its expiry check. *)
GotSessionUnchecked(r) ==
    /\ pc[r] = "got"
    /\ reply[r] # None
    /\ reply[r].parses
    /\ IF op[r] = "logout"
         THEN FillThenPop(r) /\ GoTo(r, "del")
         ELSE Fill(r) /\ GoTo(r, "found")
    /\ UNCHANGED <<clock, redis, op, worker, sid, now, reply, cookies, issued, faulted, revokedAt>>

(* A session: it is cached and returned.  Logout goes on to delete(), and  *)
(* so does _active_session_id when expires_at has passed (248-254).        *)
GotSession(r) ==
    /\ pc[r] = "got"
    /\ reply[r] # None
    /\ reply[r].parses
    /\ IF op[r] = "logout" \/ reply[r].exp < clock
         THEN FillThenPop(r) /\ GoTo(r, "del")
         ELSE Fill(r) /\ GoTo(r, "found")
    /\ UNCHANGED <<clock, redis, op, worker, sid, now, reply, cookies, issued, faulted, revokedAt>>

(* The session let the request through: the handler answers, or the Core   *)
(* says 401 (token expired or session revoked) and the proxy deletes the   *)
(* session.                                                                *)
Served(r) ==
    /\ pc[r] = "found"
    /\ GoTo(r, "ok")
    /\ UNCHANGED <<clock, redis, cache, older, op, worker, sid, now, reply, cookies, issued,
                   faulted, revokedAt>>

Upstream401(r) ==
    /\ pc[r] = "found"
    /\ Pop(worker[r], sid[r])
    /\ GoTo(r, "del")
    /\ UNCHANGED <<clock, redis, op, worker, sid, now, reply, cookies, issued, faulted, revokedAt>>

-----------------------------------------------------------------------------
(*                              delete()                                   *)

(* The entry is already popped; DELETE reaches the server. *)
ApplyDelete(r) ==
    /\ pc[r] = "del"
    /\ redis' = [redis EXCEPT ![sid[r]] = None]
    /\ revokedAt' = [revokedAt EXCEPT ![sid[r]] = IF @ = None THEN clock ELSE @]
    /\ GoTo(r, "deleted")
    /\ UNCHANGED <<clock, cache, older, op, worker, sid, now, reply, cookies, issued, faulted>>

(* delete() returns, True or False; a failure is logged only. *)
DeleteReturns(r) ==
    /\ \/ pc[r] = "deleted" /\ UNCHANGED faulted
       \/ /\ pc[r] \in {"del", "deleted"}
          /\ Cardinality(faulted) < MaxFaults
          /\ faulted' = faulted \cup {r}
    /\ GoTo(r, IF op[r] = "logout" THEN "loggedout" ELSE "denied")
    /\ UNCHANGED <<clock, redis, cache, older, op, worker, sid, now, reply, cookies, issued,
                   revokedAt>>

-----------------------------------------------------------------------------
(*                            specification                                *)

Get(r, kind, s) == Hit(r, kind, s) \/ HitExpired(r, kind, s) \/ Miss(r, kind, s)

Step(r) ==
    \/ ApplySet(r) \/ LoggedIn(r) \/ SetFails(r)
    \/ ApplyGet(r) \/ GotNothing(r) \/ GotCorrupt(r) \/ Dropped(r) \/ GotSession(r)
    \/ Served(r) \/ Upstream401(r)
    \/ ApplyDelete(r) \/ DeleteReturns(r)

Next ==
    \/ Tick
    \/ \E r \in Requests, s \in Sids :
        \/ Login(r, s)
        \/ \E kind \in {"proxy", "logout"} : Get(r, kind, s)
    \/ \E r \in Requests : Step(r)

Spec == Init /\ [][Next]_vars

-----------------------------------------------------------------------------
(*                             properties                                  *)

Labels == {"new", "set", "stored", "loggedin", "loginfailed", "get", "got", "drop", "found",
           "ok", "del", "deleted", "denied", "loggedout"}

StoreOK ==
    /\ redis \in [Sids -> Payloads \cup {None}]
    /\ cache \in [Workers -> [Sids -> Entries \cup {None}]]
    /\ older \in [Workers -> SUBSET (Sids \X Sids)]
    /\ cookies \subseteq Sids
    /\ issued \subseteq Sids
    /\ revokedAt \in [Sids -> Nat \cup {None}]

RequestsOK ==
    /\ pc \in [Requests -> Labels]
    /\ op \in [Requests -> {"none", "login", "proxy", "logout"}]
    /\ worker \in [Requests -> Workers]
    /\ sid \in [Requests -> Sids \cup {None}]
    /\ \A r \in Requests : pc[r] # "new" => sid[r] \in Sids
    /\ now \in [Requests -> Nat]
    /\ reply \in [Requests -> Payloads \cup {None}]
    /\ faulted \subseteq Requests

(* Every variable has its type; a request that has begun has a sid. *)
TypeOK == clock \in Nat /\ StoreOK /\ RequestsOK

(* A revoked session is answered from no worker's cache once LocalTTL has  *)
(* passed since Redis deleted it, however reads and deletes interleave     *)
(* (143-148: "worst-case 5s"; with local_cache_ttl=0, never: 129-132).     *)
RevokedWithinTTL ==
    \A w \in Workers, s \in Sids :
        revokedAt[s] # None /\ Usable(w, s) => clock < revokedAt[s] + LocalTTL

(* A browser that holds the cookie of a session that was neither revoked   *)
(* nor expired is let in by every worker, unless Redis failed (3-7: the    *)
(* silent 401 of a login on one worker and a request on another).          *)
NoSpurious401 ==
    \A r \in Requests : pc[r] = "denied" =>
        \/ revokedAt[sid[r]] # None
        \/ sid[r] \in Corrupt
        \/ r \in faulted
        \/ \E l \in Requests : op[l] = "login" /\ sid[l] = sid[r] /\ now[l] <= clock

(* No request is let in by a session past its expires_at, though Redis     *)
(* keeps the key a little longer and the cache knows nothing of its TTL    *)
(* (167-173; routes.py 244-254).                                           *)
ServedBeforeExpiry ==
    [][\A r \in Requests : pc[r] # "found" /\ pc'[r] = "found" =>
        \E l \in Requests : op[l] = "login" /\ sid[l] = sid'[r] /\ clock <= now[l]]_vars

=============================================================================
