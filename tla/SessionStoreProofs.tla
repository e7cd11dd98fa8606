------------------------- MODULE SessionStoreProofs -------------------------
(***************************************************************************)
(* Proofs about SessionStore: how long a revoked session can be answered   *)
(* from the caches, for any number of workers, sessions and requests, any  *)
(* TTLs, any cache size and any number of Redis failures.                  *)
(***************************************************************************)
EXTENDS SessionStore, TLAPS

(* What pop, and a fill whose entry goes with its fill, leave in the cache *)
(* (session_store.py 172-175, 226, 243).                                   *)
LEMMA PopType ==
    ASSUME StoreOK, NEW w \in Workers, NEW s \in Sids, Pop(w, s)
    PROVE  /\ cache' \in [Workers -> [Sids -> Entries \cup {None}]]
           /\ older' \in [Workers -> SUBSET (Sids \X Sids)]
           /\ \A v \in Workers, t \in Sids : cache'[v][t] \in {None, cache[v][t]}
           /\ cache'[w][s] = None
  BY DEF StoreOK, Pop, Without

(* The fill of an entry that has expired takes it out again.               *)
LEMMA FillThenPopType ==
    ASSUME StoreOK, RequestsOK, NEW r \in Requests, sid[r] \in Sids, FillThenPop(r)
    PROVE  /\ cache' \in [Workers -> [Sids -> Entries \cup {None}]]
           /\ older' \in [Workers -> SUBSET (Sids \X Sids)]
           /\ \A v \in Workers, t \in Sids : cache'[v][t] \in {None, cache[v][t]}
  BY DEF StoreOK, RequestsOK, FillThenPop, Without

(* A fill changes one entry, and may evict others (203-207). *)
LEMMA FillType ==
    ASSUME StoreOK, RequestsOK, NEW r \in Requests, sid[r] \in Sids, reply[r] \in Payloads, Fill(r)
    PROVE  /\ cache' \in [Workers -> [Sids -> Entries \cup {None}]]
           /\ older' \in [Workers -> SUBSET (Sids \X Sids)]
           /\ \A v \in Workers, t \in Sids :
                \/ cache'[v][t] \in {None, cache[v][t]}
                \/ /\ t = sid[r]
                   /\ cache'[v][t] = [until |-> now[r] + LocalTTL, exp |-> reply[r].exp]
  <1>1. [until |-> now[r] + LocalTTL, exp |-> reply[r].exp] \in Entries
    BY StoreAssumption DEF RequestsOK, Payloads, Entries
  <1>2. CASE LocalTTL = 0
    BY <1>2 DEF Fill, StoreOK
  <1>3. CASE LocalTTL # 0
    <2> DEFINE w == worker[r]
               s == sid[r]
               others == Cached(w) \ {s}
               first == {v \in others : \A u \in others : <<u, v>> \notin older[w]}
               evicted == IF Cardinality(others) >= CacheMax THEN first ELSE {}
               entry == [until |-> now[r] + LocalTTL, exp |-> reply[r].exp]
    <2>1. cache' = [cache EXCEPT ![w] =
                    [t \in Sids |-> IF t = s THEN entry
                                    ELSE IF t \in evicted THEN None ELSE @[t]]]
      BY <1>3, Zenon DEF Fill
    <2>2. older' = [older EXCEPT ![w] =
                    {pair \in Without(@, s) : pair[1] \notin evicted}
                        \cup {<<t, s>> : t \in others \ evicted}]
      BY <1>3, Zenon DEF Fill
    <2>3. w \in Workers /\ others \subseteq Sids
      BY DEF RequestsOK, Cached
    <2> HIDE DEF w, s, others, evicted, entry
    <2>4. s \in Sids /\ entry \in Entries
      BY <1>1 DEF s, entry
    <2>5. cache' \in [Workers -> [Sids -> Entries \cup {None}]]
      BY <2>1, <2>3, <2>4 DEF StoreOK
    <2>6. older' \in [Workers -> SUBSET (Sids \X Sids)]
      BY <2>2, <2>3, <2>4 DEF StoreOK, Without
    <2>7. \A v \in Workers, t \in Sids :
            cache'[v][t] \in {None, cache[v][t]} \/ (t = s /\ cache'[v][t] = entry)
      BY <2>1, <2>3, <2>4 DEF StoreOK
    <2> QED  BY <2>5, <2>6, <2>7 DEF s, entry
  <1> QED  BY <1>2, <1>3

(* Every variable keeps its type. *)
THEOREM TypeCorrect == Spec => []TypeOK
  <1>1. Init => TypeOK
    BY StoreAssumption DEF Init, TypeOK, StoreOK, RequestsOK, Labels, Payloads
  <1>2. TypeOK /\ [Next]_vars => TypeOK'
    <2> SUFFICES ASSUME TypeOK, [Next]_vars PROVE TypeOK'
      OBVIOUS
    <2> USE DEF TypeOK
    <2>1. CASE UNCHANGED vars
      BY <2>1 DEF vars, reqs, StoreOK, RequestsOK
    <2>2. CASE Tick
      BY <2>2 DEF Tick, reqs, StoreOK, RequestsOK
    <2>3. ASSUME NEW r \in Requests, NEW s \in Sids, Login(r, s)
          PROVE  TypeOK'
      BY <2>3, StoreAssumption DEF Login, GoTo, StoreOK, RequestsOK, Labels
    <2>4. ASSUME NEW r \in Requests, NEW s \in Sids, NEW kind \in {"proxy", "logout"},
                 Get(r, kind, s)
          PROVE  TypeOK'
      <3>1. worker[r] \in Workers
        BY DEF RequestsOK
      <3>2. Begin(r, kind, s)
        BY <2>4 DEF Get, Hit, HitExpired, Miss
      <3>3. Pop(worker[r], s) \/ UNCHANGED <<cache, older>>
        BY <2>4 DEF Get, Hit, HitExpired, Miss
      <3>4. \E l \in {"found", "del", "denied", "get"} : GoTo(r, l)
        BY <2>4 DEF Get, Hit, HitExpired, Miss
      <3>5. StoreOK'
        BY <3>1, <3>2, <3>3, PopType DEF Begin, StoreOK
      <3>6. RequestsOK'
        BY <3>2, <3>4 DEF Begin, GoTo, RequestsOK, Labels
      <3> QED  BY <3>2, <3>5, <3>6 DEF Begin
    <2>5. ASSUME NEW r \in Requests, Step(r)
          PROVE  TypeOK'
      <3>0. pc[r] # "new"
        BY <2>5 DEF Step, ApplySet, LoggedIn, SetFails, ApplyGet, GotNothing, GotCorrupt, Dropped,
                    GotSession, Served, Upstream401, ApplyDelete, DeleteReturns
      <3>1. sid[r] \in Sids /\ worker[r] \in Workers
        BY <3>0 DEF RequestsOK
      <3>2. ASSUME ApplySet(r) PROVE TypeOK'
        <4>1. [parses |-> TRUE, exp |-> now[r], until |-> clock + SessionTTL] \in Payloads
          BY StoreAssumption DEF RequestsOK, Payloads
        <4> QED  BY <3>1, <3>2, <4>1 DEF ApplySet, GoTo, StoreOK, RequestsOK, Labels
      <3>3. CASE LoggedIn(r)
        BY <3>1, <3>3, PopType DEF LoggedIn, GoTo, StoreOK, RequestsOK, Labels
      <3>4. CASE SetFails(r)
        BY <3>4, <3>1 DEF SetFails, GoTo, StoreOK, RequestsOK, Labels
      <3>5. CASE ApplyGet(r)
        BY <3>5, <3>1 DEF ApplyGet, Stored, GoTo, StoreOK, RequestsOK, Labels
      <3>6. CASE GotNothing(r)
        <4>1. StoreOK'
          BY <3>6, <3>1, PopType DEF GotNothing, StoreOK
        <4>2. RequestsOK'
          BY <3>6, <3>1 DEF GotNothing, NotFound, GoTo, RequestsOK, Labels
        <4> QED  BY <3>6, <4>1, <4>2 DEF GotNothing
      <3>7. CASE GotCorrupt(r)
        BY <3>7, <3>1 DEF GotCorrupt, GoTo, StoreOK, RequestsOK, Labels
      <3>8. CASE Dropped(r)
        <4>1. StoreOK'
          BY <3>8, <3>1, PopType DEF Dropped, StoreOK
        <4>2. RequestsOK'
          BY <3>8, <3>1 DEF Dropped, NotFound, GoTo, RequestsOK, Labels
        <4> QED  BY <3>8, <4>1, <4>2 DEF Dropped
      <3>9. CASE GotSession(r)
        <4>1. reply[r] \in Payloads
          BY <3>9 DEF GotSession, RequestsOK
        <4>2. StoreOK'
          BY <3>9, <3>1, <4>1, FillType, FillThenPopType DEF GotSession, StoreOK
        <4>3. RequestsOK'
          BY <3>9, <3>1 DEF GotSession, GoTo, RequestsOK, Labels
        <4> QED  BY <3>9, <4>2, <4>3 DEF GotSession
      <3>10. CASE Served(r)
        BY <3>10, <3>1 DEF Served, GoTo, StoreOK, RequestsOK, Labels
      <3>11. CASE Upstream401(r)
        BY <3>11, <3>1, PopType DEF Upstream401, GoTo, StoreOK, RequestsOK, Labels
      <3>12. CASE ApplyDelete(r)
        BY <3>12, <3>1 DEF ApplyDelete, GoTo, StoreOK, RequestsOK, Labels
      <3>13. CASE DeleteReturns(r)
        BY <3>13, <3>1 DEF DeleteReturns, GoTo, StoreOK, RequestsOK, Labels
      <3> QED  BY <2>5, <3>2, <3>3, <3>4, <3>5, <3>6, <3>7, <3>8, <3>9, <3>10, <3>11, <3>12, <3>13
               DEF Step
    <2> QED  BY <2>1, <2>2, <2>3, <2>4, <2>5 DEF Next
  <1> QED  BY <1>1, <1>2, PTL DEF Spec

-----------------------------------------------------------------------------
(***************************************************************************)
(* The inductive invariant behind RevokedWithinTTL.  An entry's lifetime   *)
(* is counted from the `now` that get() read before its GET was sent, and  *)
(* a GET that found the session was applied before the delete was; no SET  *)
(* of a session can come after its delete, because its cookie, which the   *)
(* delete needs, is only issued when the SET has returned.                 *)
(***************************************************************************)
Writing == {"set", "stored"}
Using   == {"get", "got", "drop", "found", "ok", "del", "deleted", "denied", "loggedout"}

(* A cached entry is usable for LocalTTL from now, and from the            *)
(* revocation.                                                             *)
CacheInv == \A w \in Workers, s \in Sids : cache[w][s] # None =>
    /\ cache[w][s].until <= clock + LocalTTL
    /\ revokedAt[s] # None => cache[w][s].until <= revokedAt[s] + LocalTTL

(* A reply that brought a session was asked for before the revocation. *)
ReadInv == \A r \in Requests :
    /\ pc[r] \in {"get", "got"} => now[r] <= clock
    /\ pc[r] = "got" /\ reply[r] # None /\ revokedAt[sid[r]] # None =>
            now[r] <= revokedAt[sid[r]]

(* A revoked session is not in Redis and never comes back. *)
RevokedInv == \A s \in Sids : revokedAt[s] # None => redis[s] = None /\ s \in cookies

(* An id is written once, by the login that made it, before its cookie is  *)
(* out.                                                                    *)
LoginInv ==
    /\ cookies \subseteq issued
    /\ \A r \in Requests : pc[r] \in Writing => sid[r] \in issued /\ sid[r] \notin cookies
    /\ \A r, q \in Requests :
            pc[r] \in Writing /\ pc[q] \in Writing /\ sid[r] = sid[q] => r = q

(* A request uses an id that some browser was given. *)
UserInv == \A r \in Requests : pc[r] \in Using => sid[r] \in cookies

(* The inductive invariant of revocation. *)
RevokeInv == CacheInv /\ ReadInv /\ RevokedInv /\ LoginInv /\ UserInv

(* A step that only takes entries out of the caches keeps CacheInv. *)
LEMMA CacheShrinks ==
    ASSUME TypeOK, CacheInv, clock' = clock, revokedAt' = revokedAt,
           \A w \in Workers, s \in Sids : cache'[w][s] \in {None, cache[w][s]}
    PROVE  CacheInv'
  BY DEF CacheInv

(* A request that moves on inside get() or delete() keeps what is known of *)
(* the others.                                                             *)
LEMMA RequestMoves ==
    ASSUME TypeOK, RevokeInv, NEW r \in Requests, NEW l \in Labels,
           pc[r] \in Using, l \in Using \ {"get", "got"}, GoTo(r, l),
           UNCHANGED <<clock, sid, now, reply, cookies, issued, revokedAt>>
    PROVE  ReadInv' /\ LoginInv' /\ UserInv'
  <1>1. \A q \in Requests : pc'[q] = IF q = r THEN l ELSE pc[q]
    BY DEF GoTo, TypeOK, RequestsOK
  <1>2. ReadInv'
    BY <1>1 DEF RevokeInv, ReadInv, Using
  <1>3. LoginInv'
    BY <1>1 DEF RevokeInv, LoginInv, Using, Writing
  <1>4. UserInv'
    BY <1>1 DEF RevokeInv, UserInv, Using
  <1> QED  BY <1>2, <1>3, <1>4

(* The caches and Redis never know more of a revoked session than they may *)
(* (session_store.py 158-255).                                             *)
THEOREM RevokeInvariant == Spec => []RevokeInv
  <1>1. Init => RevokeInv
    BY DEF Init, RevokeInv, CacheInv, ReadInv, RevokedInv, LoginInv, UserInv, Writing, Using
  <1>2. TypeOK /\ RevokeInv /\ [Next]_vars => RevokeInv'
    <2> SUFFICES ASSUME TypeOK, RevokeInv, [Next]_vars PROVE RevokeInv'
      OBVIOUS
    <2>t. /\ clock \in Nat /\ LocalTTL \in Nat
          /\ \A r \in Requests : worker[r] \in Workers
          /\ \A r \in Requests : pc[r] # "new" => sid[r] \in Sids
          /\ \A r \in Requests : now[r] \in Nat
      BY StoreAssumption DEF TypeOK, RequestsOK
    <2>1. CASE UNCHANGED vars
      BY <2>1 DEF vars, reqs, RevokeInv, CacheInv, ReadInv, RevokedInv, LoginInv, UserInv
    <2>2. CASE Tick
      <3>1. CacheInv'
        <4>1. \A w \in Workers, s \in Sids : cache[w][s] # None => cache[w][s].until \in Nat
          BY DEF TypeOK, StoreOK, Entries
        <4> QED  BY <2>2, <2>t, <4>1 DEF Tick, RevokeInv, CacheInv
      <3>2. ReadInv'
        BY <2>2, <2>t DEF Tick, reqs, RevokeInv, ReadInv
      <3>3. RevokedInv' /\ LoginInv' /\ UserInv'
        BY <2>2 DEF Tick, reqs, RevokeInv, RevokedInv, LoginInv, UserInv
      <3> QED  BY <3>1, <3>2, <3>3 DEF RevokeInv
    <2>3. ASSUME NEW r \in Requests, NEW s \in Sids, Login(r, s)
          PROVE  RevokeInv'
      <3>1. /\ \A q \in Requests : pc'[q] = IF q = r THEN "set" ELSE pc[q]
            /\ \A q \in Requests : sid'[q] = IF q = r THEN s ELSE sid[q]
            /\ \A q \in Requests : q # r => now'[q] = now[q]
            /\ issued' = issued \cup {s} /\ s \notin issued
            /\ UNCHANGED <<clock, redis, cache, reply, cookies, revokedAt>>
        BY <2>3 DEF Login, GoTo, TypeOK, RequestsOK
      <3>2. CacheInv' /\ RevokedInv'
        BY <3>1 DEF RevokeInv, CacheInv, RevokedInv
      <3>3. ReadInv'
        BY <3>1 DEF RevokeInv, ReadInv
      <3>4. LoginInv'
        BY <3>1 DEF RevokeInv, LoginInv, Writing
      <3>5. UserInv'
        BY <3>1 DEF RevokeInv, UserInv, Using
      <3> QED  BY <3>2, <3>3, <3>4, <3>5 DEF RevokeInv
    <2>4. ASSUME NEW r \in Requests, NEW s \in Sids, NEW kind \in {"proxy", "logout"},
                 Get(r, kind, s)
          PROVE  RevokeInv'
      <3>1. Begin(r, kind, s)
        BY <2>4 DEF Get, Hit, HitExpired, Miss
      <3>2. Pop(worker[r], s) \/ UNCHANGED cache
        BY <2>4 DEF Get, Hit, HitExpired, Miss
      <3>3. PICK l \in {"found", "del", "denied", "get"} : GoTo(r, l)
        BY <2>4 DEF Get, Hit, HitExpired, Miss
      <3>4. /\ \A q \in Requests : pc'[q] = IF q = r THEN l ELSE pc[q]
            /\ \A q \in Requests : sid'[q] = IF q = r THEN s ELSE sid[q]
            /\ \A q \in Requests : now'[q] = IF q = r THEN clock ELSE now[q]
            /\ UNCHANGED <<clock, redis, reply, cookies, issued, revokedAt>>
            /\ s \in cookies
        BY <3>1, <3>3 DEF Begin, GoTo, TypeOK, RequestsOK
      <3>5. CacheInv'
        <4>1. \A w \in Workers, t \in Sids : cache'[w][t] \in {None, cache[w][t]}
          BY <3>2, <2>t, PopType DEF TypeOK
        <4> QED  BY <4>1, <3>4, CacheShrinks DEF RevokeInv
      <3>6. ReadInv'
        BY <3>4, <2>t DEF RevokeInv, ReadInv
      <3>7. RevokedInv' /\ LoginInv'
        BY <3>4 DEF RevokeInv, RevokedInv, LoginInv, Writing
      <3>8. UserInv'
        BY <3>4 DEF RevokeInv, UserInv
      <3> QED  BY <3>5, <3>6, <3>7, <3>8 DEF RevokeInv
    <2>5. ASSUME NEW r \in Requests, ApplySet(r)
          PROVE  RevokeInv'
      <3>1. /\ pc[r] = "set" /\ sid[r] \in Sids
            /\ \A q \in Requests : pc'[q] = IF q = r THEN "stored" ELSE pc[q]
            /\ \A t \in Sids : t # sid[r] => redis'[t] = redis[t]
            /\ UNCHANGED <<clock, cache, sid, now, reply, cookies, issued, revokedAt>>
        BY <2>5, <2>t DEF ApplySet, GoTo, TypeOK, StoreOK, RequestsOK
      <3>2. revokedAt[sid[r]] = None
        BY <3>1 DEF RevokeInv, RevokedInv, LoginInv, Writing
      <3>3. CacheInv' /\ RevokedInv'
        BY <3>1, <3>2 DEF RevokeInv, CacheInv, RevokedInv
      <3>4. ReadInv' /\ UserInv'
        BY <3>1 DEF RevokeInv, ReadInv, UserInv, Using
      <3>5. LoginInv'
        BY <3>1 DEF RevokeInv, LoginInv, Writing
      <3> QED  BY <3>3, <3>4, <3>5 DEF RevokeInv
    <2>6. ASSUME NEW r \in Requests, LoggedIn(r)
          PROVE  RevokeInv'
      <3>1. /\ pc[r] = "stored" /\ sid[r] \in Sids
            /\ \A q \in Requests : pc'[q] = IF q = r THEN "loggedin" ELSE pc[q]
            /\ cookies' = cookies \cup {sid[r]}
            /\ UNCHANGED <<clock, redis, sid, now, reply, issued, revokedAt>>
        BY <2>6, <2>t DEF LoggedIn, GoTo, TypeOK, RequestsOK
      <3>2. CacheInv'
        BY <2>6, <3>1, <2>t, PopType, CacheShrinks DEF LoggedIn, TypeOK, RevokeInv
      <3>3. ReadInv' /\ RevokedInv' /\ UserInv'
        BY <3>1 DEF RevokeInv, ReadInv, RevokedInv, UserInv, Using
      <3>4. LoginInv'
        BY <3>1 DEF RevokeInv, LoginInv, Writing
      <3> QED  BY <3>2, <3>3, <3>4 DEF RevokeInv
    <2>7. ASSUME NEW r \in Requests, SetFails(r)
          PROVE  RevokeInv'
      <3>1. /\ pc[r] \in Writing
            /\ \A q \in Requests : pc'[q] = IF q = r THEN "loginfailed" ELSE pc[q]
            /\ UNCHANGED <<clock, redis, cache, sid, now, reply, cookies, issued, revokedAt>>
        BY <2>7 DEF SetFails, GoTo, TypeOK, RequestsOK, Writing
      <3>2. CacheInv' /\ RevokedInv'
        BY <3>1 DEF RevokeInv, CacheInv, RevokedInv
      <3>3. ReadInv' /\ LoginInv' /\ UserInv'
        BY <3>1 DEF RevokeInv, ReadInv, LoginInv, UserInv, Using, Writing
      <3> QED  BY <3>2, <3>3 DEF RevokeInv
    <2>8. ASSUME NEW r \in Requests, ApplyGet(r)
          PROVE  RevokeInv'
      <3>1. /\ pc[r] = "get" /\ sid[r] \in Sids
            /\ \A q \in Requests : pc'[q] = IF q = r THEN "got" ELSE pc[q]
            /\ \A q \in Requests : q # r => reply'[q] = reply[q]
            /\ reply'[r] # None => redis[sid[r]] # None
            /\ UNCHANGED <<clock, redis, cache, sid, now, cookies, issued, revokedAt>>
        BY <2>8, <2>t DEF ApplyGet, Stored, GoTo, TypeOK, RequestsOK
      <3>2. reply'[r] # None => revokedAt[sid[r]] = None
        BY <3>1 DEF RevokeInv, RevokedInv
      <3>3. CacheInv' /\ RevokedInv'
        BY <3>1 DEF RevokeInv, CacheInv, RevokedInv
      <3>4. ReadInv'
        BY <3>1, <3>2 DEF RevokeInv, ReadInv
      <3>5. LoginInv' /\ UserInv'
        BY <3>1 DEF RevokeInv, LoginInv, UserInv, Using, Writing
      <3> QED  BY <3>3, <3>4, <3>5 DEF RevokeInv
    <2>9. ASSUME NEW r \in Requests,
                 GotNothing(r) \/ GotCorrupt(r) \/ Dropped(r) \/ Served(r) \/ Upstream401(r)
                    \/ DeleteReturns(r)
          PROVE  RevokeInv'
      <3>1. /\ pc[r] \in Using
            /\ UNCHANGED <<clock, sid, now, reply, cookies, issued, revokedAt>>
        BY <2>9 DEF GotNothing, GotCorrupt, Dropped, Served, Upstream401, DeleteReturns, Using
      <3>2. PICK l \in {"del", "denied", "drop", "ok", "loggedout"} : GoTo(r, l)
        BY <2>9 DEF GotNothing, GotCorrupt, Dropped, Served, Upstream401, DeleteReturns, NotFound
      <3>3. sid[r] \in Sids /\ worker[r] \in Workers
        BY <3>1, <2>t DEF Using
      <3>4. ReadInv' /\ LoginInv' /\ UserInv'
        BY <3>1, <3>2, RequestMoves DEF Using, Labels
      <3>5. Pop(worker[r], sid[r]) \/ UNCHANGED cache
        BY <2>9 DEF GotNothing, GotCorrupt, Dropped, Served, Upstream401, DeleteReturns
      <3>6. CacheInv'
        <4>1. \A w \in Workers, t \in Sids : cache'[w][t] \in {None, cache[w][t]}
          BY <3>3, <3>5, PopType DEF TypeOK
        <4> QED  BY <4>1, <3>1, CacheShrinks DEF RevokeInv
      <3>7. redis' = redis \/ redis' = [redis EXCEPT ![sid[r]] = None]
        BY <2>9 DEF GotNothing, GotCorrupt, Dropped, Served, Upstream401, DeleteReturns
      <3>8. RevokedInv'
        BY <3>1, <3>3, <3>7 DEF RevokeInv, RevokedInv, TypeOK, StoreOK
      <3> QED  BY <3>4, <3>6, <3>8 DEF RevokeInv
    <2>10. ASSUME NEW r \in Requests, GotSession(r)
           PROVE  RevokeInv'
      <3>1. /\ pc[r] = "got" /\ reply[r] # None
            /\ UNCHANGED <<clock, redis, sid, now, reply, cookies, issued, revokedAt>>
        BY <2>10 DEF GotSession
      <3>2. PICK l \in {"del", "found"} : GoTo(r, l)
        BY <2>10 DEF GotSession
      <3>3. sid[r] \in Sids /\ worker[r] \in Workers /\ reply[r] \in Payloads
        BY <3>1, <2>t DEF TypeOK, RequestsOK
      <3>4. ReadInv' /\ LoginInv' /\ UserInv'
        BY <3>1, <3>2, RequestMoves DEF Using, Labels
      <3>5. RevokedInv'
        BY <3>1 DEF RevokeInv, RevokedInv
      <3>6. CASE FillThenPop(r)
        BY <3>6, <3>1, <3>3, <3>4, <3>5, FillThenPopType, CacheShrinks DEF TypeOK, RevokeInv
      <3>7. CASE Fill(r)
        <4> DEFINE entry == [until |-> now[r] + LocalTTL, exp |-> reply[r].exp]
        <4>1. \A v \in Workers, t \in Sids :
                \/ cache'[v][t] \in {None, cache[v][t]}
                \/ t = sid[r] /\ cache'[v][t] = entry
          BY <3>7, <3>3, FillType DEF TypeOK
        <4>2. now[r] <= clock /\ (revokedAt[sid[r]] # None => now[r] <= revokedAt[sid[r]])
          BY <3>1 DEF RevokeInv, ReadInv
        <4>3. entry.until = now[r] + LocalTTL
          OBVIOUS
        <4> HIDE DEF entry
        <4>4. entry.until <= clock + LocalTTL
          BY <4>2, <4>3, <2>t
        <4>5. revokedAt[sid[r]] # None => entry.until <= revokedAt[sid[r]] + LocalTTL
          <5>1. revokedAt[sid[r]] # None => revokedAt[sid[r]] \in Nat
            BY <3>3 DEF TypeOK, StoreOK
          <5> QED  BY <5>1, <4>2, <4>3, <2>t
        <4>6. CacheInv'
          BY <3>1, <4>1, <4>4, <4>5 DEF RevokeInv, CacheInv
        <4> QED  BY <4>6, <3>4, <3>5 DEF RevokeInv
      <3> QED  BY <2>10, <3>6, <3>7 DEF GotSession
    <2>11. ASSUME NEW r \in Requests, ApplyDelete(r)
           PROVE  RevokeInv'
      <3>1. /\ pc[r] = "del" /\ sid[r] \in Sids
            /\ \A q \in Requests : pc'[q] = IF q = r THEN "deleted" ELSE pc[q]
            /\ \A t \in Sids : redis'[t] = IF t = sid[r] THEN None ELSE redis[t]
            /\ \A t \in Sids : revokedAt'[t] = IF t = sid[r] /\ revokedAt[t] = None
                                                 THEN clock ELSE revokedAt[t]
            /\ UNCHANGED <<clock, cache, sid, now, reply, cookies, issued>>
        BY <2>11, <2>t DEF ApplyDelete, GoTo, TypeOK, StoreOK, RequestsOK
      <3>2. sid[r] \in cookies
        BY <3>1 DEF RevokeInv, UserInv, Using
      <3>3. CacheInv'
        BY <3>1 DEF RevokeInv, CacheInv
      <3>4. ReadInv'
        <4>1. \A q \in Requests : pc[q] = "got" => sid[q] \in Sids
          BY <2>t
        <4> QED  BY <3>1, <4>1 DEF RevokeInv, ReadInv
      <3>5. RevokedInv'
        BY <3>1, <3>2 DEF RevokeInv, RevokedInv
      <3>6. LoginInv' /\ UserInv'
        BY <3>1 DEF RevokeInv, LoginInv, UserInv, Using, Writing
      <3> QED  BY <3>3, <3>4, <3>5, <3>6 DEF RevokeInv
    <2> QED  BY <2>1, <2>2, <2>3, <2>4, <2>5, <2>6, <2>7, <2>8, <2>9, <2>10, <2>11 DEF Next, Step
  <1> QED  BY <1>1, <1>2, TypeCorrect, PTL DEF Spec

(* No worker answers a revoked session from its cache later than LocalTTL  *)
(* after Redis deleted it (session_store.py 143-148).                      *)
THEOREM RevokedWithinTTLHolds == Spec => []RevokedWithinTTL
  <1>1. TypeOK /\ RevokeInv => RevokedWithinTTL
    <2> SUFFICES ASSUME TypeOK, RevokeInv, NEW w \in Workers, NEW s \in Sids,
                        revokedAt[s] # None, Usable(w, s)
                 PROVE  clock < revokedAt[s] + LocalTTL
      BY DEF RevokedWithinTTL
    <2>1. cache[w][s] # None /\ clock < cache[w][s].until
      BY DEF Usable, Fresh
    <2>2. cache[w][s].until <= revokedAt[s] + LocalTTL
      BY <2>1 DEF RevokeInv, CacheInv
    <2>3. clock \in Nat /\ cache[w][s].until \in Nat /\ revokedAt[s] \in Nat /\ LocalTTL \in Nat
      BY <2>1, StoreAssumption DEF TypeOK, StoreOK, Entries
    <2> QED  BY <2>1, <2>2, <2>3
  <1> QED  BY <1>1, TypeCorrect, RevokeInvariant, PTL

-----------------------------------------------------------------------------
(*                     what a session's expiry is known from               *)

(* A login has written this expires_at for this session.                   *)
LoginOf(s, e) == \E l \in Requests : op[l] = "login" /\ sid[l] = s /\ now[l] = e

(* What a request does tells what it was for, and what a login will write. *)
OpInv == \A r \in Requests :
    /\ pc[r] = "new" <=> op[r] = "none"
    /\ pc[r] \in Writing => op[r] = "login" /\ now[r] <= clock + SessionTTL

(* Redis, a GET in flight and the caches hold what a login wrote; a key    *)
(* does not go before its payload expires.                                 *)
PayloadInv == \A s \in Sids : redis[s] # None =>
    /\ redis[s].parses => LoginOf(s, redis[s].exp) /\ redis[s].exp <= redis[s].until
    /\ ~redis[s].parses => s \in Corrupt

(* What Redis answered was written by a login, or does not parse. *)
ReplyInv == \A r \in Requests : reply[r] # None =>
    /\ pc[r] # "new"
    /\ reply[r].parses => LoginOf(sid[r], reply[r].exp)
    /\ ~reply[r].parses => sid[r] \in Corrupt

(* What a worker has cached was written by a login. *)
EntryInv == \A w \in Workers, s \in Sids :
    cache[w][s] # None => LoginOf(s, cache[w][s].exp)

(* A session whose cookie is out is in Redis until it is revoked.          *)
KeptInv ==
    /\ \A s \in cookies : redis[s] = None => revokedAt[s] # None \/ s \in Corrupt
    /\ \A r \in Requests : pc[r] = "stored" => redis[sid[r]] # None

(* What may explain a 401. *)
Excused(r) ==
    \/ revokedAt[sid[r]] # None
    \/ sid[r] \in Corrupt
    \/ r \in faulted
    \/ \E l \in Requests : op[l] = "login" /\ sid[l] = sid[r] /\ now[l] <= clock

(* A request is denied, or about to be, only with an excuse. *)
DeniedInv == \A r \in Requests :
    /\ pc[r] = "denied" \/ (pc[r] = "got" /\ reply[r] = None) => Excused(r)
    /\ pc[r] = "drop" => sid[r] \in Corrupt
    /\ pc[r] = "deleted" => revokedAt[sid[r]] # None

(* The inductive invariant of what is served and what is denied. *)
SessionInv == OpInv /\ PayloadInv /\ ReplyInv /\ EntryInv /\ KeptInv /\ DeniedInv
(* A request that has begun keeps what it is about, and what explains a    *)
(* 401 once does so for good.                                              *)
LEMMA RequestKeeps ==
    ASSUME TypeOK, [Next]_vars
    PROVE  /\ \A r \in Requests : pc[r] # "new" =>
                 pc'[r] # "new" /\ op'[r] = op[r] /\ sid'[r] = sid[r] /\ now'[r] = now[r]
           /\ clock' \in Nat /\ clock <= clock' /\ cookies \subseteq cookies' /\ faulted \subseteq faulted'
           /\ \A s \in Sids : revokedAt[s] # None => revokedAt'[s] # None
  <1> USE DEF TypeOK, StoreOK, RequestsOK, GoTo
  <1>1. CASE UNCHANGED vars \/ Tick
    BY <1>1 DEF vars, reqs, Tick
  <1>2. ASSUME NEW r \in Requests, NEW s \in Sids,
               Login(r, s) \/ \E kind \in {"proxy", "logout"} : Get(r, kind, s)
        PROVE  /\ pc[r] = "new" /\ UNCHANGED <<clock, cookies, faulted, revokedAt>>
               /\ \A q \in Requests \ {r} :
                     pc'[q] = pc[q] /\ op'[q] = op[q] /\ sid'[q] = sid[q] /\ now'[q] = now[q]
    BY <1>2 DEF Login, Get, Hit, HitExpired, Miss, Begin
  <1>3. ASSUME NEW r \in Requests, Step(r)
        PROVE  /\ UNCHANGED <<clock, op, sid, now>>
               /\ cookies \subseteq cookies' /\ faulted \subseteq faulted'
               /\ \A q \in Requests : pc[q] # "new" => pc'[q] # "new"
    BY <1>3 DEF Step, ApplySet, LoggedIn, SetFails, ApplyGet, GotNothing, NotFound, GotCorrupt,
       Dropped, GotSession, Served, Upstream401, ApplyDelete, DeleteReturns
  <1>4. ASSUME NEW r \in Requests, Step(r)
        PROVE  \A s \in Sids : revokedAt[s] # None => revokedAt'[s] # None
    BY <1>4, StoreAssumption DEF Step, ApplySet, LoggedIn, SetFails, ApplyGet, GotNothing,
       GotCorrupt, Dropped, GotSession, Served, Upstream401, ApplyDelete, DeleteReturns
  <1> QED  BY <1>1, <1>2, <1>3, <1>4 DEF Next

(* A login that stored a session stays on record. *)
LEMMA LoginStays ==
    ASSUME TypeOK, OpInv, [Next]_vars, NEW s, NEW e, LoginOf(s, e)
    PROVE  \E l \in Requests : op'[l] = "login" /\ sid'[l] = s /\ now'[l] = e
  BY RequestKeeps DEF LoginOf, OpInv

(* What excuses a 401 excuses it for good. *)
LEMMA ExcusedStays ==
    ASSUME TypeOK, OpInv, [Next]_vars, NEW r \in Requests, pc[r] # "new", Excused(r)
    PROVE  Excused(r)'
  <1>1. sid'[r] = sid[r] /\ sid[r] \in Sids
    BY RequestKeeps DEF TypeOK, RequestsOK
  <1>2. CASE revokedAt[sid[r]] # None \/ sid[r] \in Corrupt \/ r \in faulted
    BY <1>1, <1>2, RequestKeeps DEF Excused
  <1>3. ASSUME NEW l \in Requests, op[l] = "login", sid[l] = sid[r], now[l] <= clock
        PROVE  Excused(r)'
    <2>1. op'[l] = "login" /\ sid'[l] = sid'[r] /\ now'[l] = now[l] /\ clock <= clock'
      BY <1>1, <1>3, RequestKeeps DEF OpInv
    <2>2. now[l] \in Nat /\ clock \in Nat /\ clock' \in Nat
      BY RequestKeeps DEF TypeOK, RequestsOK
    <2> QED  BY <1>3, <2>1, <2>2 DEF Excused
  <1> QED  BY <1>2, <1>3 DEF Excused

(* Where the stored payloads, the replies and the entries come from.       *)
LEMMA PayloadSources ==
    ASSUME TypeOK, [Next]_vars
    PROVE  /\ \A s \in Sids : redis'[s] \in {None, redis[s]} \/
                 \E r \in Requests : ApplySet(r) /\ s = sid[r]
           /\ \A r \in Requests : reply'[r] = reply[r] \/ ApplyGet(r)
           /\ \A w \in Workers, s \in Sids : cache'[w][s] \in {None, cache[w][s]} \/
                 \E r \in Requests : GotSession(r) /\ s = sid[r] /\ cache'[w][s].exp = reply[r].exp
  <1> USE DEF TypeOK
  <1>1. CASE UNCHANGED <<redis, reply, cache>>
    BY <1>1
  <1>2. ASSUME NEW r \in Requests, NEW s \in Sids, NEW kind \in {"proxy", "logout"},
               Get(r, kind, s)
        PROVE  /\ UNCHANGED <<redis, reply>>
               /\ \A w \in Workers, t \in Sids : cache'[w][t] \in {None, cache[w][t]}
    BY <1>2, PopType DEF RequestsOK, Get, Hit, HitExpired, Miss, Begin
  <1>3. ASSUME NEW r \in Requests,
               LoggedIn(r) \/ GotNothing(r) \/ Dropped(r) \/ Upstream401(r)
        PROVE  /\ UNCHANGED reply
               /\ \A s \in Sids : redis'[s] \in {None, redis[s]}
               /\ \A w \in Workers, t \in Sids : cache'[w][t] \in {None, cache[w][t]}
    <2>1. worker[r] \in Workers /\ sid[r] \in Sids
      BY <1>3 DEF RequestsOK, LoggedIn, GotNothing, Dropped, Upstream401
    <2>2. Pop(worker[r], sid[r]) \/ UNCHANGED cache
      BY <1>3 DEF LoggedIn, GotNothing, Dropped, Upstream401
    <2>3. UNCHANGED reply /\ redis' \in {redis, [redis EXCEPT ![sid[r]] = None]}
      BY <1>3 DEF LoggedIn, GotNothing, Dropped, Upstream401
    <2> QED  BY <2>1, <2>2, <2>3, PopType DEF StoreOK
  <1>4. ASSUME NEW r \in Requests, ApplySet(r)
        PROVE  /\ UNCHANGED <<reply, cache>>
               /\ \A s \in Sids : s # sid[r] => redis'[s] = redis[s]
    BY <1>4 DEF ApplySet, StoreOK
  <1>5. ASSUME NEW r \in Requests, ApplyGet(r)
        PROVE  /\ UNCHANGED <<redis, cache>>
               /\ \A q \in Requests : q # r => reply'[q] = reply[q]
    BY <1>5 DEF ApplyGet, RequestsOK
  <1>6. ASSUME NEW r \in Requests, ApplyDelete(r)
        PROVE  /\ UNCHANGED <<reply, cache>>
               /\ \A s \in Sids : redis'[s] \in {None, redis[s]}
    BY <1>6 DEF ApplyDelete, StoreOK
  <1>7. ASSUME NEW r \in Requests, GotSession(r)
        PROVE  /\ UNCHANGED <<redis, reply>>
               /\ \A w \in Workers, s \in Sids : cache'[w][s] \in {None, cache[w][s]} \/
                     (s = sid[r] /\ cache'[w][s].exp = reply[r].exp)
    <2>1. sid[r] \in Sids /\ reply[r] \in Payloads /\ UNCHANGED <<redis, reply>>
      BY <1>7 DEF GotSession, RequestsOK
    <2>2. CASE FillThenPop(r)
      BY <2>1, <2>2, FillThenPopType
    <2>3. CASE Fill(r)
      <3>1. \A v \in Workers, t \in Sids :
               \/ cache'[v][t] \in {None, cache[v][t]}
               \/ t = sid[r] /\ cache'[v][t] = [until |-> now[r] + LocalTTL, exp |-> reply[r].exp]
        BY <2>1, <2>3, FillType
      <3> QED  BY <2>1, <3>1
    <2> QED  BY <1>7, <2>2, <2>3 DEF GotSession
  <1>8. ASSUME NEW r \in Requests, SetFails(r) \/ GotCorrupt(r) \/ Served(r) \/ DeleteReturns(r)
        PROVE  UNCHANGED <<redis, reply, cache>>
    BY <1>8 DEF SetFails, GotCorrupt, Served, DeleteReturns
  <1>9. ASSUME NEW r \in Requests, NEW s \in Sids, Login(r, s)
        PROVE  UNCHANGED <<redis, reply, cache>>
    BY <1>9 DEF Login
  <1> QED  BY <1>1, <1>2, <1>3, <1>4, <1>5, <1>6, <1>7, <1>8, <1>9 DEF Next, Step, vars, reqs, Tick
(* What is known of expiries stays known: a SET writes the expiry its      *)
(* login has computed, and GETs and fills hand on what they were given.    *)
LEMMA PayloadStep ==
    ASSUME TypeOK, OpInv, PayloadInv, ReplyInv, EntryInv, [Next]_vars
    PROVE  PayloadInv' /\ ReplyInv' /\ EntryInv'
  <1>1. ASSUME NEW s \in Sids, redis'[s] # None
        PROVE  /\ redis'[s].parses => LoginOf(s, redis[s].exp)' /\ redis'[s].exp <= redis'[s].until
               /\ ~redis'[s].parses => s \in Corrupt
    <2>1. CASE redis'[s] = redis[s]
      <3>1. redis[s].parses => LoginOf(s, redis[s].exp) /\ redis[s].exp <= redis[s].until
        BY <1>1, <2>1 DEF PayloadInv
      <3>2. ~redis[s].parses => s \in Corrupt
        BY <1>1, <2>1 DEF PayloadInv
      <3>3. redis[s].parses => LoginOf(s, redis[s].exp)'
        BY <2>1, <3>1, LoginStays DEF LoginOf
      <3> QED  BY <2>1, <3>1, <3>2, <3>3
    <2>2. ASSUME NEW r \in Requests, ApplySet(r), s = sid[r]
          PROVE  /\ redis'[s].parses /\ redis'[s].exp = now[r]
                 /\ redis'[s].until = clock + SessionTTL
                 /\ op[r] = "login" /\ now[r] <= clock + SessionTTL
      BY <2>2 DEF ApplySet, OpInv, Writing, TypeOK, StoreOK
    <2>3. ASSUME NEW r \in Requests, ApplySet(r), s = sid[r]
          PROVE  LoginOf(s, redis[s].exp)'
      <3>1. pc[r] # "new" /\ op[r] = "login" /\ redis'[s].exp = now[r]
        BY <2>2, <2>3 DEF ApplySet
      <3>2. op'[r] = "login" /\ sid'[r] = s /\ now'[r] = redis'[s].exp
        BY <2>3, <3>1, RequestKeeps
      <3> QED  BY <3>2 DEF LoginOf
    <2> QED  BY <1>1, <2>1, <2>2, <2>3, PayloadSources
  <1>2. ASSUME NEW r \in Requests, reply'[r] # None
        PROVE  /\ pc'[r] # "new"
               /\ reply'[r].parses => LoginOf(sid[r], reply'[r].exp)
               /\ ~reply'[r].parses => sid[r] \in Corrupt
               /\ sid'[r] = sid[r]
    <2>1. CASE reply'[r] = reply[r]
      BY <1>2, <2>1, RequestKeeps DEF ReplyInv
    <2>2. CASE ApplyGet(r)
      <3>1. pc[r] = "get" /\ reply'[r] = redis[sid[r]] /\ redis[sid[r]] # None
        BY <1>2, <2>2 DEF ApplyGet, TypeOK, RequestsOK
      <3>2. sid[r] \in Sids
        BY <3>1 DEF TypeOK, RequestsOK
      <3> QED  BY <3>1, <3>2, RequestKeeps DEF PayloadInv
    <2> QED  BY <2>1, <2>2, PayloadSources
  <1>3. ASSUME NEW r \in Requests, reply'[r] # None, reply'[r].parses
        PROVE  LoginOf(sid[r], reply[r].exp)'
    <2>1. LoginOf(sid[r], reply'[r].exp) /\ sid'[r] = sid[r]
      BY <1>2, <1>3
    <2>2. \E l \in Requests : op'[l] = "login" /\ sid'[l] = sid[r] /\ now'[l] = reply'[r].exp
      BY <2>1, LoginStays
    <2> QED  BY <2>1, <2>2 DEF LoginOf
  <1>r. ReplyInv'
    BY <1>2, <1>3 DEF ReplyInv
  <1>4. ASSUME NEW w \in Workers, NEW s \in Sids, cache'[w][s] # None
        PROVE  LoginOf(s, cache'[w][s].exp)
    <2>1. CASE cache'[w][s] = cache[w][s]
      BY <1>4, <2>1 DEF EntryInv
    <2>2. ASSUME NEW r \in Requests, GotSession(r), s = sid[r], cache'[w][s].exp = reply[r].exp
          PROVE  LoginOf(s, cache'[w][s].exp)
      BY <2>2 DEF GotSession, ReplyInv
    <2> QED  BY <1>4, <2>1, <2>2, PayloadSources
  <1>5. EntryInv'
    BY <1>4, LoginStays DEF EntryInv, LoginOf
  <1> QED  BY <1>1, <1>r, <1>5 DEF PayloadInv

(* Every step keeps OpInv. *)
LEMMA OpStep ==
    ASSUME TypeOK, OpInv, [Next]_vars
    PROVE  OpInv'
  <1> USE DEF TypeOK, RequestsOK, GoTo
  <1>1. CASE UNCHANGED vars \/ Tick
    BY <1>1, StoreAssumption DEF vars, reqs, Tick, OpInv, Writing
  <1>2. ASSUME NEW r \in Requests, NEW s \in Sids, Login(r, s)
        PROVE  OpInv'
    BY <1>2, StoreAssumption DEF Login, OpInv, Writing
  <1>3. ASSUME NEW r \in Requests, NEW s \in Sids, NEW kind \in {"proxy", "logout"},
               Get(r, kind, s)
        PROVE  OpInv'
    BY <1>3 DEF Get, Hit, HitExpired, Miss, Begin, OpInv, Writing
  <1>4. ASSUME NEW r \in Requests, Step(r)
        PROVE  OpInv'
    <2>1. UNCHANGED <<op, now, clock>> /\ pc[r] # "new"
      BY <1>4 DEF Step, ApplySet, LoggedIn, SetFails, ApplyGet, GotNothing, GotCorrupt, Dropped,
         GotSession, Served, Upstream401, ApplyDelete, DeleteReturns
    <2>2. PICK label \in Labels \ {"new", "set"} :
             GoTo(r, label) /\ (label = "stored" => pc[r] = "set")
      BY <1>4 DEF Step, ApplySet, LoggedIn, SetFails, ApplyGet, GotNothing, NotFound, GotCorrupt,
         Dropped, GotSession, Served, Upstream401, ApplyDelete, DeleteReturns, Labels
    <2> QED  BY <2>1, <2>2 DEF OpInv, Writing
  <1> QED  BY <1>1, <1>2, <1>3, <1>4 DEF Next

(* Only a delete, or the value being corrupt, takes a session out of Redis *)
(* that a browser has the cookie of, or whose callback is to return.       *)
LEMMA KeptStep ==
    ASSUME TypeOK, RevokeInv, OpInv, ReplyInv, KeptInv, DeniedInv, [Next]_vars
    PROVE  KeptInv'
  <1>1. ASSUME NEW s \in Sids, redis[s] # None, redis'[s] = None
        PROVE  /\ revokedAt'[s] # None \/ s \in Corrupt
               /\ s \in cookies
    <2>1. PICK r \in Requests : (Dropped(r) \/ ApplyDelete(r)) /\ sid[r] = s
      <3>1. ASSUME NEW r \in Requests, Step(r), ~Dropped(r), ~ApplyDelete(r)
            PROVE  redis'[s] # None
        <4>1. CASE ApplySet(r)
          <5>1. [parses |-> TRUE, exp |-> now[r], until |-> clock + SessionTTL] \in Payloads
            BY StoreAssumption DEF TypeOK, RequestsOK, Payloads
          <5> QED  BY <1>1, <4>1, <5>1, StoreAssumption DEF ApplySet, TypeOK, StoreOK
        <4>2. CASE ~ApplySet(r)
          BY <1>1, <3>1, <4>2 DEF Step, LoggedIn, SetFails, ApplyGet, GotNothing, GotCorrupt,
             GotSession, Served, Upstream401, DeleteReturns
        <4> QED  BY <4>1, <4>2
      <3>2. ASSUME NEW r \in Requests, Dropped(r) \/ ApplyDelete(r)
            PROVE  sid[r] = s
        BY <1>1, <3>2 DEF Dropped, ApplyDelete, TypeOK, StoreOK
      <3>3. \E r \in Requests : Step(r)
        BY <1>1 DEF Next, Tick, Login, Get, Hit, HitExpired, Miss, Begin, vars
      <3> QED  BY <1>1, <3>1, <3>2, <3>3
    <2>2. pc[r] \in {"drop", "del"}
      BY <2>1 DEF Dropped, ApplyDelete
    <2>3. s \in cookies
      BY <2>1, <2>2 DEF RevokeInv, UserInv, Using
    <2>4. CASE Dropped(r)
      BY <2>1, <2>3, <2>4 DEF Dropped, DeniedInv
    <2>5. CASE ApplyDelete(r)
      <3>1. revokedAt'[s] # None
        BY <2>1, <2>5, StoreAssumption DEF ApplyDelete, TypeOK, StoreOK
      <3> QED  BY <2>3, <3>1
    <2> QED  BY <2>1, <2>4, <2>5
  <1>2. ASSUME NEW s \in cookies', redis'[s] = None
        PROVE  revokedAt'[s] # None \/ s \in Corrupt
    <2>1. s \in cookies => s \in Sids
      BY DEF TypeOK, StoreOK
    <2>2. CASE s \in cookies
      BY <1>1, <1>2, <2>1, <2>2, RequestKeeps DEF KeptInv
    <2>3. CASE s \notin cookies
      <3>1. PICK r \in Requests : LoggedIn(r)
        <4>1. cookies' # cookies
          BY <1>2, <2>3
        <4>2. PICK r \in Requests : Step(r)
          BY <4>1 DEF Next, vars, Tick, Login, Get, Hit, HitExpired, Miss, Begin
        <4> QED  BY <4>1, <4>2 DEF Step, ApplySet, SetFails, ApplyGet, GotNothing, GotCorrupt,
           Dropped, GotSession, Served, Upstream401, ApplyDelete, DeleteReturns
      <3>2. s = sid[r] /\ pc[r] = "stored" /\ redis' = redis
        BY <1>2, <2>3, <3>1 DEF LoggedIn
      <3> QED  BY <1>2, <3>2 DEF KeptInv
    <2> QED  BY <2>2, <2>3
  <1>3. ASSUME NEW r \in Requests, pc'[r] = "stored"
        PROVE  redis'[sid'[r]] # None
    <2>1. CASE pc[r] = "stored"
      <3>1. sid[r] \in Sids /\ sid'[r] = sid[r] /\ redis[sid[r]] # None /\ sid[r] \notin cookies
        BY <2>1, RequestKeeps DEF TypeOK, RequestsOK, KeptInv, RevokeInv, LoginInv, Writing
      <3> QED  BY <1>1, <3>1
    <2>2. CASE pc[r] # "stored"
      <3>1. ApplySet(r)
        <4>1. ASSUME NEW q \in Requests, NEW s \in Sids,
                     Login(q, s) \/ \E kind \in {"proxy", "logout"} : Get(q, kind, s)
              PROVE  FALSE
          BY <1>3, <2>2, <4>1 DEF Login, Get, Hit, HitExpired, Miss, GoTo, TypeOK, RequestsOK
        <4>2. ASSUME NEW q \in Requests, Step(q)
              PROVE  ApplySet(r)
          BY <1>3, <2>2, <4>2 DEF Step, ApplySet, LoggedIn, SetFails, ApplyGet, GotNothing,
             NotFound, GotCorrupt, Dropped, GotSession, Served, Upstream401, ApplyDelete,
             DeleteReturns, GoTo, TypeOK, RequestsOK
        <4> QED  BY <1>3, <2>2, <4>1, <4>2 DEF Next, vars, reqs, Tick
      <3>2. sid'[r] = sid[r] /\ sid[r] \in Sids
        BY <3>1 DEF ApplySet, TypeOK, RequestsOK
      <3>3. redis'[sid[r]] = [parses |-> TRUE, exp |-> now[r], until |-> clock + SessionTTL]
        BY <3>1, <3>2 DEF ApplySet, TypeOK, StoreOK
      <3>4. redis'[sid[r]] \in Payloads
        BY <3>3, StoreAssumption DEF TypeOK, RequestsOK, Payloads
      <3> QED  BY <3>2, <3>4, StoreAssumption
    <2> QED  BY <2>1, <2>2
  <1> QED  BY <1>2, <1>3 DEF KeptInv
(* A GET that finds nothing finds a session that was revoked, was never    *)
(* readable, or has run out: only these, and a fault, end in a 401.        *)
LEMMA DeniedStep ==
    ASSUME TypeOK, RevokeInv, OpInv, PayloadInv, ReplyInv, EntryInv, KeptInv, DeniedInv,
           [Next]_vars
    PROVE  DeniedInv'
  <1>1. ASSUME NEW r \in Requests, pc'[r] = pc[r], reply'[r] = reply[r]
        PROVE  /\ pc'[r] = "denied" \/ (pc'[r] = "got" /\ reply'[r] = None) => Excused(r)'
               /\ pc'[r] = "drop" => sid'[r] \in Corrupt
               /\ pc'[r] = "deleted" => revokedAt'[sid'[r]] # None
    <2>1. pc[r] # "new" => sid[r] \in Sids /\ sid'[r] = sid[r]
      BY RequestKeeps DEF TypeOK, RequestsOK
    <2>2. pc[r] # "new" /\ Excused(r) => Excused(r)'
      BY ExcusedStays
    <2> QED  BY <1>1, <2>1, <2>2, RequestKeeps DEF DeniedInv
  <1>2. ASSUME NEW r \in Requests, NEW s \in Sids,
               Login(r, s) \/ \E kind \in {"proxy", "logout"} : Get(r, kind, s)
        PROVE  /\ pc'[r] \in {"set", "found", "del", "denied", "get"}
               /\ pc'[r] = "denied" => Excused(r)'
    <2>1. /\ pc'[r] \in {"set", "found", "del", "denied", "get"}
          /\ pc'[r] = "denied" =>
                 /\ sid'[r] = s
                 /\ Fresh(worker[r], s) /\ ~Usable(worker[r], s)
                 /\ clock' = clock
      BY <1>2 DEF Login, Get, Hit, HitExpired, Miss, Begin, GoTo, TypeOK, RequestsOK
    <2>2. ASSUME pc'[r] = "denied"
          PROVE  Excused(r)'
      <3>1. cache[worker[r]][s] # None /\ ~(clock < cache[worker[r]][s].exp)
        BY <2>1, <2>2 DEF Fresh, Usable
      <3>2. worker[r] \in Workers
        BY DEF TypeOK, RequestsOK
      <3>3. PICK l \in Requests : op[l] = "login" /\ sid[l] = s /\ now[l] = cache[worker[r]][s].exp
        BY <3>1, <3>2 DEF EntryInv, LoginOf
      <3>4. op'[l] = "login" /\ sid'[l] = s /\ now'[l] = now[l] /\ now[l] \in Nat
        BY <3>3, RequestKeeps DEF OpInv, TypeOK, RequestsOK
      <3>5. now'[l] <= clock'
        BY <2>1, <2>2, <3>1, <3>3, <3>4 DEF TypeOK
      <3> QED  BY <2>1, <2>2, <3>4, <3>5 DEF Excused
    <2> QED  BY <2>1, <2>2
  <1>3. ASSUME NEW r \in Requests, ApplyGet(r), reply'[r] = None
        PROVE  Excused(r)'
    <2>1. pc[r] = "get" /\ sid[r] \in Sids /\ sid[r] \in cookies /\ sid'[r] = sid[r]
      BY <1>3, RequestKeeps DEF ApplyGet, TypeOK, RequestsOK, RevokeInv, UserInv, Using
    <2>2. CASE redis[sid[r]] = None
      BY <2>1, <2>2, ExcusedStays DEF KeptInv, Excused
    <2>3. CASE redis[sid[r]] # None /\ ~(clock < redis[sid[r]].until)
      <3>1. CASE ~redis[sid[r]].parses
        BY <2>1, <2>3, <3>1, ExcusedStays DEF PayloadInv, Excused
      <3>2. CASE redis[sid[r]].parses
        <4>1. LoginOf(sid[r], redis[sid[r]].exp) /\ redis[sid[r]].exp <= redis[sid[r]].until
          BY <2>1, <2>3, <3>2 DEF PayloadInv
        <4>2. redis[sid[r]] \in Payloads /\ clock \in Nat
          BY <2>1, <2>3 DEF TypeOK, StoreOK
        <4>3. redis[sid[r]].exp <= clock
          BY <2>3, <4>1, <4>2 DEF Payloads
        <4> QED  BY <2>1, <4>1, <4>3, ExcusedStays DEF Excused, LoginOf
      <3> QED  BY <3>1, <3>2
    <2>4. redis[sid[r]] = None \/ (redis[sid[r]] # None /\ ~(clock < redis[sid[r]].until))
      <3>1. reply'[r] = IF Stored(sid[r]) THEN redis[sid[r]] ELSE None
        BY <1>3 DEF ApplyGet, TypeOK, RequestsOK
      <3> QED  BY <1>3, <3>1 DEF Stored
    <2> QED  BY <2>2, <2>3, <2>4
  <1>4. ASSUME NEW r \in Requests, Step(r), ~ApplyGet(r)
        PROVE  /\ pc'[r] # "got"
               /\ pc'[r] = "denied" => Excused(r)'
               /\ pc'[r] = "drop" => sid'[r] \in Corrupt
               /\ pc'[r] = "deleted" => revokedAt'[sid'[r]] # None
    <2>1. pc[r] # "new" /\ sid[r] \in Sids /\ sid'[r] = sid[r]
      <3>1. pc[r] # "new"
        BY <1>4 DEF Step, ApplySet, LoggedIn, SetFails, ApplyGet, GotNothing, GotCorrupt, Dropped,
           GotSession, Served, Upstream401, ApplyDelete, DeleteReturns
      <3> QED  BY <3>1, RequestKeeps DEF TypeOK, RequestsOK
    <2>2. CASE ApplySet(r) \/ LoggedIn(r) \/ SetFails(r) \/ Served(r) \/ Upstream401(r)
                 \/ GotSession(r)
      BY <2>2 DEF ApplySet, LoggedIn, SetFails, Served, Upstream401, GotSession, GoTo, TypeOK,
                  RequestsOK
    <2>3. CASE GotNothing(r)
      <3>1. r \in faulted' \/ Excused(r)
        BY <2>3 DEF GotNothing, DeniedInv
      <3>2. Excused(r)'
        BY <2>1, <3>1, ExcusedStays DEF Excused
      <3> QED  BY <2>3, <3>2 DEF GotNothing, NotFound, GoTo, TypeOK, RequestsOK
    <2>4. CASE GotCorrupt(r)
      <3>1. sid[r] \in Corrupt
        BY <2>4 DEF GotCorrupt, ReplyInv
      <3> QED  BY <2>1, <2>4, <3>1 DEF GotCorrupt, GoTo, TypeOK, RequestsOK
    <2>5. CASE Dropped(r)
      <3>1. sid[r] \in Corrupt
        BY <2>5 DEF Dropped, DeniedInv
      <3>2. Excused(r)'
        BY <2>1, <3>1 DEF Excused
      <3> QED  BY <2>5, <3>2 DEF Dropped, NotFound, GoTo, TypeOK, RequestsOK
    <2>6. CASE ApplyDelete(r)
      <3>1. pc'[r] = "deleted"
        BY <2>6 DEF ApplyDelete, GoTo, TypeOK, RequestsOK
      <3>2. revokedAt'[sid[r]] = IF revokedAt[sid[r]] = None THEN clock ELSE revokedAt[sid[r]]
        BY <2>1, <2>6 DEF ApplyDelete, TypeOK, StoreOK
      <3>3. clock # None
        BY StoreAssumption DEF TypeOK
      <3> QED  BY <2>1, <3>1, <3>2, <3>3
    <2>7. CASE DeleteReturns(r)
      <3>1. r \in faulted' \/ revokedAt[sid[r]] # None
        BY <2>7 DEF DeleteReturns, DeniedInv
      <3>2. Excused(r)'
        BY <2>1, <3>1, RequestKeeps DEF Excused
      <3> QED  BY <2>7, <3>2 DEF DeleteReturns, GoTo, TypeOK, RequestsOK
    <2> QED  BY <1>4, <2>2, <2>3, <2>4, <2>5, <2>6, <2>7 DEF Step
  <1>5. ASSUME NEW r \in Requests, ~(pc'[r] = pc[r] /\ reply'[r] = reply[r])
        PROVE  \/ \E s \in Sids : Login(r, s) \/ \E kind \in {"proxy", "logout"} : Get(r, kind, s)
               \/ Step(r)
    <2>1. ASSUME NEW q \in Requests, NEW s \in Sids,
                 Login(q, s) \/ \E kind \in {"proxy", "logout"} : Get(q, kind, s), q # r
          PROVE  pc'[r] = pc[r] /\ reply'[r] = reply[r]
      BY <2>1 DEF Login, Get, Hit, HitExpired, Miss, Begin, GoTo, TypeOK, RequestsOK
    <2>2. ASSUME NEW q \in Requests, Step(q), q # r
          PROVE  pc'[r] = pc[r] /\ reply'[r] = reply[r]
      BY <2>2 DEF Step, ApplySet, LoggedIn, SetFails, ApplyGet, GotNothing, GotCorrupt, Dropped,
         GotSession, Served, Upstream401, ApplyDelete, DeleteReturns, GoTo, TypeOK, RequestsOK
    <2> QED  BY <1>5, <2>1, <2>2 DEF Next, Tick, vars, reqs
  <1>6. ASSUME NEW r \in Requests
        PROVE  /\ pc'[r] = "denied" \/ (pc'[r] = "got" /\ reply'[r] = None) => Excused(r)'
               /\ pc'[r] = "drop" => sid'[r] \in Corrupt
               /\ pc'[r] = "deleted" => revokedAt'[sid'[r]] # None
    <2>1. CASE pc'[r] = pc[r] /\ reply'[r] = reply[r]
      BY <1>1, <2>1
    <2>2. CASE \E s \in Sids : Login(r, s) \/ \E kind \in {"proxy", "logout"} : Get(r, kind, s)
      BY <1>2, <2>2
    <2>3. CASE ApplyGet(r)
      <3>1. pc'[r] = "got"
        BY <2>3 DEF ApplyGet, GoTo, TypeOK, RequestsOK
      <3> QED  BY <1>3, <2>3, <3>1
    <2>4. CASE Step(r) /\ ~ApplyGet(r)
      BY <1>4, <2>4
    <2> QED  BY <1>5, <2>1, <2>2, <2>3, <2>4
  <1> QED  BY <1>6 DEF DeniedInv

(* What the store knows of a session's expiry is what its login wrote, and *)
(* a session is gone only for a reason (session_store.py 158-255).         *)
THEOREM SessionInvariant == Spec => []SessionInv
  <1>1. Init => SessionInv
    BY DEF Init, SessionInv, OpInv, PayloadInv, ReplyInv, EntryInv, KeptInv, DeniedInv, Writing
  <1>2. TypeOK /\ RevokeInv /\ SessionInv /\ [Next]_vars => SessionInv'
    BY PayloadStep, OpStep, KeptStep, DeniedStep DEF SessionInv
  <1> QED  BY <1>1, <1>2, TypeCorrect, RevokeInvariant, PTL DEF Spec

(* A browser is never turned away with the cookie of a session that works, *)
(* whichever worker it reaches, unless Redis failed (3-7).                 *)
THEOREM NoSpurious401Holds == Spec => []NoSpurious401
  <1>1. SessionInv => NoSpurious401
    BY DEF SessionInv, DeniedInv, Excused, NoSpurious401
  <1> QED  BY <1>1, SessionInvariant, PTL

(* No request is let in by a session past its expires_at, from Redis or    *)
(* from any cache (167-173; routes.py 244-254).                            *)
THEOREM ServedBeforeExpiryHolds == Spec => ServedBeforeExpiry
  <1>1. ASSUME TypeOK, SessionInv, [Next]_vars, NEW r \in Requests,
               pc[r] # "found", pc'[r] = "found"
        PROVE  \E l \in Requests : op[l] = "login" /\ sid[l] = sid'[r] /\ clock <= now[l]
    <2>1. ASSUME NEW s \in Sids, NEW kind \in {"proxy", "logout"}, Get(r, kind, s)
          PROVE  \E l \in Requests : op[l] = "login" /\ sid[l] = sid'[r] /\ clock <= now[l]
      <3>1. Usable(worker[r], s) /\ sid'[r] = s /\ worker[r] \in Workers
        BY <1>1, <2>1 DEF Get, Hit, HitExpired, Miss, Begin, GoTo, TypeOK, RequestsOK
      <3>2. cache[worker[r]][s] # None /\ clock < cache[worker[r]][s].exp
        BY <3>1 DEF Usable, Fresh
      <3>3. PICK l \in Requests : op[l] = "login" /\ sid[l] = s /\ now[l] = cache[worker[r]][s].exp
        BY <1>1, <3>1, <3>2 DEF SessionInv, EntryInv, LoginOf
      <3>4. clock \in Nat /\ now[l] \in Nat
        BY <1>1 DEF TypeOK, RequestsOK
      <3> QED  BY <3>1, <3>2, <3>3, <3>4
    <2>2. CASE GotSession(r)
      <3>1. /\ reply[r] # None /\ reply[r].parses /\ ~(reply[r].exp < clock) /\ sid'[r] = sid[r]
            /\ clock \in Nat
        BY <1>1, <2>2 DEF GotSession, GoTo, TypeOK, RequestsOK
      <3>2. PICK l \in Requests : op[l] = "login" /\ sid[l] = sid[r] /\ now[l] = reply[r].exp
        BY <1>1, <3>1 DEF SessionInv, ReplyInv, LoginOf
      <3>3. now[l] \in Nat
        BY <1>1 DEF TypeOK, RequestsOK
      <3> QED  BY <3>1, <3>2, <3>3
    <2>3. (\E s \in Sids, kind \in {"proxy", "logout"} : Get(r, kind, s)) \/ GotSession(r)
      <3>1. ASSUME NEW q \in Requests, NEW s \in Sids,
                   Login(q, s) \/ \E kind \in {"proxy", "logout"} : Get(q, kind, s)
            PROVE  q = r /\ \E kind \in {"proxy", "logout"} : Get(q, kind, s)
        BY <1>1, <3>1 DEF Login, Get, Hit, HitExpired, Miss, GoTo, TypeOK, RequestsOK
      <3>2. ASSUME NEW q \in Requests, Step(q)
            PROVE  GotSession(r)
        BY <1>1, <3>2 DEF Step, ApplySet, LoggedIn, SetFails, ApplyGet, GotNothing, NotFound,
           GotCorrupt, Dropped, GotSession, Served, Upstream401, ApplyDelete, DeleteReturns, GoTo,
           TypeOK, RequestsOK
      <3> QED  BY <1>1, <3>1, <3>2 DEF Next, Tick, vars, reqs
    <2> QED  BY <2>1, <2>2, <2>3
  <1>2. TypeOK /\ SessionInv /\ [Next]_vars =>
          [\A r \in Requests : pc[r] # "found" /\ pc'[r] = "found" =>
              \E l \in Requests : op[l] = "login" /\ sid[l] = sid'[r] /\ clock <= now[l]]_vars
    BY <1>1
  <1> QED  BY <1>2, TypeCorrect, SessionInvariant, PTL DEF Spec, ServedBeforeExpiry
=============================================================================
