--------------------------- MODULE TtlCacheProofs ---------------------------
(***************************************************************************)
(* Proofs about TtlCache, for any workers, rows, requests and changes, and *)
(* any TTL: a change is seen by everybody a TTL after its commit, and a    *)
(* token is not rejected while Auth0 lists its key.                        *)
(***************************************************************************)
EXTENDS TtlCache, TLAPS

(* What was superseded, in a cache or in a read that will fill it, was     *)
(* looked for before it was superseded: it does not outlive that moment by *)
(* more than the TTL.                                                      *)
EntryHolds(entry, k) ==
    /\ entry.until <= clock + TTL
    /\ entry.version <= Version(k)
    /\ \A v \in 1 .. Version(k) :
           entry.version < v => entry.until <= commits[k][v] + TTL

CacheInv == \A slot \in Slots : cache[slot] # None => EntryHolds(cache[slot], slot[2])

FlightHolds(r) ==
    \A v \in 1 .. Version(asks[r].row) :
        got[r] < v => now[r] <= commits[asks[r].row][v]

DoneHolds(r) ==
    \A v \in 1 .. Version(asks[r].row) :
        commits[asks[r].row][v] + TTL <= now[r] => v <= got[r]

(* An answer is not older than the request, so the last one of a rejected  *)
(* token lies between what Auth0 listed then and what it lists now.        *)
KeyHolds(r) ==
    /\ at[r] = "new" => ~forced[r]
    /\ at[r] # "new" => seen[r] <= Version(asks[r].row)
    /\ at[r] \in {"read", "rejected"} =>
           seen[r] <= got[r] /\ got[r] <= Version(asks[r].row)
    /\ at[r] = "rejected" => ~Selected(r, got[r])

ReadHolds(r) ==
    /\ now[r] <= clock
    /\ at[r] = "read" => FlightHolds(r)
    /\ at[r] = "done" => DoneHolds(r)
    /\ KeyHolds(r)

ReadInv == \A r \in Requests : ReadHolds(r)

Inv == TypeOK /\ CacheInv /\ ReadInv

-----------------------------------------------------------------------------
(* Types.                                                                  *)

LEMMA SlotType == ASSUME TypeOK, NEW r \in Requests
                  PROVE  asks[r] \in Questions /\ asks[r].row \in Rows /\ Slot(r) \in Slots
                         /\ Slot(r)[2] = asks[r].row
  BY DEF TypeOK, Questions, Slot, Slots, Rows, Stored

LEMMA VersionType == ASSUME TypeOK, NEW k \in Rows
                     PROVE  Version(k) \in Nat /\ \A v \in 1 .. Version(k) : commits[k][v] \in Nat
<1>1. commits[k] \in Seq(Nat)
  BY DEF TypeOK
<1>. QED
  BY <1>1 DEF Version

LEMMA OutcomeType == ASSUME NEW r, NEW version
                     PROVE  Outcome(r, version) \in {"reading", "done", "rejected"}
  BY DEF Outcome

LEMMA TypeInit == Init => TypeOK
<1>. SUFFICES ASSUME Init PROVE TypeOK
  OBVIOUS
<1>1. patch \in [Patches -> Works]
  BY DEF Init, Works
<1>2. commits \in [Rows -> Seq(Nat)] /\ cache \in [Slots -> Entries \cup {None}]
  BY DEF Init
<1>. QED
  BY <1>1, <1>2 DEF Init, TypeOK, Ended

LEMMA TypeStep == TypeOK /\ [Next]_vars => TypeOK'
<1>. SUFFICES ASSUME TypeOK, [Next]_vars PROVE TypeOK'
  OBVIOUS
<1>. USE DEF TypeOK
<1>1. ASSUME NEW r \in Requests, Hit(r)
      PROVE  TypeOK'
  <2>1. cache[Slot(r)] \in Entries
    BY <1>1, SlotType DEF Hit, Fresh
  <2>2. cache[Slot(r)].version \in Nat /\ Version(asks[r].row) \in Nat
    BY <2>1, SlotType, VersionType DEF Entries
  <2>. QED
    BY <1>1, <2>2, OutcomeType DEF Hit, Ended
<1>2. ASSUME NEW r \in Requests, Miss(r)
      PROVE  TypeOK'
  <2>1. Version(asks[r].row) \in Nat
    BY SlotType, VersionType
  <2>. QED
    BY <1>2, <2>1 DEF Miss
<1>3. ASSUME NEW r \in Requests, Answer(r)
      PROVE  TypeOK'
  <2>1. Version(asks[r].row) \in Nat
    BY SlotType, VersionType
  <2>. QED
    BY <1>3, <2>1 DEF Answer
<1>4. ASSUME NEW r \in Requests, Fail(r)
      PROVE  TypeOK'
  BY <1>4 DEF Fail, Ended
<1>5. ASSUME NEW r \in Requests, Resume(r)
      PROVE  TypeOK'
  <2>1. Entry(r) \in Entries
    BY CacheAssumption DEF Entry, Entries
  <2>2. cache' \in [Slots -> Entries \cup {None}]
    BY <1>5, <2>1 DEF Resume
  <2>3. at' \in [Requests -> {"new", "reading", "read"} \cup Ended]
    BY <1>5, OutcomeType DEF Resume, Ended
  <2>4. now' \in [Requests -> Nat] /\ forced' \in [Requests -> BOOLEAN]
    BY <1>5 DEF Resume
  <2>. QED
    BY <1>5, <2>2, <2>3, <2>4 DEF Resume
<1>6. ASSUME NEW p \in Patches, NEW place \in {"updated", "cleared", "failed"}, At(p, place)
      PROVE  patch' \in [Patches -> Works]
  BY <1>6 DEF At, Works
<1>7. ASSUME NEW p \in Patches, Write(p)
      PROVE  TypeOK'
  <2>1. CASE Update(p)
    BY <1>6, <2>1 DEF Update, reads
  <2>2. CASE Clear(p)
    BY <1>6, <2>2 DEF Clear, reads
  <2>3. CASE Commit(p)
    <3>1. patch[p].row \in Rows /\ Version(patch[p].row) \in Nat
      BY VersionType DEF Works, Rows, Stored
    <3>2. commits' \in [Rows -> Seq(Nat)]
      BY <2>3, <3>1 DEF Commit
    <3>3. patch' \in [Patches -> Works]
      <4>1. patch[p] \in Works /\ Version(patch[p].row) + 1 \in Nat
        BY <3>1
      <4>2. [patch[p] EXCEPT !.at = "answered", !.version = Version(patch[p].row) + 1] \in Works
        BY <4>1 DEF Works
      <4>. QED
        BY <2>3, <4>2 DEF Commit
    <3>. QED
      BY <2>3, <3>2, <3>3 DEF Commit, reads
  <2>4. CASE Rollback(p)
    BY <1>6, <2>4 DEF Rollback, reads
  <2>. QED
    BY <1>7, <2>1, <2>2, <2>3, <2>4 DEF Write
<1>8. ASSUME NEW w \in Workers, NEW rows, Invalidate(w, rows)
      PROVE  TypeOK'
  BY <1>8 DEF Invalidate, reads
<1>9. ASSUME NEW i \in Issuers, Rotate(i)
      PROVE  TypeOK'
  <2>1. commits' \in [Rows -> Seq(Nat)]
    BY <1>9 DEF Rotate, Rows
  <2>. QED
    BY <1>9, <2>1 DEF Rotate, reads
<1>10. CASE Tick
  BY <1>10 DEF Tick, reads
<1>11. CASE UNCHANGED vars
  BY <1>11 DEF vars, reads
<1>. QED
  BY <1>1, <1>2, <1>3, <1>4, <1>5, <1>7, <1>8, <1>9, <1>10, <1>11 DEF Next, Read

(* Every reachable state of the caches is of its type. *)
THEOREM TtlCacheTypeCorrect == Spec => []TypeOK
  BY TypeInit, TypeStep, PTL DEF Spec

-----------------------------------------------------------------------------
(* A history only grows, by what is committed now. *)
LEMMA HistoryGrows ==
    ASSUME TypeOK, [Next]_vars, NEW k \in Rows
    PROVE  /\ Version(k)' \in Nat /\ Version(k) <= Version(k)'
           /\ \A v \in 1 .. Version(k)' :
                  /\ commits'[k][v] \in Nat
                  /\ v <= Version(k) => commits'[k][v] = commits[k][v]
                  /\ ~(v <= Version(k)) => commits'[k][v] = clock
<1>1. commits'[k] = commits[k] \/ commits'[k] = Append(commits[k], clock)
  BY DEF TypeOK, Next, vars, Read, Hit, Miss, Answer, Fail, Resume, Write, Update, Clear, Commit,
         Rollback, Invalidate, Rotate, Tick
<1>2. commits[k] \in Seq(Nat) /\ clock \in Nat
  BY DEF TypeOK
<1>3. CASE commits'[k] = commits[k]
  BY <1>2, <1>3 DEF Version
<1>4. CASE commits'[k] = Append(commits[k], clock)
  BY <1>2, <1>4 DEF Version
<1>. QED
  BY <1>1, <1>3, <1>4

(* Time does not go back, and a request asks for one thing. *)
LEMMA TimePasses ==
    ASSUME TypeOK, [Next]_vars
    PROVE  clock' \in Nat /\ clock <= clock' /\ asks' = asks
<1>1. clock' = clock \/ clock' = clock + 1
  BY DEF Next, vars, Read, Hit, Miss, Answer, Fail, Resume, Write, Update, Clear, Commit,
         Rollback, Invalidate, Rotate, Tick
<1>2. asks' = asks
  BY DEF Next, vars, reads, Read, Hit, Miss, Answer, Fail, Resume, Write, Update, Clear, Commit,
         Rollback, Invalidate, Rotate, Tick
<1>. QED
  BY <1>1, <1>2 DEF TypeOK

(* So what holds of an entry goes on holding, *)
LEMMA EntryKept ==
    ASSUME TypeOK, [Next]_vars, NEW k \in Rows, NEW entry \in Entries, EntryHolds(entry, k)
    PROVE  EntryHolds(entry, k)'
<1>1. entry.until \in Nat /\ entry.version \in Nat /\ TTL \in Nat /\ clock \in Nat
  BY CacheAssumption DEF Entries, TypeOK
<1>2. Version(k) \in Nat /\ \A v \in 1 .. Version(k) : commits[k][v] \in Nat
  BY VersionType
<1>3. entry.until <= clock' + TTL /\ entry.version <= Version(k)'
  BY <1>1, <1>2, TimePasses, HistoryGrows DEF EntryHolds
<1>4. ASSUME NEW v \in 1 .. Version(k)', entry.version < v
      PROVE  entry.until <= commits'[k][v] + TTL
  <2>1. CASE v <= Version(k)
    BY <1>2, <1>4, <2>1, HistoryGrows DEF EntryHolds
  <2>2. CASE ~(v <= Version(k))
    BY <1>1, <2>2, HistoryGrows DEF EntryHolds
  <2>. QED
    BY <2>1, <2>2
<1>. QED
  BY <1>3, <1>4 DEF EntryHolds

(* and of a request that stands still. *)
LEMMA RequestKept ==
    ASSUME TypeOK, [Next]_vars, NEW r \in Requests, now[r] <= clock,
           now'[r] = now[r], got'[r] = got[r]
    PROVE  /\ now'[r] <= clock'
           /\ FlightHolds(r) => FlightHolds(r)'
           /\ DoneHolds(r) => DoneHolds(r)'
<1>1. PICK k \in Rows : asks[r].row = k
  BY SlotType
<1>2. now[r] \in Nat /\ got[r] \in Nat /\ clock \in Nat /\ TTL \in Nat /\ TTL # 0
  BY CacheAssumption DEF TypeOK
<1>3. Version(k) \in Nat /\ \A v \in 1 .. Version(k) : commits[k][v] \in Nat
  BY <1>1, VersionType
<1>4. /\ Version(k)' \in Nat /\ Version(k) <= Version(k)'
      /\ \A v \in 1 .. Version(k)' :
             /\ commits'[k][v] \in Nat
             /\ v <= Version(k) => commits'[k][v] = commits[k][v]
             /\ ~(v <= Version(k)) => commits'[k][v] = clock
  BY HistoryGrows
<1>5. now'[r] <= clock'
  BY <1>2, TimePasses
<1>6. ASSUME FlightHolds(r), NEW v \in 1 .. Version(k)', got[r] < v
      PROVE  now[r] <= commits'[k][v]
  <2>1. CASE v <= Version(k)
    BY <1>1, <1>3, <1>4, <1>6, <2>1 DEF FlightHolds
  <2>2. CASE ~(v <= Version(k))
    BY <1>4, <2>2
  <2>. QED
    BY <2>1, <2>2
<1>7. ASSUME DoneHolds(r), NEW v \in 1 .. Version(k)', commits'[k][v] + TTL <= now[r]
      PROVE  v <= got[r]
  <2>1. CASE v <= Version(k)
    BY <1>1, <1>3, <1>4, <1>7, <2>1 DEF DoneHolds
  <2>2. CASE ~(v <= Version(k))
    BY <1>2, <1>4, <1>7, <2>2
  <2>. QED
    BY <2>1, <2>2
<1>8. asks'[r].row = k /\ Version(asks[r].row)' = Version(k)'
  BY <1>1, TimePasses DEF Version
<1>. QED
  BY <1>1, <1>5, <1>6, <1>7, <1>8 DEF FlightHolds, DoneHolds

LEMMA KeyKept ==
    ASSUME TypeOK, [Next]_vars, NEW r \in Requests, KeyHolds(r),
           at'[r] = at[r], got'[r] = got[r], forced'[r] = forced[r], seen'[r] = seen[r]
    PROVE  KeyHolds(r)'
<1>1. PICK k \in Rows : asks[r].row = k
  BY SlotType
<1>2. asks' = asks
  BY TimePasses
<1>3. Version(k) \in Nat /\ Version(k)' \in Nat /\ Version(k) <= Version(k)'
  BY VersionType, HistoryGrows
<1>4. seen[r] \in Nat /\ got[r] \in Nat
  BY DEF TypeOK
<1>5. Version(asks[r].row) = Version(k) /\ Version(asks[r].row)' = Version(k)'
  BY <1>1, <1>2 DEF Version
<1>6. Selected(r, got[r])' <=> Selected(r, got[r])
  BY <1>2 DEF Selected
<1>7. at[r] # "new" => seen[r] <= Version(asks[r].row)'
  BY <1>3, <1>4, <1>5 DEF KeyHolds
<1>8. at[r] \in {"read", "rejected"} =>
          seen[r] <= got[r] /\ got[r] <= Version(asks[r].row)'
  BY <1>3, <1>4, <1>5 DEF KeyHolds
<1>. QED
  BY <1>6, <1>7, <1>8 DEF KeyHolds

-----------------------------------------------------------------------------
(* The invariant.                                                          *)

LEMMA InvInit == Init => Inv
<1>. SUFFICES ASSUME Init PROVE Inv
  OBVIOUS
<1>1. TypeOK
  BY TypeInit
<1>2. CacheInv
  BY DEF Init, CacheInv
<1>3. ReadInv
  BY DEF Init, ReadInv, ReadHolds, KeyHolds
<1>. QED
  BY <1>1, <1>2, <1>3 DEF Inv

(* An answer on its way is such an entry already. *)
LEMMA FlightIsEntry ==
    ASSUME TypeOK, ReadInv, NEW r \in Requests, at[r] = "read"
    PROVE  Entry(r) \in Entries /\ EntryHolds(Entry(r), asks[r].row)
<1>1. PICK k \in Rows : asks[r].row = k
  BY SlotType
<1>2. now[r] \in Nat /\ got[r] \in Nat /\ clock \in Nat /\ TTL \in Nat
  BY CacheAssumption DEF TypeOK
<1>3. Version(k) \in Nat /\ \A v \in 1 .. Version(k) : commits[k][v] \in Nat
  BY VersionType
<1>4. now[r] <= clock /\ FlightHolds(r) /\ got[r] <= Version(k)
  BY <1>1 DEF ReadInv, ReadHolds, KeyHolds
<1>5. \A v \in 1 .. Version(k) : got[r] < v => now[r] <= commits[k][v]
  BY <1>1, <1>4 DEF FlightHolds
<1>6. \A v \in 1 .. Version(k) : got[r] < v => now[r] + TTL <= commits[k][v] + TTL
  BY <1>2, <1>3, <1>5
<1>7. now[r] + TTL \in Nat /\ now[r] + TTL <= clock + TTL
  BY <1>2, <1>4
<1>8. Entry(r).until = now[r] + TTL /\ Entry(r).version = got[r] /\ Entry(r) \in Entries
  BY <1>2, <1>7 DEF Entry, Entries
<1>. QED
  BY <1>1, <1>4, <1>6, <1>7, <1>8 DEF EntryHolds

LEMMA CacheStep == Inv /\ [Next]_vars => CacheInv'
<1>. SUFFICES ASSUME Inv, [Next]_vars, NEW slot \in Slots, cache'[slot] # None
              PROVE  EntryHolds(cache[slot], slot[2])'
  BY DEF CacheInv
<1>1. TypeOK /\ CacheInv /\ ReadInv
  BY DEF Inv
<1>2. slot[2] \in Rows
  BY DEF Slots
<1>3. \/ cache'[slot] = cache[slot]
      \/ \E r \in Requests : at[r] = "read" /\ slot = Slot(r) /\ cache'[slot] = Entry(r)
  <2>1. ASSUME NEW r \in Requests, Resume(r)
        PROVE  \/ cache'[slot] = cache[slot]
               \/ at[r] = "read" /\ slot = Slot(r) /\ cache'[slot] = Entry(r)
    BY <1>1, <2>1 DEF Resume, TypeOK
  <2>2. ASSUME NEW p \in Patches, Clear(p)
        PROVE  cache'[slot] = cache[slot]
    BY <2>2 DEF Clear
  <2>3. ASSUME NEW w \in Workers, NEW rows, Invalidate(w, rows)
        PROVE  cache'[slot] = cache[slot]
    BY <2>3 DEF Invalidate
  <2>. QED
    BY <2>1, <2>2, <2>3
    DEF Next, vars, Read, Hit, Miss, Answer, Fail, Write, Update, Commit, Rollback, Rotate, Tick
<1>4. CASE cache'[slot] = cache[slot]
  <2>1. cache[slot] \in Entries /\ EntryHolds(cache[slot], slot[2])
    BY <1>1, <1>4 DEF CacheInv, TypeOK
  <2>2. PICK entry \in Entries : entry = cache[slot]
    BY <2>1
  <2>3. PICK k \in Rows : k = slot[2]
    BY <1>2
  <2>4. EntryHolds(entry, k)'
    BY <1>1, <2>1, <2>2, <2>3, EntryKept
  <2>. QED
    BY <1>4, <2>2, <2>3, <2>4 DEF EntryHolds
<1>5. ASSUME NEW r \in Requests, at[r] = "read", slot = Slot(r), cache'[slot] = Entry(r)
      PROVE  EntryHolds(cache[slot], slot[2])'
  <2>1. PICK entry \in Entries : entry = Entry(r)
    BY <1>1, <1>5, FlightIsEntry
  <2>2. PICK k \in Rows : k = asks[r].row /\ k = slot[2]
    BY <1>1, <1>5, SlotType
  <2>3. EntryHolds(entry, k)
    BY <1>1, <1>5, <2>1, <2>2, FlightIsEntry
  <2>4. EntryHolds(entry, k)'
    BY <1>1, <2>3, EntryKept
  <2>. QED
    BY <1>5, <2>1, <2>2, <2>4 DEF EntryHolds
<1>. QED
  BY <1>3, <1>4, <1>5

LEMMA HitHolds == ASSUME Inv, [Next]_vars, NEW r \in Requests, Hit(r)
                  PROVE  ReadHolds(r)'
<1>1. TypeOK /\ CacheInv /\ ReadInv
  BY DEF Inv
<1>2. PICK k \in Rows : asks[r].row = k /\ Slot(r)[2] = k /\ Slot(r) \in Slots
  BY <1>1, SlotType
<1>3. PICK entry \in Entries : entry = cache[Slot(r)] /\ entry.until > clock /\ EntryHolds(entry, k)
  BY <1>1, <1>2 DEF Hit, Fresh, CacheInv, TypeOK
<1>4. /\ entry.until \in Nat /\ entry.version \in Nat /\ TTL \in Nat /\ clock \in Nat
      /\ Version(k) \in Nat /\ \A v \in 1 .. Version(k) : commits[k][v] \in Nat
  BY <1>1, VersionType, CacheAssumption DEF Entries, TypeOK
<1>5. /\ got'[r] = entry.version /\ now'[r] = clock /\ seen'[r] = Version(k)
      /\ at'[r] = Outcome(r, entry.version)
      /\ commits' = commits /\ clock' = clock /\ asks' = asks
  BY <1>1, <1>2, <1>3 DEF Hit, TypeOK
<1>6. Version(asks[r].row)' = Version(k)
  BY <1>2, <1>5 DEF Version
<1>7. \A v \in 1 .. Version(k) : commits[k][v] + TTL <= clock => v <= entry.version
  BY <1>3, <1>4 DEF EntryHolds
<1>8. DoneHolds(r)'
  BY <1>2, <1>5, <1>6, <1>7 DEF DoneHolds
<1>9. at'[r] \in {"done", "reading"}
  BY <1>1, <1>5 DEF Outcome, Hit, ReadInv, ReadHolds, KeyHolds
<1>10. KeyHolds(r)'
  BY <1>4, <1>5, <1>6, <1>9 DEF KeyHolds
<1>. QED
  BY <1>4, <1>5, <1>8, <1>9, <1>10 DEF ReadHolds

LEMMA FetchHolds == ASSUME Inv, [Next]_vars, NEW r \in Requests, Miss(r) \/ Answer(r) \/ Fail(r)
                    PROVE  ReadHolds(r)'
<1>1. TypeOK /\ ReadInv
  BY DEF Inv
<1>2. PICK k \in Rows : asks[r].row = k
  BY <1>1, SlotType
<1>3. commits' = commits /\ clock' = clock /\ asks' = asks
  BY DEF Miss, Answer, Fail
<1>4. /\ Version(k) \in Nat /\ clock \in Nat /\ now[r] \in Nat /\ seen[r] \in Nat
      /\ Version(asks[r].row)' = Version(k)
      /\ now[r] <= clock /\ (at[r] # "new" => seen[r] <= Version(k))
  BY <1>1, <1>2, <1>3, VersionType DEF TypeOK, Version, ReadInv, ReadHolds, KeyHolds
<1>5. CASE Miss(r)
  <2>1. at'[r] = "reading" /\ now'[r] = clock /\ seen'[r] = Version(k)
    BY <1>1, <1>2, <1>5 DEF Miss, TypeOK
  <2>. QED
    BY <1>3, <1>4, <2>1 DEF ReadHolds, KeyHolds
<1>6. CASE Answer(r)
  <2>1. /\ at[r] = "reading" /\ at'[r] = "read" /\ now'[r] = now[r] /\ seen'[r] = seen[r]
        /\ got'[r] = Version(k)
    BY <1>1, <1>2, <1>6 DEF Answer, TypeOK
  <2>2. \A v \in 1 .. Version(k) : ~(got'[r] < v)
    BY <1>4, <2>1
  <2>3. FlightHolds(r)'
    BY <1>2, <1>3, <1>4, <2>2 DEF FlightHolds
  <2>4. KeyHolds(r)'
    BY <1>4, <2>1 DEF KeyHolds
  <2>. QED
    BY <1>3, <1>4, <2>1, <2>3, <2>4 DEF ReadHolds
<1>7. CASE Fail(r)
  <2>1. at[r] # "new" /\ at'[r] = "failed" /\ now'[r] = now[r] /\ seen'[r] = seen[r]
    BY <1>1, <1>7 DEF Fail, TypeOK
  <2>. QED
    BY <1>3, <1>4, <2>1 DEF ReadHolds, KeyHolds
<1>. QED
  BY <1>5, <1>6, <1>7

LEMMA ResumeHolds == ASSUME Inv, [Next]_vars, NEW r \in Requests, Resume(r)
                     PROVE  ReadHolds(r)'
<1>1. TypeOK /\ ReadInv
  BY DEF Inv
<1>2. PICK k \in Rows : asks[r].row = k
  BY <1>1, SlotType
<1>3. /\ commits' = commits /\ clock' = clock /\ asks' = asks
      /\ at[r] = "read" /\ got'[r] = got[r] /\ seen'[r] = seen[r]
  BY <1>1 DEF Resume, TypeOK
<1>4. at'[r] = Outcome(r, got[r])
  BY <1>1 DEF Resume, TypeOK
<1>5. now'[r] = IF at'[r] = "reading" THEN clock ELSE now[r]
  BY <1>1, <1>4 DEF Resume, TypeOK
<1>6. /\ Version(k) \in Nat /\ \A v \in 1 .. Version(k) : commits[k][v] \in Nat
      /\ clock \in Nat /\ now[r] \in Nat /\ got[r] \in Nat /\ seen[r] \in Nat
      /\ TTL \in Nat /\ TTL # 0
      /\ Version(asks[r].row)' = Version(k)
  BY <1>1, <1>2, <1>3, VersionType, CacheAssumption DEF TypeOK, Version
<1>7. /\ now[r] <= clock /\ seen[r] <= got[r] /\ got[r] <= Version(k)
      /\ seen[r] <= Version(k) /\ FlightHolds(r)
  BY <1>1, <1>2, <1>3 DEF ReadInv, ReadHolds, KeyHolds
<1>8. at'[r] \in {"reading", "done", "rejected"}
  BY <1>4, OutcomeType
<1>9. CASE at'[r] = "reading"
  BY <1>3, <1>5, <1>6, <1>7, <1>9 DEF ReadHolds, KeyHolds
<1>10. CASE at'[r] = "done"
  <2>1. \A v \in 1 .. Version(k) : got[r] < v => now[r] <= commits[k][v]
    BY <1>2, <1>7 DEF FlightHolds
  <2>2. \A v \in 1 .. Version(k) : commits[k][v] + TTL <= now[r] => v <= got[r]
    BY <1>6, <2>1
  <2>3. now'[r] = now[r]
    BY <1>5, <1>10
  <2>4. DoneHolds(r)'
    BY <1>2, <1>3, <1>6, <2>2, <2>3 DEF DoneHolds
  <2>5. KeyHolds(r)'
    BY <1>3, <1>6, <1>7, <1>10 DEF KeyHolds
  <2>. QED
    BY <1>3, <1>7, <1>10, <2>3, <2>4, <2>5 DEF ReadHolds
<1>11. CASE at'[r] = "rejected"
  <2>1. ~Selected(r, got[r])
    BY <1>4, <1>11 DEF Outcome
  <2>2. ~Selected(r, got[r])'
    BY <1>3, <2>1 DEF Selected
  <2>3. KeyHolds(r)'
    BY <1>3, <1>6, <1>7, <1>11, <2>2 DEF KeyHolds
  <2>. QED
    BY <1>3, <1>5, <1>7, <1>11, <2>3 DEF ReadHolds
<1>. QED
  BY <1>8, <1>9, <1>10, <1>11

LEMMA ReadStep == Inv /\ [Next]_vars => ReadInv'
<1>. SUFFICES ASSUME Inv, [Next]_vars, NEW r \in Requests
              PROVE  ReadHolds(r)'
  BY DEF ReadInv
<1>1. TypeOK /\ ReadInv
  BY DEF Inv
<1>2. \/ Read(r)
      \/ /\ at'[r] = at[r] /\ now'[r] = now[r] /\ got'[r] = got[r]
         /\ forced'[r] = forced[r] /\ seen'[r] = seen[r]
  <2>1. ASSUME NEW s \in Requests, Read(s), s # r
        PROVE  /\ at'[r] = at[r] /\ now'[r] = now[r] /\ got'[r] = got[r]
               /\ forced'[r] = forced[r] /\ seen'[r] = seen[r]
    BY <1>1, <2>1 DEF Read, Hit, Miss, Answer, Fail, Resume, TypeOK
  <2>. QED
    BY <2>1 DEF Next, vars, reads, Write, Update, Clear, Commit, Rollback, Invalidate, Rotate, Tick
<1>3. CASE Read(r)
  BY <1>3, HitHolds, FetchHolds, ResumeHolds DEF Read
<1>4. CASE /\ at'[r] = at[r] /\ now'[r] = now[r] /\ got'[r] = got[r]
           /\ forced'[r] = forced[r] /\ seen'[r] = seen[r]
  <2>1. ReadHolds(r)
    BY <1>1 DEF ReadInv
  <2>2. KeyHolds(r)'
    BY <1>1, <1>4, <2>1, KeyKept DEF ReadHolds
  <2>3. /\ now'[r] <= clock'
        /\ FlightHolds(r) => FlightHolds(r)'
        /\ DoneHolds(r) => DoneHolds(r)'
    BY <1>1, <1>4, <2>1, RequestKept DEF ReadHolds
  <2>. QED
    BY <1>4, <2>1, <2>2, <2>3 DEF ReadHolds
<1>. QED
  BY <1>2, <1>3, <1>4

(* The invariant of the caches: what is superseded lives a TTL at most,    *)
(* stored or on its way (ai/registry.py, auth/gating.py, core/security.py).*)
THEOREM TtlCacheInvariant == Spec => []Inv
<1>1. Inv /\ [Next]_vars => Inv'
  BY TypeStep, CacheStep, ReadStep DEF Inv
<1>. QED
  BY InvInit, <1>1, PTL DEF Spec

(* A change has reached every worker a TTL after its commit, whatever the  *)
(* order in which reads are answered and stored (registry.py:63-68).       *)
THEOREM PropagatesWithinTTLHolds == Spec => []PropagatesWithinTTL
<1>1. Inv => PropagatesWithinTTL
  BY DEF Inv, ReadInv, ReadHolds, DoneHolds, PropagatesWithinTTL
<1>. QED
  BY <1>1, TtlCacheInvariant, PTL

(* The keys Auth0 lists are a window that moves: one that is listed at two *)
(* moments is listed at every moment between them.                         *)
LEMMA WindowMoves ==
    ASSUME NEW a \in Nat, NEW b \in Nat, NEW c \in Nat, a <= b, b <= c,
           NEW kid \in Jwks(a) \cap Jwks(c)
    PROVE  kid \in Jwks(b)
  BY CacheAssumption DEF Jwks

(* A token whose key was listed when its request began, and still is, is   *)
(* not rejected for it: the forced fetch finds it (security.py:244-269).   *)
THEOREM ValidKeyAcceptedHolds == Spec => []ValidKeyAccepted
<1>1. Inv => ValidKeyAccepted
  <2>. SUFFICES ASSUME Inv, NEW r \in Requests, at[r] = "rejected",
                       asks[r].kid \in Jwks(seen[r]) \cap Jwks(Version(asks[r].row))
                PROVE  FALSE
    BY DEF ValidKeyAccepted
  <2>1. TypeOK /\ ReadInv
    BY DEF Inv
  <2>2. seen[r] <= got[r] /\ got[r] <= Version(asks[r].row) /\ ~Selected(r, got[r])
    BY <2>1 DEF ReadInv, ReadHolds, KeyHolds
  <2>3. seen[r] \in Nat /\ got[r] \in Nat /\ Version(asks[r].row) \in Nat
    BY <2>1, SlotType, VersionType DEF TypeOK
  <2>4. asks[r].kid \in Jwks(got[r])
    BY <2>2, <2>3, WindowMoves
  <2>. QED
    BY <2>2, <2>4 DEF Selected
<1>. QED
  BY <1>1, TtlCacheInvariant, PTL
=============================================================================
