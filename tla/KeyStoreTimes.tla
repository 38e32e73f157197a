--------------------------- MODULE KeyStoreTimes ----------------------------
(* What KeyStore promises about times: how long a revoked key may still be  *)
(* let in, or rotated, with any number of processes, and what one process   *)
(* on its own promises of expiries and of recorded uses.                    *)
EXTENDS KeyStoreProofs

USE ParametersOK, SentinelsOK

-----------------------------------------------------------------------------
(* Loads and caches are dated *)

LEMMA OnlyLoadsLoad ==
  ASSUME TypeOK, NEW p \in Instances, StepOf(p), pc'[p] \in Loads
  PROVE  /\ readAt'[p] = now /\ UNCHANGED <<now, secret, local, overwritten, ledger>>
         /\ snap'[p] \in Registry /\ \A k \in Keys : snap'[p][k] \in {Truth[k], Absent}
<1>1. ASSUME NEW k \in Keys, Authenticate(p, k) \/ StartRevoke(p, k) PROVE FALSE
  BY <1>1, PcKinds DEF Authenticate, LetsIn, Ready, StartRevoke, Begin, TypeOK, Loads
<1>2. ASSUME NEW k \in Keys, StartRotate(p, k) PROVE FALSE
  BY <1>2 DEF StartRotate, Begin, TypeOK, Loads
<1>3. ASSUME StartIssue(p) \/ Shutdown(p) \/ TearLocal(p) \/ Crash(p) \/ Installed(p) PROVE FALSE
  BY <1>3 DEF StartIssue, Shutdown, TearLocal, Crash, Installed, Leave, Begin, TypeOK, Loads
<1>4. ASSUME SMGet(p) PROVE FALSE
  BY <1>4, PcKinds DEF SMGet, Reading
<1>5. ASSUME SMPut(p) \/ SMFails(p) \/ SMAckLost(p) \/ LocalPut(p) \/ LocalFails(p) PROVE FALSE
  <2>1. Persisted(p) \/ Aborted(p)
    BY <1>5 DEF SMPut, SMFails, SMAckLost, LocalPut, LocalFails
  <2> QED
    BY <2>1 DEF Persisted, Aborted, IssueDone, RevokeDone, RotateNewDone, RotateOldDone,
                FlushDone, Respond, Leave, TypeOK, Loads
<1>6. PICK why \in Loads : Load(p, why)
  BY <1>1, <1>2, <1>3, <1>4, <1>5 DEF StepOf, Start, Refresh, Reload, Loads
<1>7. PICK o \in GetResults : snap' = [snap EXCEPT ![p] = Loaded(o)]
  BY <1>6 DEF Load
<1>8. snap'[p] = Loaded(o)
  BY <1>7 DEF TypeOK
<1> QED
  BY <1>6, <1>8, LoadedType DEF Load, TypeOK, stores

(* Where a cache's date comes from. *)
LEMMA AtMoves ==
  ASSUME TypeOK, NEW p \in Instances, StepOf(p)
  PROVE  \/ /\ Installed(p) /\ cache'[p].at = now /\ now' = now
            /\ \A k \in cache'[p].byId : snap[p][k] # Absent
         \/ pc'[p] = "down" /\ cache'[p].byId = {}
         \/ /\ ~Installed(p) /\ cache'[p].at = cache[p].at
            /\ pc[p] \in {"down", "start"} => pc'[p] = "start" /\ cache'[p] = cache[p]
<1>1. ASSUME Start(p) \/ Refresh(p) \/ Reload(p)
      PROVE  cache'[p] = cache[p] /\ (pc[p] \in {"down", "start"} => pc'[p] = "start")
  BY <1>1 DEF Start, Refresh, Reload, Ready, Load, TypeOK
<1>2. ASSUME Installed(p)
      PROVE  cache'[p].at = now /\ now' = now /\ \A k \in cache'[p].byId : snap[p][k] # Absent
  BY <1>2 DEF Installed, Install, TypeOK
<1>3. ASSUME StartIssue(p) \/ SMGet(p)
      PROVE  cache'[p] = cache[p] /\ pc[p] \notin {"down", "start"}
  BY <1>3 DEF StartIssue, Ready, SMGet, Reading, Handlers
<1>4. ASSUME NEW k \in Keys, Authenticate(p, k)
      PROVE  cache'[p].at = cache[p].at /\ pc[p] \notin {"down", "start"}
  <2>1. cache'[p] = [cache[p] EXCEPT !.heap[k].used = now]
    BY <1>4 DEF Authenticate, TypeOK
  <2> QED
    BY <1>4, <2>1 DEF Authenticate, LetsIn, Ready, TypeOK, CacheType
<1>5. ASSUME NEW k \in Keys, StartRevoke(p, k)
      PROVE  cache'[p].at = cache[p].at /\ pc[p] \notin {"down", "start"}
  BY <1>5 DEF StartRevoke, Ready, TypeOK, CacheType
<1>6. ASSUME NEW k \in Keys, StartRotate(p, k)
      PROVE  cache'[p].at = cache[p].at /\ pc[p] \notin {"down", "start"}
  BY <1>6 DEF StartRotate, Ready
<1>7. ASSUME Leave(p) PROVE pc'[p] = "down" /\ cache'[p].byId = {}
  BY <1>7 DEF Leave, NoCache, TypeOK
<1>8. ASSUME Shutdown(p) \/ TearLocal(p) \/ Crash(p)
      PROVE  Leave(p) \/ (cache'[p] = cache[p] /\ pc[p] \notin {"down", "start"})
  BY <1>8 DEF Shutdown, TearLocal, Crash
<1>9. ASSUME Persisted(p)
      PROVE  Leave(p) \/ (cache'[p].at = cache[p].at /\ pc[p] \notin {"down", "start"})
  <2>1. CASE IssueDone(p)
    BY <2>1 DEF IssueDone, WithNew, TypeOK, CacheType
  <2>2. CASE RotateNewDone(p)
    <3> DEFINE c == WithNew(p, cache[p], Never)
    <3>0. c.at = cache[p].at
      BY DEF TypeOK, WithNew, CacheType
    <3>1. c \in CacheType
      BY <2>2, WithNewType DEF RotateNewDone, TypeOK, Time
    <3>2. cache'[p] = IF req[p].old \in c.byId
                      THEN [c EXCEPT !.heap[req[p].old].expires = req[p].exp] ELSE c
      BY <2>2 DEF RotateNewDone, TypeOK
    <3> HIDE DEF c
    <3> QED
      BY <2>2, <3>0, <3>1, <3>2 DEF RotateNewDone, CacheType
  <2>3. CASE RevokeDone(p) \/ RotateOldDone(p) \/ FlushDone(p)
    BY <2>3 DEF RevokeDone, RotateOldDone, FlushDone
  <2> QED
    BY <1>9, <2>1, <2>2, <2>3 DEF Persisted
<1>10. ASSUME SMPut(p) \/ SMFails(p) \/ SMAckLost(p) \/ LocalPut(p) \/ LocalFails(p)
       PROVE  /\ Persisted(p) \/ Leave(p) \/ cache'[p] = cache[p]
              /\ pc[p] \notin {"down", "start"}
  BY <1>10 DEF SMPut, SMFails, SMAckLost, LocalPut, LocalFails, Aborted, Fallback,
               Reading, Writing, Handlers
<1> QED
  BY <1>1, <1>2, <1>3, <1>4, <1>5, <1>6, <1>7, <1>8, <1>9, <1>10 DEF StepOf

(* What is known of a revocation changes when it is answered. *)
LEMMA RevokedMoves ==
  ASSUME TypeOK, CachesDated, NEW p \in Instances, StepOf(p), NEW k \in Keys
  PROVE  \/ revokedAt'[k] = revokedAt[k] /\ (told'[k] = "revoked" <=> told[k] = "revoked")
         \/ /\ told[k] # "revoked" /\ told'[k] = "revoked"
            /\ revokedAt'[k] = now /\ now' = now
<1>1. ASSUME ~RevokeDone(p) PROVE UNCHANGED revokedAt
  <2>1. ASSUME NEW x \in Keys, Authenticate(p, x) \/ StartRevoke(p, x) PROVE UNCHANGED revokedAt
    BY <2>1 DEF Authenticate, StartRevoke, ledger
  <2>2. ASSUME NEW x \in Keys, StartRotate(p, x) PROVE UNCHANGED revokedAt
    BY <2>2 DEF StartRotate
  <2>3. ASSUME Persisted(p) \/ Aborted(p) PROVE UNCHANGED revokedAt
    BY <1>1, <2>3 DEF Persisted, Aborted, IssueDone, RotateNewDone, RotateOldDone, FlushDone, ledger
  <2> QED
    BY <2>1, <2>2, <2>3 DEF StepOf, Start, Refresh, Reload, Load, Installed, StartIssue, Shutdown,
       SMGet, SMPut, SMFails, SMAckLost, LocalPut, LocalFails, TearLocal, Crash, ledger
<1>2. CASE ~RevokeDone(p)
  BY <1>1, <1>2, ToldMoves
<1>3. CASE RevokeDone(p)
  <2>1. req[p].old \in Keys
    BY <1>3 DEF RevokeDone, TypeOK
  <2>2. now' = now
    <3>1. CASE WritesTruth(p)
      BY <3>1, TruthPut
    <3>2. CASE ~WritesTruth(p)
      BY <3>2, StoresRest
    <3> QED
      BY <3>1, <3>2
  <2> QED
    BY <1>3, <2>1, <2>2 DEF RevokeDone, TypeOK, CachesDated
<1> QED
  BY <1>2, <1>3

LEMMA NowKept ==
  ASSUME TypeOK, NEW p \in Instances, StepOf(p)
  PROVE  now' = now
  BY StoresRest, TruthPut

LEMMA LoadsStep ==
  ASSUME TypeOK, StoreInv', LoadsDated, CachesDated, NEW p \in Instances, StepOf(p)
  PROVE  LoadsDated'
<1> SUFFICES ASSUME NEW q \in Instances, pc'[q] \in Loads
             PROVE  /\ readAt'[q] <= now' /\ now' <= readAt'[q] + LoadTime
                    /\ \A k \in Keys : RevokedSince(k)' /\ snap'[q][k] # Absent
                                        => readAt'[q] <= revokedAt'[k]
  BY DEF LoadsDated
<1>1. now' = now /\ now \in Nat
  BY NowKept DEF TypeOK
<1>2. CASE q = p
  <2>1. /\ readAt'[p] = now /\ UNCHANGED <<secret, local>>
        /\ \A k \in Keys : snap'[p][k] \in {Truth[k], Absent}
    BY <1>2, OnlyLoadsLoad
  <2>2. \A k \in Keys : RevokedSince(k)' => Truth[k] = Absent
    BY <2>1 DEF StoreInv, OnlyRacesUndo, RevokedSince, Truth
  <2> QED
    BY <1>1, <1>2, <2>1, <2>2
<1>3. CASE q # p
  <2>1. pc'[q] = pc[q] /\ snap'[q] = snap[q] /\ readAt'[q] = readAt[q]
    BY <1>3, OnlyOneMoves DEF OthersKept
  <2>2. readAt[q] <= now /\ now <= readAt[q] + LoadTime
    BY <2>1 DEF LoadsDated
  <2>3. ASSUME NEW k \in Keys, RevokedSince(k)', snap[q][k] # Absent
        PROVE  readAt[q] <= revokedAt'[k]
    <3>1. k \notin overwritten
      BY <2>3, MarksStay, NextIsOfOne DEF RevokedSince
    <3> QED
      BY <2>1, <2>2, <2>3, <3>1, RevokedMoves DEF LoadsDated, RevokedSince
  <2> QED
    BY <1>1, <2>1, <2>2, <2>3
<1> QED
  BY <1>2, <1>3

LEMMA CachesStep ==
  ASSUME TypeOK, StoreInv, LoadsDated, CachesDated, NEW p \in Instances, StepOf(p)
  PROVE  CachesDated'
<1>1. now' = now /\ now \in Nat
  BY NowKept DEF TypeOK
<1>2. ASSUME NEW k \in Keys
      PROVE  IF told'[k] = "revoked" THEN revokedAt'[k] \in Nat /\ revokedAt'[k] <= now'
                                     ELSE revokedAt'[k] = Never
  BY <1>1, RevokedMoves DEF CachesDated
<1>3. ASSUME NEW q \in Instances
      PROVE  \/ pc'[q] \in {"down", "start"} /\ cache'[q].byId = {}
             \/ cache'[q].at \in Nat /\ cache'[q].at <= now'
  <2>1. q # p => pc'[q] = pc[q] /\ cache'[q] = cache[q]
    BY OnlyOneMoves DEF OthersKept
  <2>2. \/ pc[q] \in {"down", "start"} /\ cache[q].byId = {}
        \/ cache[q].at \in Nat /\ cache[q].at <= now
    BY DEF CachesDated
  <2> QED
    BY <1>1, <2>1, <2>2, AtMoves
<1>4. ASSUME NEW q \in Instances, NEW k \in cache'[q].byId, RevokedSince(k)'
      PROVE  cache'[q].at \in Nat /\ cache'[q].at <= revokedAt'[k] + LoadTime
  <2>1. k \in Keys
    BY <1>4, TypeStep, NextIsOfOne DEF TypeOK, CacheType
  <2>2. cache'[q].at \in Nat /\ cache'[q].at <= now
    BY <1>1, <1>3, <1>4
  <2>3. CASE told[k] # "revoked"
    <3>1. revokedAt'[k] = now
      BY <1>4, <2>1, <2>3, RevokedMoves DEF RevokedSince
    <3> QED
      BY <1>1, <2>2, <3>1
  <2>4. CASE told[k] = "revoked"
    <3>1. revokedAt'[k] = revokedAt[k] /\ revokedAt[k] \in Nat /\ RevokedSince(k)
      BY <1>4, <2>1, <2>4, RevokedMoves, MarksStay, NextIsOfOne DEF RevokedSince, CachesDated
    <3>2. CASE q # p
      BY <1>4, <3>1, <3>2, OnlyOneMoves DEF OthersKept, CachesDated
    <3>3. CASE q = p /\ Installed(p) /\ cache'[p].at = now /\ snap[p][k] # Absent
      <4>1. /\ readAt[p] \in Nat /\ now <= readAt[p] + LoadTime /\ readAt[p] <= revokedAt[k]
        BY <2>1, <3>1, <3>3 DEF Installed, LoadsDated, TypeOK
      <4> QED
        BY <1>1, <3>1, <3>3, <4>1
    <3>4. CASE q = p /\ ~Installed(p) /\ cache'[p].at = cache[p].at
      <4>1. ~(Issuing(p) /\ k = req[p].new)
        BY <2>1, <2>4 DEF StoreInv, FreshKeys, Unwritten, Pending, Issuing
      <4>2. k \in cache[p].byId
        BY <1>4, <3>4, <4>1, CacheMoves
      <4> QED
        BY <3>1, <3>4, <4>2 DEF CachesDated
    <3> QED
      BY <1>4, <3>2, <3>3, <3>4, AtMoves DEF Installed
  <2> QED
    BY <2>3, <2>4
<1> QED
  BY <1>2, <1>3, <1>4 DEF CachesDated

LEMMA DatedStep ==
  ASSUME TypeOK, StoreInv, LoadsDated, CachesDated, [Next]_vars
  PROVE  LoadsDated' /\ CachesDated'
<1>1. CASE Tick
  <2>1. /\ now \in Nat /\ now' = now + 1
        /\ UNCHANGED <<overwritten, cache, pc, snap, readAt, told, revokedAt>>
    BY <1>1 DEF Tick, stores, procs, ledger, TypeOK
  <2>2. LoadsDated'
    <3> SUFFICES ASSUME NEW q \in Instances, pc[q] \in Loads
                 PROVE  /\ readAt[q] <= now + 1 /\ now + 1 <= readAt[q] + LoadTime
                        /\ \A k \in Keys : RevokedSince(k) /\ snap[q][k] # Absent
                                            => readAt[q] <= revokedAt[k]
      BY <2>1 DEF LoadsDated, RevokedSince
    <3>1. readAt[q] \in Nat /\ now < readAt[q] + LoadTime
      BY <1>1 DEF Tick, TypeOK
    <3> QED
      BY <2>1, <3>1 DEF LoadsDated
  <2>3. CachesDated'
    BY <2>1 DEF CachesDated, RevokedSince
  <2> QED
    BY <2>2, <2>3
<1>2. CASE UNCHANGED vars
  BY <1>2 DEF vars, stores, procs, ledger, LoadsDated, CachesDated, RevokedSince
<1>3. ASSUME NEW p \in Instances, StepOf(p) PROVE LoadsDated' /\ CachesDated'
  BY <1>3, StoreStep, LoadsStep, CachesStep, NextIsOfOne
<1> QED
  BY <1>1, <1>2, <1>3, NextIsOfOne

LEMMA DatedInit == Init => LoadsDated /\ CachesDated
  BY DEF Init, LoadsDated, CachesDated, NoCache, Loads

(* The invariant behind both latencies. *)
THEOREM DatedInvariant == Spec => [](TypeOK /\ LoadsDated /\ CachesDated)
<1>1. TypeOK /\ StoreInv /\ LoadsDated /\ CachesDated /\ [Next]_vars
        => LoadsDated' /\ CachesDated'
  BY DatedStep
<1> QED
  BY <1>1, DatedInit, StoreInvariant, PTL DEF Spec

-----------------------------------------------------------------------------
(* The latencies *)

(* A cache that decides is younger than the TTL, and was installed at most  *)
(* LoadTime after the revocation of any key it still holds.                 *)
LEMMA KnownLate ==
  ASSUME TypeOK, CachesDated, NEW p \in Instances, Ready(p),
         NEW k \in cache[p].byId, RevokedSince(k)
  PROVE  now - revokedAt[k] <= TTL + LoadTime
<1>1. /\ cache[p].at \in Nat /\ cache[p].at <= revokedAt[k] + LoadTime
      /\ revokedAt[k] \in Nat /\ now \in Nat
  BY DEF CachesDated, RevokedSince, TypeOK, CacheType
<1>2. now - cache[p].at <= TTL
  BY <1>1 DEF Ready, Stale
<1> QED
  BY <1>1, <1>2

(* No request is let in by a key revoked longer ago than the TTL and the    *)
(* time of a load, whichever of any number of unsynchronised processes it   *)
(* reaches, unless a racing put brought the key back.                       *)
THEOREM RevocationIsTimely == Spec => []RevocationLatency
<1>1. TypeOK /\ CachesDated => RevocationLatency
  BY KnownLate DEF RevocationLatency, LetsIn, TypeOK, SameIndexes
<1> QED
  BY <1>1, DatedInvariant, PTL

(* No rotation starts from a key revoked longer ago than that, whichever    *)
(* process is asked for it.                                                 *)
THEOREM RotationIsTimely == Spec => RotationTimely
<1>1. ASSUME TypeOK, CachesDated, [Next]_vars PROVE RotatesInTime
  <2> SUFFICES ASSUME NEW p \in Instances, pc[p] = "idle", pc'[p] = "rotateNew",
                      RevokedSince(req'[p].old)
               PROVE  now - revokedAt[req'[p].old] <= TTL + LoadTime
    BY DEF RotatesInTime
  <2>1. Ready(p) /\ req'[p].old \in cache[p].byId
    <3>1. ~Tick /\ ~UNCHANGED vars
      BY DEF Tick, procs, vars
    <3>2. PICK q \in Instances : StepOf(q)
      BY <1>1, <3>1, NextIsOfOne
    <3>3. q = p
      BY <1>1, <3>2, OnlyOneMoves DEF OthersKept
    <3> QED
      BY <1>1, <3>2, <3>3, PcMoves
  <2> QED
    BY <1>1, <2>1, KnownLate
<1>2. TypeOK /\ CachesDated /\ [Next]_vars => [RotatesInTime]_vars
  BY <1>1
<1> QED
  BY <1>2, DatedInvariant, PTL DEF Spec, RotationTimely

-----------------------------------------------------------------------------
(* Times of use *)

LEMMA UseInOrder ==
  ASSUME NEW a \in Time, NEW b \in Time, NEW c \in Time
  PROVE  /\ NotEarlier(a, a)
         /\ NotEarlier(Never, a)
         /\ NotEarlier(a, b) /\ NotEarlier(b, c) => NotEarlier(a, c)
         /\ b \in Nat /\ c \in Nat /\ NotEarlier(a, b) /\ b <= c => NotEarlier(a, c)
  BY DEF NotEarlier, Time

LEMMA TruthEntry ==
  ASSUME TypeOK, NEW k \in Keys, Truth[k] # Absent
  PROVE  Truth[k].used \in Time /\ Truth[k].expires \in Time
  BY TruthType, EntryOf DEF Entry

LEMMA HeapEntry ==
  ASSUME NEW c \in CacheType, SameIndexes(c), NEW k \in c.byId
  PROVE  k \in Keys /\ c.heap[k].used \in Time /\ c.heap[k].expires \in Time
  BY EntryOf DEF CacheType, SameIndexes, Entry

-----------------------------------------------------------------------------
(* Caches that follow the source of truth *)

AllFollow(c) == \A k \in c.byId : Follows(c, k)

LEMMA InstallFollows ==
  ASSUME TypeOK, TruthDated, NEW doc \in Registry,
         \A k \in Keys : doc[k] \in {Truth[k], Absent}
  PROVE  AllFollow(Install(doc)) /\ Install(doc).byId \subseteq Keys
<1> SUFFICES ASSUME NEW k \in Keys, doc[k] # Absent
             PROVE  Follows(Install(doc), k)
  BY DEF AllFollow, Install
<1>1. doc[k] = Truth[k] /\ Install(doc).heap[k] = Truth[k]
  BY DEF Install
<1>2. NotEarlier(Truth[k].used, Truth[k].used)
  BY <1>1, TruthEntry, UseInOrder
<1> QED
  BY <1>1, <1>2 DEF Follows, TruthDated

(* A new cache that follows, with the source of truth and the clock as they *)
(* were, and no announcement but perhaps one less.                          *)
LEMMA FollowStep ==
  ASSUME TypeOK, CachesFollow, TruthDated, NEW p \in Instances, NEW c,
         cache' = [cache EXCEPT ![p] = c], AllFollow(c), c.byId \subseteq Keys,
         Truth' = Truth, now' = now,
         \A k \in Keys : deadline'[k] \in {deadline[k], Never}
  PROVE  CachesFollow' /\ TruthDated'
<1>1. \A q \in Instances : cache'[q] = IF q = p THEN c ELSE cache[q]
  BY DEF TypeOK
<1>2. ASSUME NEW q \in Instances, NEW k \in cache'[q].byId
      PROVE  Follows(cache[q], k)'
  <2>1. k \in Keys /\ Follows(cache'[q], k)
    BY <1>1 DEF CachesFollow, AllFollow, TypeOK, CacheType
  <2> QED
    BY <2>1 DEF Follows
<1>3. TruthDated'
  BY DEF TruthDated
<1> QED
  BY <1>2, <1>3 DEF CachesFollow

(* Nothing but the clock, or an announcement withdrawn. *)
LEMMA FollowKept ==
  ASSUME TypeOK, CachesFollow, TruthDated, UNCHANGED cache, Truth' = Truth,
         now' \in Nat, now <= now',
         \A k \in Keys : deadline'[k] \in {deadline[k], Never}
  PROVE  CachesFollow' /\ TruthDated'
<1>1. ASSUME NEW a \in Time, NotEarlier(a, now) PROVE NotEarlier(a, now')
  BY <1>1 DEF NotEarlier, Time, TypeOK
<1>2. ASSUME NEW q \in Instances, NEW k \in cache[q].byId
      PROVE  Follows(cache[q], k)'
  <2>1. k \in Keys /\ Follows(cache[q], k) /\ cache[q].heap[k].used \in Time
    BY HeapEntry DEF CachesFollow, TypeOK
  <2> QED
    BY <1>1, <2>1 DEF Follows
<1>3. TruthDated'
  BY <1>1, TruthEntry DEF TruthDated
<1> QED
  BY <1>2, <1>3 DEF CachesFollow
-----------------------------------------------------------------------------
(* A write *)

(* Where the entry of a key comes from. *)
LEMMA TransformEntry ==
  ASSUME TypeOK, NEW p \in Instances, pc[p] \in Handlers, NEW doc \in Registry, NEW k \in Keys,
         ~(Issuing(p) /\ k = req[p].new), Transform(p, doc)[k] # Absent
  PROVE  /\ doc[k] # Absent
         /\ Transform(p, doc)[k].used = IF pc[p] = "flush" /\ k \in UsedHere(p)
                                       THEN cache[p].heap[k].used ELSE doc[k].used
         /\ Transform(p, doc)[k].expires = IF pc[p] = "rotateOld" /\ k = req[p].old
                                          THEN req[p].exp ELSE doc[k].expires
<1>1. CASE Issuing(p)
  <2>1. Transform(p, doc)[k] = doc[k]
    BY <1>1 DEF Transform, WithEntry, Issuing, Registry
  <2> QED
    BY <1>1, <2>1 DEF Issuing
<1>2. CASE pc[p] = "revoke"
  BY <1>2 DEF Transform, Without, Registry, TypeOK
<1>3. CASE pc[p] = "rotateOld"
  <2>1. doc[k] # Absent
    BY <1>3 DEF Transform, WithExpiry
  <2> PICK e \in Entry : e = doc[k]
    BY <2>1, EntryOf
  <2>2. Transform(p, doc)[k] = IF k = req[p].old THEN [e EXCEPT !.expires = req[p].exp] ELSE e
    BY <1>3, <2>1 DEF Transform, WithExpiry
  <2> QED
    BY <1>3, <2>1, <2>2 DEF Entry
<1>4. CASE pc[p] = "flush"
  <2>1. doc[k] # Absent
    BY <1>4 DEF Transform, WithUse
  <2> PICK e \in Entry : e = doc[k]
    BY <2>1, EntryOf
  <2>2. Transform(p, doc)[k] = IF k \in UsedHere(p)
                               THEN [e EXCEPT !.used = cache[p].heap[k].used] ELSE e
    BY <1>4, <2>1 DEF Transform, WithUse
  <2> QED
    BY <1>4, <2>1, <2>2 DEF Entry
<1> QED
  BY <1>1, <1>2, <1>3, <1>4 DEF Handlers, Issuing

LEMMA TransformNew ==
  ASSUME TypeOK, NEW p \in Instances, Issuing(p), NEW doc \in Registry
  PROVE  Transform(p, doc)[req[p].new] =
           [expires |-> IF pc[p] = "issue" THEN req[p].exp ELSE Never, used |-> Never]
  BY DEF Transform, WithEntry, Issuing, Registry, TypeOK

(* The write of a lone process. *)
LEMMA LonePut ==
  ASSUME TypeOK, SnapCurrent, NEW p \in Instances, WritesTruth(p)
  PROVE  /\ pc[p] \in Handlers /\ Truth' = Transform(p, Truth) /\ overwritten' = {}
         /\ Persisted(p) \/ Aborted(p)
         /\ now' = now
<1>1. pc[p] \in Handlers
  BY TruthPut
<1>2. snap[p] = NoDoc \/ snap[p] = secret
  BY <1>1, PcKinds DEF SnapCurrent
<1> QED
  BY <1>1, <1>2, TruthPut DEF SnapCurrent

(* A stored use never moves backwards. *)
LEMMA WriteUse ==
  ASSUME TypeOK, StoreInv, SnapCurrent, CachesFollow, NEW p \in Instances, WritesTruth(p),
         NEW k \in Keys, Truth[k] # Absent, Truth'[k] # Absent
  PROVE  NotEarlier(Truth[k].used, Truth'[k].used)
<1>1. ~(Issuing(p) /\ k = req[p].new)
  BY DEF StoreInv, FreshKeys, Unwritten, Pending, Issuing, Truth
<1>2. Truth' = Transform(p, Truth) /\ pc[p] \in Handlers
  BY LonePut
<1>3. Truth'[k].used = IF pc[p] = "flush" /\ k \in UsedHere(p)
                       THEN cache[p].heap[k].used ELSE Truth[k].used
  BY <1>1, <1>2, TransformEntry, TruthType
<1>4. k \in UsedHere(p) => NotEarlier(Truth[k].used, cache[p].heap[k].used)
  BY DEF CachesFollow, Follows, UsedHere
<1>5. NotEarlier(Truth[k].used, Truth[k].used)
  BY TruthEntry, UseInOrder
<1> QED
  BY <1>3, <1>4, <1>5

LEMMA UseStep ==
  ASSUME TypeOK, StoreInv, SnapCurrent, CachesFollow, [Next]_vars,
         NEW k \in Keys, Truth[k] # Absent, Truth'[k] # Absent
  PROVE  NotEarlier(Truth[k].used, Truth'[k].used)
<1>1. CASE \A p \in Instances : ~WritesTruth(p)
  BY <1>1, TruthKept, TruthEntry, UseInOrder
<1> QED
  BY <1>1, WriteUse
-----------------------------------------------------------------------------
(* A write, and what its handler publishes, for a process on its own *)

LEMMA NewAndOld ==
  ASSUME TypeOK, MidWay, NEW p \in Instances, Issuing(p)
  PROVE  /\ req[p].new \in Keys /\ Pending(req[p].new) /\ deadline[req[p].new] = Never
         /\ pc[p] = "rotateNew" => req[p].old # req[p].new /\ req[p].old \in Keys
  BY DEF MidWay, TypeOK, Pending, Issuing

(* What has been announced after a handler's end.                           *)
LEMMA DeadlineAtEnd ==
  ASSUME TypeOK, NEW p \in Instances, Persisted(p) \/ Aborted(p), NEW k \in Keys
  PROVE  \/ deadline'[k] = deadline[k]
         \/ pc[p] = "rotateOld" /\ k = req[p].old /\ deadline'[k] = req[p].exp
  BY DEF Persisted, Aborted, IssueDone, RevokeDone, RotateNewDone, RotateOldDone, FlushDone,
         ledger, TypeOK

(* What is in memory then: the new key, or what was there, of which only    *)
(* the key being rotated has changed.                                       *)
LEMMA CacheAtEnd ==
  ASSUME TypeOK, MidWay, NEW p \in Instances, Persisted(p) \/ Aborted(p),
         NEW k \in cache'[p].byId
  PROVE  /\ k \in Keys
         /\ \/ /\ Issuing(p) /\ k = req[p].new
               /\ cache'[p].heap[k] =
                    [expires |-> IF pc[p] = "issue" THEN req[p].exp ELSE Never, used |-> Never]
            \/ /\ k \in cache[p].byId
               /\ cache'[p].heap[k].used = cache[p].heap[k].used
               /\ \/ cache'[p].heap[k].expires = cache[p].heap[k].expires
                  \/ pc[p] = "rotateNew" /\ k = req[p].old
<1>1. CASE IssueDone(p)
  <2>1. cache'[p] = WithNew(p, cache[p], req[p].exp) /\ pc[p] = "issue"
    BY <1>1 DEF IssueDone, TypeOK
  <2>2. cache[p] \in CacheType /\ req[p].new \in Keys
    BY <2>1 DEF TypeOK
  <2> QED
    BY <2>1, <2>2 DEF WithNew, CacheType, Registry, Issuing
<1>2. CASE RotateNewDone(p)
  <2> DEFINE new == req[p].new
             old == req[p].old
             c == WithNew(p, cache[p], Never)
             d == IF old \in c.byId THEN [c EXCEPT !.heap[old].expires = req[p].exp] ELSE c
  <2>1. cache'[p] = d /\ pc[p] = "rotateNew" /\ Issuing(p)
    BY <1>2 DEF RotateNewDone, TypeOK, Issuing
  <2>2. new \in Keys /\ old \in Keys /\ new # old /\ req[p].exp \in Nat
    BY <2>1, NewAndOld DEF TypeOK
  <2>3. c \in CacheType /\ SameIndexes(c)
    BY <2>2, WithNewType DEF Time
  <2>4. /\ c.byId = cache[p].byId \cup {new}
        /\ c.heap[new] = [expires |-> Never, used |-> Never]
        /\ \A x \in Keys : x # new => c.heap[x] = cache[p].heap[x]
    BY <2>2 DEF WithNew, TypeOK, CacheType, Registry
  <2> HIDE DEF c, new, old
  <2>5. d.byId = c.byId /\ \A x \in Keys : x # old => d.heap[x] = c.heap[x]
    BY <2>2, <2>3 DEF CacheType, Registry
  <2>6. old \in c.byId => d.heap[old].used = c.heap[old].used
    <3>1. old \in c.byId => c.heap[old] \in Entry
      BY <2>2, <2>3, EntryOf DEF CacheType, SameIndexes
    <3> QED
      BY <2>2, <2>3, <3>1 DEF CacheType, Registry, Entry
  <2> HIDE DEF d
  <2>7. CASE k = new
    BY <2>1, <2>2, <2>4, <2>5, <2>7 DEF new
  <2>8. CASE k # new /\ k = old
    BY <2>1, <2>2, <2>4, <2>5, <2>6, <2>8 DEF old
  <2>9. CASE k # new /\ k # old
    <3>1. k \in cache[p].byId /\ k \in Keys
      BY <2>1, <2>4, <2>5, <2>9 DEF TypeOK, CacheType
    <3> QED
      BY <2>1, <2>4, <2>5, <2>9, <3>1
  <2> QED
    BY <2>7, <2>8, <2>9
<1>3. CASE Leave(p)
  BY <1>3 DEF Leave, NoCache, TypeOK
<1>4. CASE UNCHANGED cache
  BY <1>4 DEF TypeOK, CacheType
<1> QED
  BY <1>1, <1>2, <1>3, <1>4
     DEF Persisted, Aborted, RevokeDone, RotateOldDone, FlushDone

LEMMA LoneWrite ==
  ASSUME OneProcess, TypeOK, StoreInv, LoneInv, NEW p \in Instances, WritesTruth(p)
  PROVE  CachesFollow' /\ TruthDated'
<1> USE DEF LoneInv
<1>1. /\ pc[p] \in Handlers /\ (Persisted(p) \/ Aborted(p)) /\ now' = now
      /\ Truth' = Transform(p, Truth) /\ Truth \in Registry /\ Truth' \in Registry
  BY LonePut, TruthType, TransformType
<1>2. ASSUME NEW k \in Keys, Issuing(p), k = req[p].new
      PROVE  /\ Truth'[k] = [expires |-> IF pc[p] = "issue" THEN req[p].exp ELSE Never,
                             used |-> Never]
             /\ deadline'[k] = Never
  <2>1. deadline'[k] = deadline[k]
    BY <1>1, <1>2, DeadlineAtEnd DEF Issuing
  <2> QED
    BY <1>1, <1>2, <2>1, TransformNew, NewAndOld
<1>3. ASSUME NEW k \in Keys, ~(Issuing(p) /\ k = req[p].new), Truth'[k] # Absent
      PROVE  /\ Truth[k] # Absent
             /\ Truth'[k].used = IF pc[p] = "flush" /\ k \in UsedHere(p)
                                 THEN cache[p].heap[k].used ELSE Truth[k].used
             /\ Truth'[k].expires = IF pc[p] = "rotateOld" /\ k = req[p].old
                                    THEN req[p].exp ELSE Truth[k].expires
  BY <1>1, <1>3, TransformEntry
<1>4. \A a : NotEarlier(Never, a)
  BY DEF NotEarlier
<1>5. TruthDated'
  <2> SUFFICES ASSUME NEW k \in Keys, Truth'[k] # Absent
               PROVE  /\ NotEarlier(Truth'[k].used, now)
                      /\ deadline'[k] # Never => Truth'[k].expires = deadline'[k]
    BY <1>1 DEF TruthDated
  <2>1. CASE Issuing(p) /\ k = req[p].new
    BY <1>2, <1>4, <2>1
  <2>2. CASE ~(Issuing(p) /\ k = req[p].new)
    <3>1. NotEarlier(Truth'[k].used, now)
      BY <1>3, <2>2 DEF TruthDated, CachesFollow, Follows, UsedHere
    <3>2. CASE pc[p] = "rotateOld" /\ k = req[p].old
      <4>1. deadline[k] = Never
        BY <3>2 DEF MidWay
      <4> QED
        BY <1>1, <1>3, <2>2, <3>1, <3>2, <4>1, DeadlineAtEnd
    <3>3. CASE ~(pc[p] = "rotateOld" /\ k = req[p].old)
      BY <1>1, <1>3, <2>2, <3>1, <3>3, DeadlineAtEnd DEF TruthDated
    <3> QED
      BY <3>2, <3>3
  <2> QED
    BY <2>1, <2>2
<1>6. CachesFollow'
  <2> SUFFICES ASSUME NEW k \in cache'[p].byId
               PROVE  /\ Truth'[k] # Absent
                      /\ NotEarlier(Truth'[k].used, cache'[p].heap[k].used)
                      /\ NotEarlier(cache'[p].heap[k].used, now)
                      /\ deadline'[k] # Never => cache'[p].heap[k].expires = deadline'[k]
    BY <1>1 DEF CachesFollow, Follows, OneProcess
  <2>1. k \in Keys
    BY <1>1, CacheAtEnd
  <2>2. CASE Issuing(p) /\ k = req[p].new
    <3>1. k \notin cache[p].byId
      BY <2>1, <2>2, NewAndOld DEF StoreInv, FreshKeys, Unwritten
    <3>2. cache'[p].heap[k] = Truth'[k]
      BY <1>1, <1>2, <2>1, <2>2, <3>1, CacheAtEnd
    <3>3. Truth'[k] # Absent
      BY <2>1, <2>2, LonePut, WritePresence
    <3> QED
      BY <1>2, <1>4, <2>1, <2>2, <3>2, <3>3
  <2>3. CASE ~(Issuing(p) /\ k = req[p].new)
    <3>1. /\ k \in cache[p].byId
          /\ cache'[p].heap[k].used = cache[p].heap[k].used
          /\ \/ cache'[p].heap[k].expires = cache[p].heap[k].expires
             \/ pc[p] = "rotateNew" /\ k = req[p].old
      BY <1>1, <2>3, CacheAtEnd
    <3>2. Follows(cache[p], k)
      BY <3>1 DEF CachesFollow
    <3>3. Truth'[k] # Absent
      <4>1. ~(pc[p] = "revoke" /\ k = req[p].old)
        BY <3>1 DEF MidWay
      <4> QED
        BY <2>1, <2>3, <3>2, <4>1, LonePut, WritePresence DEF Follows
    <3>4. NotEarlier(Truth'[k].used, cache'[p].heap[k].used)
      <4>1. cache[p].heap[k].used \in Time
        BY <3>1, HeapEntry DEF TypeOK
      <4>2. NotEarlier(cache[p].heap[k].used, cache[p].heap[k].used)
        BY <4>1, UseInOrder
      <4> QED
        BY <1>3, <2>1, <2>3, <3>1, <3>2, <3>3, <4>2 DEF Follows
    <3>5. ASSUME deadline'[k] # Never
          PROVE  cache'[p].heap[k].expires = deadline'[k]
      <4>1. ~(pc[p] = "rotateNew" /\ k = req[p].old)
        BY <1>1, <2>1, <3>5, DeadlineAtEnd DEF MidWay
      <4>2. pc[p] = "rotateOld" /\ k = req[p].old => cache[p].heap[k].expires = req[p].exp
        BY <3>1 DEF MidWay
      <4> QED
        BY <1>1, <2>1, <3>1, <3>2, <3>5, <4>1, <4>2, DeadlineAtEnd DEF Follows
    <3> QED
      BY <3>1, <3>2, <3>3, <3>4, <3>5 DEF Follows
  <2> QED
    BY <2>2, <2>3
<1> QED
  BY <1>5, <1>6
-----------------------------------------------------------------------------
(* Handlers that are midway *)

LEMMA DeadlineStep ==
  ASSUME TypeOK, [Next]_vars, NEW k \in Keys
  PROVE  \/ deadline'[k] \in {deadline[k], Never}
         \/ \E p \in Instances : pc[p] = "rotateOld" /\ k = req[p].old /\ WritesTruth(p)
<1>1. Tick \/ UNCHANGED vars => UNCHANGED deadline
  BY DEF Tick, vars, ledger
<1>2. ASSUME NEW p \in Instances,
             \/ Start(p) \/ Refresh(p) \/ Reload(p) \/ Installed(p) \/ StartIssue(p)
             \/ Shutdown(p) \/ SMGet(p) \/ TearLocal(p) \/ Crash(p)
      PROVE  UNCHANGED deadline
  BY <1>2 DEF Start, Refresh, Reload, Load, Installed, StartIssue, Shutdown, SMGet, TearLocal,
              Crash, ledger
<1>3. ASSUME NEW p \in Instances, NEW x \in Keys, Authenticate(p, x) \/ StartRevoke(p, x)
      PROVE  UNCHANGED deadline
  BY <1>3 DEF Authenticate, StartRevoke, ledger
<1>4. ASSUME NEW p \in Instances, NEW x \in Keys, StartRotate(p, x)
      PROVE  deadline'[k] \in {deadline[k], Never}
  BY <1>4 DEF StartRotate, TypeOK
<1>5. ASSUME NEW p \in Instances, SMFails(p) \/ SMAckLost(p) \/ LocalFails(p)
      PROVE  UNCHANGED deadline
  BY <1>5 DEF SMFails, SMAckLost, LocalFails, Aborted, ledger
<1>6. ASSUME NEW p \in Instances, SMPut(p) \/ LocalPut(p)
      PROVE  \/ deadline'[k] = deadline[k]
             \/ pc[p] = "rotateOld" /\ k = req[p].old /\ WritesTruth(p)
  BY <1>6, DeadlineAtEnd DEF SMPut, LocalPut, WritesTruth
<1> QED
  BY <1>1, <1>2, <1>3, <1>4, <1>5, <1>6, NextIsOfOne DEF StepOf

(* What MidWay says of one process. *)
MidWayAt(p) ==
  /\ pc[p] = "revoke" => req[p].old \notin cache[p].byId
  /\ pc[p] \in {"rotateNew", "rotateOld"} => deadline[req[p].old] = Never /\ ~Pending(req[p].old)
  /\ pc[p] = "rotateOld" /\ req[p].old \in cache[p].byId =>
       cache[p].heap[req[p].old].expires = req[p].exp

LEMMA MidWayStep ==
  ASSUME OneProcess, TypeOK, StoreInv, MidWay, [Next]_vars
  PROVE  MidWay'
<1> FreshKeys /\ DrawnOnce
  BY DEF StoreInv, FreshKeys
<1>0. CASE Tick \/ UNCHANGED vars
  <2>1. UNCHANGED <<pc, req, cache, deadline, minted>>
    BY <1>0 DEF Tick, vars, procs, ledger
  <2> QED
    BY <2>1 DEF MidWay, Pending
<1>1. ASSUME NEW p \in Instances, StepOf(p) PROVE MidWay'
  <2>1. \A k \in Keys : Pending(k)' => Pending(k)
    BY <1>1, PendingStep
  <2>2. \A k \in Keys : Pending(k)' => deadline'[k] = Never
    BY <2>1, DeadlineStep DEF MidWay
  <2>3. ASSUME NEW k \in Keys, ~Pending(k), deadline[k] = Never, pc[p] \notin {"rotateOld"}
        PROVE  deadline'[k] = Never /\ ~Pending(k)'
    BY <2>1, <2>3, DeadlineStep DEF OneProcess
  <2>4. pc'[p] = "revoke" => req'[p].old \notin cache'[p].byId
    BY <1>1, PcMoves DEF MidWay
  <2>5. pc'[p] = "rotateNew" => deadline'[req'[p].old] = Never /\ ~Pending(req[p].old)'
    <3> SUFFICES ASSUME pc'[p] = "rotateNew"
                 PROVE  deadline'[req'[p].old] = Never /\ ~Pending(req[p].old)'
      OBVIOUS
    <3> PICK o : o = req'[p].old
      OBVIOUS
    <3>1. CASE pc[p] = "rotateNew" /\ req'[p] = req[p]
      <4>1. o \in Keys /\ deadline[o] = Never /\ ~Pending(o)
        BY <3>1 DEF MidWay, TypeOK
      <4>2. deadline'[o] = Never /\ ~Pending(o)'
        BY <2>3, <3>1, <4>1
      <4> QED
        BY <4>2 DEF Pending
    <3>2. CASE o \in cache[p].byId /\ deadline'[o] = Never
      <4>1. o \in Keys /\ ~Pending(o)
        BY <3>2 DEF FreshKeys, Unwritten, TypeOK, CacheType
      <4>2. ~Pending(o)'
        BY <2>1, <4>1
      <4> QED
        BY <3>2, <4>2 DEF Pending
    <3> QED
      BY <1>1, <3>1, <3>2, PcMoves
  <2>6. pc'[p] = "rotateOld" =>
          /\ deadline'[req'[p].old] = Never /\ ~Pending(req[p].old)'
          /\ req'[p].old \in cache'[p].byId => cache'[p].heap[req'[p].old].expires = req'[p].exp
    <3> SUFFICES ASSUME pc'[p] = "rotateOld"
                 PROVE  /\ deadline'[req'[p].old] = Never /\ ~Pending(req[p].old)'
                        /\ req'[p].old \in cache'[p].byId
                             => cache'[p].heap[req'[p].old].expires = req'[p].exp
      OBVIOUS
    <3> PICK o : o = req'[p].old
      OBVIOUS
    <3>1. CASE pc[p] = "rotateOld" /\ req'[p] = req[p] /\ cache'[p] = cache[p]
      <4>1. o \in Keys /\ deadline[o] = Never /\ ~Pending(o)
        BY <3>1 DEF MidWay, TypeOK
      <4>2. ~Pending(o)'
        BY <2>1, <4>1
      <4>3. ~WritesTruth(p)
        <5>1. ASSUME WritesTruth(p) PROVE FALSE
          <6>1. Persisted(p) \/ Aborted(p)
            BY <5>1, TruthPut
          <6> QED
            BY <3>1, <6>1 DEF Persisted, Aborted, IssueDone, RevokeDone, RotateNewDone,
               RotateOldDone, FlushDone, Respond, Leave, TypeOK
        <5> QED
          BY <5>1
      <4>4. deadline'[o] = Never
        BY <4>1, <4>3, DeadlineStep DEF OneProcess
      <4> QED
        BY <3>1, <4>2, <4>4 DEF Pending, MidWay
    <3>2. CASE RotateNewDone(p) /\ req'[p] = req[p]
      <4> DEFINE c == WithNew(p, cache[p], Never)
      <4>1. /\ pc[p] = "rotateNew" /\ deadline' = deadline
            /\ cache'[p] = IF o \in c.byId THEN [c EXCEPT !.heap[o].expires = req[p].exp] ELSE c
        BY <3>2 DEF RotateNewDone, ledger, TypeOK
      <4>2. o \in Keys /\ deadline[o] = Never /\ ~Pending(o) /\ req[p].new \in Keys
        BY <3>2, <4>1 DEF MidWay, TypeOK
      <4>3. c \in CacheType /\ SameIndexes(c)
        BY <4>2, WithNewType DEF Time
      <4> HIDE DEF c
      <4>4. o \in cache'[p].byId => cache'[p].heap[o].expires = req[p].exp
        <5>1. o \in c.byId => c.heap[o] \in Entry
          BY <4>2, <4>3, EntryOf DEF CacheType, SameIndexes
        <5> QED
          BY <4>1, <4>2, <4>3, <5>1 DEF CacheType, Registry, Entry
      <4>5. ~Pending(o)'
        BY <2>1, <4>2
      <4> QED
        BY <3>2, <4>1, <4>2, <4>4, <4>5 DEF Pending
    <3> QED
      BY <1>1, <3>1, <3>2, PcMoves
  <2>7. ASSUME NEW q \in Instances PROVE q = p
    BY DEF OneProcess
  <2>8. MidWayAt(p)'
    BY <2>4, <2>5, <2>6 DEF MidWayAt
  <2>9. ASSUME NEW q \in Instances PROVE MidWayAt(q)'
    BY <2>7, <2>8
  <2> QED
    BY <2>2, <2>9 DEF MidWay, MidWayAt
<1> QED
  BY <1>0, <1>1, NextIsOfOne

-----------------------------------------------------------------------------
(* The invariant of a process on its own *)

LEMMA LoneRead ==
  ASSUME OneProcess, TypeOK, StoreInv, LoneInv, NEW p \in Instances, StepOf(p), ~WritesTruth(p)
  PROVE  CachesFollow' /\ TruthDated'
<1> USE DEF LoneInv
<1>1. /\ Truth' = Truth /\ now' = now
      /\ \A k \in Keys : deadline'[k] \in {deadline[k], Never}
  <2>1. UNCHANGED <<now, secret, local>>
    BY StoresRest
  <2> QED
    BY <2>1, DeadlineStep, NextIsOfOne DEF Truth, OneProcess
<1>2. ASSUME cache' = cache \/ cache' = [cache EXCEPT ![p] = NoCache]
      PROVE  CachesFollow' /\ TruthDated'
  <2>1. NoCache.byId = {} /\ AllFollow(NoCache)
    BY DEF NoCache, AllFollow
  <2> QED
    BY <1>1, <1>2, <2>1, FollowStep, FollowKept DEF TypeOK
<1>3. ASSUME \/ Start(p) \/ Refresh(p) \/ Reload(p) \/ StartIssue(p) \/ Shutdown(p)
             \/ SMGet(p) \/ SMFails(p) \/ LocalFails(p) \/ TearLocal(p) \/ Crash(p)
      PROVE  CachesFollow' /\ TruthDated'
  BY <1>2, <1>3 DEF Start, Refresh, Reload, Load, StartIssue, Shutdown, SMGet, SMFails,
     LocalFails, TearLocal, Crash, Aborted, Leave
<1>4. ASSUME NEW k \in Keys, StartRotate(p, k) PROVE CachesFollow' /\ TruthDated'
  BY <1>2, <1>4 DEF StartRotate
<1>5. ASSUME Installed(p) PROVE CachesFollow' /\ TruthDated'
  <2>1. snap[p] \in Registry /\ \A k \in Keys : snap[p][k] \in {Truth[k], Absent}
    BY <1>5 DEF Installed, TypeOK, SnapCurrent
  <2>2. cache' = [cache EXCEPT ![p] = Install(snap[p])]
    BY <1>5 DEF Installed
  <2> QED
    BY <1>1, <2>1, <2>2, InstallFollows, FollowStep
<1>6. ASSUME NEW k \in Keys, Authenticate(p, k) PROVE CachesFollow' /\ TruthDated'
  <2> DEFINE c == cache[p]
             d == [c EXCEPT !.heap[k].used = now]
  <2>1. c \in CacheType /\ SameIndexes(c) /\ AllFollow(c) /\ k \in c.byHash
    BY <1>6 DEF TypeOK, CachesFollow, AllFollow, Authenticate, LetsIn
  <2>2. cache' = [cache EXCEPT ![p] = d]
    BY <1>6 DEF Authenticate
  <2> HIDE DEF c
  <2>3. k \in c.byId /\ c.heap[k] \in Entry
    BY <2>1, EntryOf DEF CacheType, SameIndexes
  <2>4. /\ d.byId = c.byId /\ d.heap[k].used = now /\ d.heap[k].expires = c.heap[k].expires
        /\ \A x \in Keys : x # k => d.heap[x] = c.heap[x]
    BY <2>1, <2>3 DEF CacheType, Registry, Entry
  <2>5. NotEarlier(now, now) /\ NotEarlier(Truth[k].used, now)
    <3>1. Truth[k] # Absent
      BY <2>1, <2>3 DEF AllFollow, Follows
    <3> QED
      BY <3>1, UseInOrder DEF TypeOK, Time, TruthDated
  <2>6. AllFollow(d) /\ d.byId \subseteq Keys
    BY <2>1, <2>3, <2>4, <2>5 DEF AllFollow, Follows, CacheType
  <2> HIDE DEF d
  <2> QED
    BY <1>1, <2>2, <2>6, FollowStep
<1>7. ASSUME NEW k \in Keys, StartRevoke(p, k) PROVE CachesFollow' /\ TruthDated'
  <2> DEFINE c == cache[p]
             d == [c EXCEPT !.byId = @ \ {k}, !.byHash = @ \ {k}, !.heap[k] = Absent]
  <2>1. c \in CacheType /\ AllFollow(c)
    BY DEF TypeOK, CachesFollow, AllFollow
  <2>2. cache' = [cache EXCEPT ![p] = d]
    BY <1>7 DEF StartRevoke
  <2> HIDE DEF c
  <2>3. d.byId = c.byId \ {k} /\ \A x \in Keys : x # k => d.heap[x] = c.heap[x]
    BY <2>1 DEF CacheType, Registry
  <2>4. AllFollow(d) /\ d.byId \subseteq Keys
    BY <2>1, <2>3 DEF AllFollow, Follows, CacheType
  <2> HIDE DEF d
  <2> QED
    BY <1>1, <2>2, <2>4, FollowStep
<1> QED
  BY <1>3, <1>4, <1>5, <1>6, <1>7 DEF StepOf, WritesTruth

LEMMA LoneStep ==
  ASSUME OneProcess, TypeOK, StoreInv, LoneInv, [Next]_vars
  PROVE  LoneInv'
<1> USE DEF LoneInv
<1>1. MidWay' /\ SnapCurrent'
  BY MidWayStep, SnapStep
<1>2. ASSUME NEW p \in Instances, StepOf(p)
      PROVE  CachesFollow' /\ TruthDated'
  BY <1>2, LoneRead, LoneWrite
<1>3. CASE Tick \/ UNCHANGED vars
  <2>1. UNCHANGED <<secret, local, cache, deadline>> /\ now' \in Nat /\ now <= now'
    BY <1>3 DEF Tick, vars, stores, procs, ledger, TypeOK
  <2>2. Truth' = Truth
    BY <2>1 DEF Truth
  <2> QED
    BY <1>1, <2>1, <2>2, FollowKept
<1> QED
  BY <1>1, <1>2, <1>3, NextIsOfOne

LEMMA LoneInit == Init => LoneInv
<1> SUFFICES ASSUME Init PROVE LoneInv
  OBVIOUS
<1>1. \A k \in Keys : Truth[k] = Absent
  BY DEF Init, Deployed, Truth, Empty
<1> QED
  BY <1>1, SnapInit DEF Init, LoneInv, CachesFollow, TruthDated, MidWay, NoCache

THEOREM LoneInvariant ==
  ASSUME OneProcess
  PROVE  Spec => [](TypeOK /\ StoreInv /\ LoneInv)
<1>1. LoneInv /\ TypeOK /\ StoreInv /\ [Next]_vars => LoneInv'
  BY LoneStep
<1> QED
  BY <1>1, StoreInvariant, LoneInit, PTL DEF Spec

(* With one process, a key that validates in memory is stored: no crash     *)
(* makes it vanish, however many calls failed or lost their answer.         *)
THEOREM MemoryIsBacked ==
  ASSUME OneProcess
  PROVE  Spec => []CacheBacked
<1>1. TypeOK /\ LoneInv => CacheBacked
  BY DEF LoneInv, CachesFollow, Follows, CacheBacked, TypeOK, SameIndexes
<1> QED
  BY <1>1, LoneInvariant, PTL

(* With one process, a rotated key ends when the answer said, in the store  *)
(* and in memory, until it is rotated again or revoked.                     *)
THEOREM RotatedKeysExpire ==
  ASSUME OneProcess
  PROVE  Spec => []RotatedExpires
<1>1. TypeOK /\ LoneInv => RotatedExpires
  BY DEF LoneInv, CachesFollow, TruthDated, Follows, RotatedExpires, TypeOK, SameIndexes
<1> QED
  BY <1>1, LoneInvariant, PTL

(* With one process, no write moves a recorded last use backwards.          *)
THEOREM UsesOnlyAdvance ==
  ASSUME OneProcess
  PROVE  Spec => UsedMonotone
<1>1. TypeOK /\ StoreInv /\ LoneInv /\ [Next]_vars =>
        \A k \in Keys : Truth[k] # Absent /\ Truth'[k] # Absent
                         => NotEarlier(Truth[k].used, Truth'[k].used)
  BY UseStep DEF LoneInv
<1> QED
  BY <1>1, LoneInvariant, PTL DEF Spec, UsedMonotone
=============================================================================
