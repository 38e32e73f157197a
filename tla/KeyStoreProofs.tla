--------------------------- MODULE KeyStoreProofs ---------------------------
(* Proofs about KeyStore: types; only a lost update makes an issued key go  *)
(* missing or a revoked one come back, whatever the number of processes;    *)
(* and, of a lone process, no key is lost, no revoked one returns, and the  *)
(* store implements the registry that gives every key one life.             *)
EXTENDS KeyStore, TLAPS

USE ParametersOK, SentinelsOK

-----------------------------------------------------------------------------
(* The pieces a step is built from *)

LEMMA NoCacheType == NoCache \in CacheType /\ SameIndexes(NoCache)
  BY DEF NoCache, CacheType, SameIndexes, Empty, Registry, Time

LEMMA NoReqType == NoReq \in ReqType
  BY DEF NoReq, ReqType, Time

LEMMA TruthType == TypeOK => Truth \in Registry
  BY DEF TypeOK, Truth

LEMMA LoadedType ==
  ASSUME TypeOK, NEW o \in GetResults
  PROVE  Loaded(o) \in Registry /\ \A k \in Keys : Loaded(o)[k] \in {Truth[k], Absent}
<1>1. Empty \in Registry /\ \A k \in Keys : Empty[k] = Absent
  BY DEF Empty, Registry
<1>2. o = "ok" => secret # NoDoc
  BY DEF GetResults
<1> QED
  BY <1>1, <1>2 DEF Loaded, TypeOK, Truth

LEMMA InstallType ==
  ASSUME TypeOK, NEW doc \in Registry
  PROVE  Install(doc) \in CacheType /\ SameIndexes(Install(doc))
  BY DEF Install, TypeOK, CacheType, SameIndexes, Time

(* The entries of a registry are entries. *)
LEMMA EntryOf ==
  ASSUME NEW doc \in Registry, NEW k \in Keys, doc[k] # Absent
  PROVE  doc[k] \in Entry
  BY DEF Registry

LEMMA TransformType ==
  ASSUME TypeOK, NEW p \in Instances, pc[p] \in Handlers, NEW doc \in Registry
  PROVE  Transform(p, doc) \in Registry
<1> req[p].exp \in Time
  BY DEF TypeOK, ReqType
<1>1. ASSUME pc[p] \in {"issue", "rotateNew"}
      PROVE  WithEntry(p, doc) \in Registry
  BY <1>1 DEF WithEntry, Entry, Time, TypeOK, Registry
<1>2. Without(p, doc) \in Registry
  BY DEF Without, Registry
<1>3. ASSUME pc[p] = "rotateOld"
      PROVE  WithExpiry(p, doc) \in Registry
  BY <1>3, EntryOf DEF WithExpiry, Entry, Registry
<1>4. WithUse(p, doc) \in Registry
  <2>1. ASSUME NEW k \in UsedHere(p)
        PROVE  cache[p].heap[k].used \in Time
    <3>1. k \in Keys /\ cache[p].heap \in Registry /\ cache[p].heap[k] # Absent
      BY <2>1 DEF TypeOK, CacheType, SameIndexes, UsedHere
    <3> QED
      BY <3>1, EntryOf DEF Entry
  <2> QED
    BY <2>1, EntryOf DEF WithUse, Entry, Registry
<1> QED
  BY <1>1, <1>2, <1>3, <1>4 DEF Transform, Handlers

(* What the variables of the processes keep, whatever becomes of the stores. *)
ProcsOK ==
  /\ cache \in [Instances -> CacheType]
  /\ \A q \in Instances : SameIndexes(cache[q])
  /\ pc \in [Instances -> {"down", "idle"} \cup Loads \cup Handlers]
  /\ req \in [Instances -> ReqType]
  /\ \A q \in Instances :
       /\ pc[q] \in {"issue", "rotateNew", "rotateOld"} => req[q].new \in Keys
       /\ pc[q] \in {"revoke", "rotateNew", "rotateOld"} => req[q].old \in Keys
       /\ pc[q] \in {"rotateNew", "rotateOld"} => req[q].exp \in Nat
  /\ snap \in [Instances -> Registry \cup {NoDoc}]
  /\ readAt \in [Instances -> Time]
  /\ \A q \in Instances :
       /\ pc[q] \in {"down", "idle"} => snap[q] = NoDoc
       /\ pc[q] \in Loads => snap[q] # NoDoc /\ readAt[q] \in Nat
       /\ pc[q] \in Handlers /\ snap[q] # NoDoc => secret # NoDoc

LedgerOK ==
  /\ minted \subseteq Keys
  /\ told \in [Keys -> {"none", "issued", "revoking", "revoked"}]
  /\ revokedAt \in [Keys -> Time] /\ deadline \in [Keys -> Time]

StoresOK ==
  /\ now \in Nat
  /\ secret \in Registry \cup {NoDoc} /\ local \in Registry \cup {NoDoc}
  /\ secret = NoDoc <=> local # NoDoc
  /\ torn \in BOOLEAN /\ overwritten \subseteq Keys

LEMMA TypeParts ==
  /\ TypeOK <=> StoresOK /\ ProcsOK /\ LedgerOK
  /\ TypeOK' <=> StoresOK' /\ ProcsOK' /\ LedgerOK'
  BY DEF TypeOK, StoresOK, ProcsOK, LedgerOK

LEMMA PcKinds ==
  ASSUME NEW x
  PROVE  /\ ~(x \in Loads /\ x \in Handlers)
         /\ x \in {"down", "idle"} => x \notin Loads /\ x \notin Handlers
         /\ {"issue", "revoke", "rotateNew", "rotateOld", "flush"} = Handlers
         /\ {"start", "refresh", "reload"} = Loads
  BY DEF Loads, Handlers

(* What a handler does after its write, or after it gave up. *)
LEMMA LeaveType ==
  ASSUME TypeOK, NEW p \in Instances, Leave(p), secret' = NoDoc => secret = NoDoc
  PROVE  ProcsOK'
<1>1. Never \in Time
  BY DEF Time
<1> QED
  BY <1>1, NoCacheType, NoReqType, PcKinds DEF TypeOK, ProcsOK, Leave

LEMMA RespondType ==
  ASSUME TypeOK, NEW p \in Instances, Respond(p), secret' = NoDoc => secret = NoDoc,
         cache' \in [Instances -> CacheType], \A q \in Instances : SameIndexes(cache'[q])
  PROVE  ProcsOK'
  BY NoReqType, PcKinds DEF TypeOK, ProcsOK, Respond

LEMMA WithNewType ==
  ASSUME TypeOK, NEW p \in Instances, req[p].new \in Keys, NEW exp \in Time
  PROVE  /\ WithNew(p, cache[p], exp) \in CacheType
         /\ SameIndexes(WithNew(p, cache[p], exp))
<1> DEFINE e == [expires |-> exp, used |-> Never]
<1>1. cache[p] \in CacheType /\ SameIndexes(cache[p])
  BY DEF TypeOK
<1>2. e \in Entry /\ e # Absent
  BY DEF Entry, Time
<1>3. [cache[p].heap EXCEPT ![req[p].new] = e] \in Registry
  BY <1>1, <1>2 DEF CacheType, Registry
<1> QED
  BY <1>1, <1>2, <1>3 DEF WithNew, CacheType, SameIndexes, Registry

LEMMA PersistedType ==
  ASSUME TypeOK, NEW p \in Instances, Persisted(p), StoresOK', secret' = NoDoc => secret = NoDoc,
         now' = now
  PROVE  TypeOK'
<1>1. CASE IssueDone(p)
  <2>1. req[p].new \in Keys /\ req[p].exp \in Time
    BY <1>1 DEF IssueDone, TypeOK, ReqType
  <2>2. ProcsOK'
    BY <1>1, <2>1, WithNewType, RespondType DEF IssueDone, TypeOK
  <2>3. LedgerOK'
    BY <1>1, <2>1 DEF IssueDone, TypeOK, LedgerOK
  <2> QED
    BY <2>2, <2>3, TypeParts
<1>2. CASE RevokeDone(p)
  <2>1. ProcsOK'
    BY <1>2, RespondType DEF RevokeDone, TypeOK
  <2>2. LedgerOK'
    BY <1>2 DEF RevokeDone, TypeOK, LedgerOK, Time
  <2> QED
    BY <2>1, <2>2, TypeParts
<1>3. CASE RotateNewDone(p)
  <2> DEFINE c == WithNew(p, cache[p], Never)
             k == req[p].old
             d == IF k \in c.byId THEN [c EXCEPT !.heap[k].expires = req[p].exp] ELSE c
  <2>1. req[p].new \in Keys /\ k \in Keys /\ req[p].exp \in Nat
    BY <1>3 DEF RotateNewDone, TypeOK
  <2>2. c \in CacheType /\ SameIndexes(c)
    BY <2>1, WithNewType DEF Time
  <2>3. d \in CacheType /\ SameIndexes(d)
    <3> HIDE DEF c, k
    <3>1. ASSUME k \in c.byId
          PROVE  c.heap[k] \in Entry /\ [c.heap[k] EXCEPT !.expires = req[p].exp] \in Entry
      <4>1. c.heap \in Registry /\ c.heap[k] # Absent
        BY <2>1, <2>2, <3>1 DEF CacheType, SameIndexes
      <4> QED
        BY <2>1, <4>1, EntryOf DEF Entry, Time
    <3> QED
      BY <2>1, <2>2, <3>1 DEF CacheType, SameIndexes, Registry
  <2> HIDE DEF d
  <2>4. cache' = [cache EXCEPT ![p] = d]
    BY <1>3 DEF RotateNewDone, d
  <2>5. ProcsOK'
    <3>1. /\ pc' = [pc EXCEPT ![p] = "rotateOld"]
          /\ snap' = [snap EXCEPT ![p] = NoDoc]
          /\ UNCHANGED <<req, readAt>>
      BY <1>3 DEF RotateNewDone
    <3> QED
      BY <2>1, <2>3, <2>4, <3>1, PcKinds DEF TypeOK, ProcsOK
  <2> QED
    BY <1>3, <2>5, TypeParts DEF RotateNewDone, ledger, LedgerOK
<1>4. CASE RotateOldDone(p)
  <2>1. ProcsOK'
    BY <1>4, RespondType DEF RotateOldDone, TypeOK
  <2>2. LedgerOK'
    BY <1>4 DEF RotateOldDone, TypeOK, ReqType, LedgerOK
  <2> QED
    BY <2>1, <2>2, TypeParts
<1>5. CASE FlushDone(p)
  BY <1>5, LeaveType, TypeParts DEF FlushDone, LedgerOK, ledger
<1> QED
  BY <1>1, <1>2, <1>3, <1>4, <1>5 DEF Persisted

LEMMA AbortedType ==
  ASSUME TypeOK, NEW p \in Instances, Aborted(p), StoresOK', secret' = NoDoc => secret = NoDoc
  PROVE  TypeOK'
<1>1. ProcsOK'
  BY LeaveType, RespondType DEF Aborted, TypeOK
<1> QED
  BY <1>1, TypeParts DEF Aborted, LedgerOK, ledger

-----------------------------------------------------------------------------
(* Type correctness: whatever the outcomes of its calls, the number of      *)
(* processes and the moment they die, every variable keeps its shape, and   *)
(* the two indexes of a process list the same keys (revoke empties both,    *)
(* issue fills both).                                                       *)

LEMMA TypeInit == Init => TypeOK
<1> SUFFICES ASSUME Init PROVE TypeOK
  OBVIOUS
<1>1. Empty \in Registry
  BY DEF Empty, Registry
<1>2. Never \in Time
  BY DEF Time
<1>3. StoresOK
  BY <1>1 DEF Init, Deployed, StoresOK
<1>4. ProcsOK
  BY <1>2, NoCacheType, NoReqType, PcKinds DEF Init, ProcsOK
<1>5. LedgerOK
  BY <1>2 DEF Init, LedgerOK
<1> QED
  BY <1>3, <1>4, <1>5, TypeParts

LEMMA StoresKept ==
  ASSUME TypeOK, UNCHANGED <<now, stores>>
  PROVE  StoresOK' /\ (secret' = NoDoc => secret = NoDoc)
  BY TypeParts DEF StoresOK, stores

LEMMA LoadType ==
  ASSUME TypeOK, NEW p \in Instances, NEW why \in Loads, Load(p, why)
  PROVE  TypeOK'
<1>1. PICK o \in GetResults : snap' = [snap EXCEPT ![p] = Loaded(o)]
  BY DEF Load
<1>2. Loaded(o) \in Registry
  BY LoadedType
<1>3. ProcsOK'
  BY <1>1, <1>2, PcKinds DEF Load, TypeOK, ProcsOK, Time, stores
<1> QED
  BY <1>3, StoresKept, TypeParts DEF Load, LedgerOK, ledger

(* A request that waits for the store. *)
LEMMA BeginType ==
  ASSUME TypeOK, NEW p \in Instances, pc[p] = "idle", UNCHANGED <<now, stores, snap, readAt>>,
         NEW handler \in Handlers, NEW old \in Keys \cup {NoKey}, NEW new \in Keys \cup {NoKey},
         NEW exp \in Time, Begin(p, handler, old, new, exp),
         handler \in {"issue", "rotateNew", "rotateOld"} => new \in Keys,
         handler \in {"revoke", "rotateNew", "rotateOld"} => old \in Keys,
         handler \in {"rotateNew", "rotateOld"} => exp \in Nat,
         cache' \in [Instances -> CacheType], \A q \in Instances : SameIndexes(cache'[q])
  PROVE  ProcsOK'
<1>1. [old |-> old, new |-> new, exp |-> exp] \in ReqType
  BY DEF ReqType
<1> QED
  BY <1>1, PcKinds DEF Begin, TypeOK, ProcsOK, stores

LEMMA WriteType ==
  ASSUME TypeOK, NEW p \in Instances, Writing(p), SMWrite(p)
  PROVE  StoresOK' /\ secret' # NoDoc
<1>1. pc[p] \in Handlers /\ snap[p] \in Registry /\ secret # NoDoc
  BY DEF Writing, TypeOK
<1>2. Transform(p, snap[p]) \in Registry /\ Overwrites(p) \subseteq Keys
  BY <1>1, TransformType DEF Overwrites
<1> QED
  BY <1>1, <1>2 DEF SMWrite, TypeOK, StoresOK

LEMMA LocalType ==
  ASSUME TypeOK, NEW p \in Instances, LocalPut(p)
  PROVE  StoresOK' /\ UNCHANGED <<now, secret>>
<1>1. pc[p] \in Handlers /\ local \in Registry
  BY DEF LocalPut, Fallback, Reading, Writing, TypeOK
<1>2. Transform(p, local) \in Registry
  BY <1>1, TransformType
<1> QED
  BY <1>1, <1>2 DEF LocalPut, TypeOK, StoresOK

LEMMA AuthenticateType ==
  ASSUME TypeOK, NEW p \in Instances, NEW k \in Keys, Authenticate(p, k)
  PROVE  TypeOK'
<1> DEFINE c == cache[p]
           d == [c EXCEPT !.heap[k].used = now]
<1>1. c \in CacheType /\ SameIndexes(c)
  BY DEF TypeOK
<1>2. c.heap \in Registry /\ c.heap[k] \in Entry
  BY <1>1, EntryOf DEF CacheType, SameIndexes, Authenticate, LetsIn
<1>3. [c.heap[k] EXCEPT !.used = now] \in Entry
  BY <1>2 DEF Entry, Time, TypeOK
<1>4. d \in CacheType /\ SameIndexes(d)
  <2> HIDE DEF c
  <2> QED
    BY <1>1, <1>2, <1>3 DEF CacheType, SameIndexes, Registry
<1>5. cache' = [cache EXCEPT ![p] = d]
  BY DEF Authenticate
<1> HIDE DEF d
<1>6. ProcsOK'
  BY <1>4, <1>5 DEF Authenticate, TypeOK, ProcsOK, stores
<1> QED
  BY <1>6, StoresKept, TypeParts DEF Authenticate, LedgerOK, ledger

LEMMA StartRevokeType ==
  ASSUME TypeOK, NEW p \in Instances, NEW k \in Keys, StartRevoke(p, k)
  PROVE  TypeOK'
<1> DEFINE c == cache[p]
           d == [c EXCEPT !.byId = @ \ {k}, !.byHash = @ \ {k}, !.heap[k] = Absent]
<1>1. c \in CacheType /\ SameIndexes(c)
  BY DEF TypeOK
<1>2. d \in CacheType /\ SameIndexes(d)
  <2> HIDE DEF c
  <2> QED
    BY <1>1 DEF CacheType, SameIndexes, Registry
<1>3. cache' = [cache EXCEPT ![p] = d]
  BY DEF StartRevoke
<1> HIDE DEF d
<1>4. ProcsOK'
  <2>1. /\ cache' \in [Instances -> CacheType] /\ \A q \in Instances : SameIndexes(cache'[q])
    BY <1>2, <1>3 DEF TypeOK
  <2>2. "revoke" \in Handlers /\ Never \in Time
    BY DEF Handlers, Time
  <2> QED
    BY <2>1, <2>2, BeginType DEF StartRevoke, Ready
<1>5. LedgerOK'
  BY DEF StartRevoke, TypeOK, LedgerOK
<1> QED
  BY <1>4, <1>5, StoresKept, TypeParts DEF StartRevoke

LEMMA TypeStep ==
  ASSUME TypeOK, [Next]_vars
  PROVE  TypeOK'
<1>1. CASE Tick
  BY <1>1 DEF Tick, TypeOK, stores, procs, ledger
<1>2. ASSUME NEW p \in Instances, Start(p) \/ Refresh(p) \/ Reload(p) PROVE TypeOK'
  BY <1>2, LoadType DEF Start, Refresh, Reload, Loads
<1>3. ASSUME NEW p \in Instances, Installed(p) PROVE TypeOK'
  <2>1. snap[p] \in Registry
    BY <1>3 DEF Installed, TypeOK
  <2>2. ProcsOK'
    BY <1>3, <2>1, InstallType, PcKinds DEF Installed, TypeOK, ProcsOK, Time, stores
  <2> QED
    BY <1>3, <2>2, StoresKept, TypeParts DEF Installed, LedgerOK, ledger
<1>4. ASSUME NEW p \in Instances, StartIssue(p) PROVE TypeOK'
  <2>1. PICK k \in Keys \ minted, e \in IssueExpiries :
          Begin(p, "issue", NoKey, k, e) /\ minted' = minted \cup {k}
    BY <1>4 DEF StartIssue
  <2>2. ProcsOK'
    BY <1>4, <2>1, BeginType, PcKinds DEF StartIssue, Ready, TypeOK
  <2> QED
    BY <1>4, <2>1, <2>2, StoresKept, TypeParts DEF StartIssue, LedgerOK
<1>5. ASSUME NEW p \in Instances, Shutdown(p) PROVE TypeOK'
  <2>1. ProcsOK'
    <3>1. CASE Leave(p)
      BY <1>5, <3>1, LeaveType DEF Shutdown, stores
    <3>2. CASE Begin(p, "flush", NoKey, NoKey, Never) /\ UNCHANGED <<cache, snap, readAt>>
      BY <1>5, <3>2, BeginType, PcKinds DEF Shutdown, TypeOK, Time
    <3> QED
      BY <1>5, <3>1, <3>2 DEF Shutdown
  <2> QED
    BY <1>5, <2>1, StoresKept, TypeParts DEF Shutdown, LedgerOK, ledger
<1>6. ASSUME NEW p \in Instances, NEW k \in Presented, Authenticate(p, k) PROVE TypeOK'
  BY <1>6, AuthenticateType
<1>7. ASSUME NEW p \in Instances, NEW k \in Keys, StartRevoke(p, k) PROVE TypeOK'
  BY <1>7, StartRevokeType
<1>8. ASSUME NEW p \in Instances, NEW k \in Keys, StartRotate(p, k) PROVE TypeOK'
  <2>1. PICK new \in Keys \ minted, g \in GraceWindows :
          Begin(p, "rotateNew", k, new, now + g) /\ minted' = minted \cup {new}
    BY <1>8 DEF StartRotate
  <2>2. now + g \in Nat
    BY DEF TypeOK
  <2>3. ProcsOK'
    BY <1>8, <2>1, <2>2, BeginType, PcKinds DEF StartRotate, Ready, TypeOK, Time
  <2>4. LedgerOK'
    BY <1>8, <2>1 DEF StartRotate, TypeOK, LedgerOK, Time
  <2> QED
    BY <1>8, <2>3, <2>4, StoresKept, TypeParts DEF StartRotate
<1>9. ASSUME NEW p \in Instances, SMGet(p) PROVE TypeOK'
  <2>1. secret \in Registry
    BY <1>9 DEF SMGet, GetResults, TypeOK
  <2>2. ProcsOK'
    BY <1>9, <2>1, PcKinds DEF SMGet, Reading, TypeOK, ProcsOK, stores
  <2> QED
    BY <1>9, <2>2, StoresKept, TypeParts DEF SMGet, LedgerOK, ledger
<1>10. ASSUME NEW p \in Instances, SMPut(p) PROVE TypeOK'
  BY <1>10, WriteType, PersistedType DEF SMPut, SMWrite
<1>11. ASSUME NEW p \in Instances, SMFails(p) PROVE TypeOK'
  BY <1>11, StoresKept, AbortedType DEF SMFails
<1>12. ASSUME NEW p \in Instances, SMAckLost(p) PROVE TypeOK'
  BY <1>12, WriteType, AbortedType DEF SMAckLost
<1>13. ASSUME NEW p \in Instances, LocalPut(p) PROVE TypeOK'
  BY <1>13, LocalType, PersistedType DEF LocalPut
<1>14. ASSUME NEW p \in Instances, LocalFails(p) PROVE TypeOK'
  BY <1>14, StoresKept, AbortedType DEF LocalFails
<1>15. ASSUME NEW p \in Instances, TearLocal(p) PROVE TypeOK'
  <2>1. StoresOK'
    BY <1>15 DEF TearLocal, TypeOK, StoresOK
  <2> QED
    BY <1>15, <2>1, LeaveType, TypeParts DEF TearLocal, LedgerOK, ledger
<1>16. ASSUME NEW p \in Instances, Crash(p) PROVE TypeOK'
  BY <1>16, StoresKept, LeaveType, TypeParts DEF Crash, LedgerOK, ledger
<1>17. CASE UNCHANGED vars
  BY <1>17 DEF vars, stores, procs, ledger, TypeOK
<1> QED
  BY <1>1, <1>2, <1>3, <1>4, <1>5, <1>6, <1>7, <1>8, <1>9, <1>10, <1>11, <1>12,
     <1>13, <1>14, <1>15, <1>16, <1>17 DEF Next

THEOREM TypeCorrect == Spec => []TypeOK
  BY TypeInit, TypeStep, PTL DEF Spec

-----------------------------------------------------------------------------
(* What a transform does to the presence of a key *)

LEMMA EntryPresent ==
  ASSUME NEW e \in Entry
  PROVE  e # Absent
  BY SentinelsOK

LEMMA TransformPresence ==
  ASSUME TypeOK, NEW p \in Instances, pc[p] \in Handlers, NEW doc \in Registry, NEW k \in Keys
  PROVE  /\ Issuing(p) /\ k = req[p].new => Transform(p, doc)[k] # Absent
         /\ pc[p] = "revoke" /\ k = req[p].old => Transform(p, doc)[k] = Absent
         /\ ~(Issuing(p) /\ k = req[p].new) /\ ~(pc[p] = "revoke" /\ k = req[p].old)
              => (Transform(p, doc)[k] = Absent <=> doc[k] = Absent)
<1>1. CASE Issuing(p)
  <2> DEFINE e == [expires |-> IF pc[p] = "issue" THEN req[p].exp ELSE Never, used |-> Never]
  <2>1. e \in Entry
    BY DEF TypeOK, ReqType, Entry, Time
  <2>2. e # Absent
    BY <2>1, EntryPresent
  <2> HIDE DEF e
  <2>3. Transform(p, doc) = [doc EXCEPT ![req[p].new] = e]
    BY <1>1 DEF Transform, WithEntry, Issuing, e
  <2> QED
    BY <1>1, <2>2, <2>3 DEF Issuing, TypeOK, Registry
<1>2. CASE pc[p] = "revoke"
  BY <1>2 DEF Transform, Without, Issuing, TypeOK, Registry
<1>3. CASE pc[p] = "rotateOld"
  <2>1. ASSUME doc[k] # Absent, k = req[p].old
        PROVE  [doc[k] EXCEPT !.expires = req[p].exp] # Absent
    <3>1. [doc[k] EXCEPT !.expires = req[p].exp] \in Entry
      BY <2>1, EntryOf DEF Entry, TypeOK, ReqType
    <3> QED
      BY <3>1, EntryPresent
  <2> QED
    BY <1>3, <2>1 DEF Transform, WithExpiry, Issuing
<1>4. CASE pc[p] = "flush"
  <2>1. ASSUME doc[k] # Absent, k \in UsedHere(p)
        PROVE  [doc[k] EXCEPT !.used = cache[p].heap[k].used] # Absent
    <3>1. cache[p].heap \in Registry /\ cache[p].heap[k] # Absent
      BY <2>1 DEF TypeOK, CacheType, SameIndexes, UsedHere
    <3>2. [doc[k] EXCEPT !.used = cache[p].heap[k].used] \in Entry
      BY <2>1, <3>1, EntryOf DEF Entry
    <3> QED
      BY <3>2, EntryPresent
  <2> QED
    BY <1>4, <2>1 DEF Transform, WithUse, Issuing
<1> QED
  BY <1>1, <1>2, <1>3, <1>4 DEF Handlers, Issuing

-----------------------------------------------------------------------------
(* What a step leaves alone *)

StepOf(p) ==
  \/ Start(p) \/ Refresh(p) \/ Reload(p) \/ Installed(p)
  \/ StartIssue(p) \/ Shutdown(p)
  \/ \E k \in Presented : Authenticate(p, k)
  \/ \E k \in Keys : StartRevoke(p, k) \/ StartRotate(p, k)
  \/ SMGet(p) \/ SMPut(p) \/ SMFails(p) \/ SMAckLost(p)
  \/ LocalPut(p) \/ LocalFails(p) \/ TearLocal(p) \/ Crash(p)

WritesTruth(p) == SMPut(p) \/ SMAckLost(p) \/ LocalPut(p)

OthersKept(p) ==
  \A q \in Instances : q # p =>
    /\ pc'[q] = pc[q] /\ req'[q] = req[q]
    /\ cache'[q] = cache[q] /\ snap'[q] = snap[q] /\ readAt'[q] = readAt[q]

(* Whose step it is. *)
LEMMA NextIsOfOne ==
  [Next]_vars <=> Tick \/ UNCHANGED vars \/ \E p \in Instances : StepOf(p)
  BY DEF Next, StepOf

LEMMA EndKeeps ==
  ASSUME TypeOK, NEW p \in Instances, Persisted(p) \/ Aborted(p)
  PROVE  OthersKept(p)
  BY DEF TypeOK, OthersKept, Persisted, Aborted, IssueDone, RevokeDone, RotateNewDone,
         RotateOldDone, FlushDone, Respond, Leave

LEMMA OnlyOneMoves ==
  ASSUME TypeOK, NEW p \in Instances, StepOf(p)
  PROVE  OthersKept(p)
<1>1. ASSUME Start(p) \/ Refresh(p) \/ Reload(p) \/ Installed(p) \/ SMGet(p)
      PROVE  OthersKept(p)
  BY <1>1 DEF OthersKept, Start, Refresh, Reload, Installed, SMGet, Load, TypeOK
<1>2. ASSUME StartIssue(p) \/ Shutdown(p) \/ TearLocal(p) \/ Crash(p)
      PROVE  OthersKept(p)
  BY <1>2 DEF OthersKept, StartIssue, Shutdown, TearLocal, Crash, Leave, Begin, TypeOK
<1>3. ASSUME NEW k \in Keys, Authenticate(p, k) \/ StartRevoke(p, k)
      PROVE  OthersKept(p)
  BY <1>3 DEF OthersKept, Authenticate, StartRevoke, Begin, TypeOK
<1>4. ASSUME NEW k \in Keys, StartRotate(p, k)
      PROVE  OthersKept(p)
  BY <1>4 DEF OthersKept, StartRotate, Begin, TypeOK
<1>5. ASSUME SMPut(p) \/ SMFails(p) \/ SMAckLost(p) \/ LocalPut(p) \/ LocalFails(p)
      PROVE  OthersKept(p)
  BY <1>5, EndKeeps DEF SMPut, SMFails, SMAckLost, LocalPut, LocalFails
<1> QED
  BY <1>1, <1>2, <1>3, <1>4, <1>5 DEF StepOf

LEMMA StoresRest ==
  ASSUME NEW p \in Instances, StepOf(p), ~WritesTruth(p)
  PROVE  UNCHANGED <<now, secret, local, overwritten>>
<1>1. ASSUME NEW k \in Keys, Authenticate(p, k) \/ StartRevoke(p, k)
      PROVE  UNCHANGED <<now, secret, local, overwritten>>
  BY <1>1 DEF Authenticate, StartRevoke, stores
<1>2. ASSUME NEW k \in Keys, StartRotate(p, k)
      PROVE  UNCHANGED <<now, secret, local, overwritten>>
  BY <1>2 DEF StartRotate, stores
<1> QED
  BY <1>1, <1>2 DEF StepOf, WritesTruth, stores, Start, Refresh, Reload, Installed, Load,
     StartIssue, Shutdown, SMGet, SMFails, LocalFails, TearLocal, Crash

LEMMA TruthKept ==
  ASSUME [Next]_vars, \A p \in Instances : ~WritesTruth(p)
  PROVE  Truth' = Truth /\ overwritten' = overwritten
<1>1. UNCHANGED <<secret, local, overwritten>>
  BY NextIsOfOne, StoresRest DEF Tick, vars, stores
<1> QED
  BY <1>1 DEF Truth

LEMMA WriteIsStep ==
  ASSUME NEW p \in Instances, WritesTruth(p)
  PROVE  StepOf(p)
  BY DEF WritesTruth, StepOf

(* A write applies the transform to the document it read, and marks what    *)
(* comes out otherwise than on the current one.                             *)
LEMMA TruthPut ==
  ASSUME TypeOK, NEW p \in Instances, WritesTruth(p)
  PROVE  /\ pc[p] \in Handlers
         /\ Persisted(p) \/ Aborted(p)
         /\ now' = now /\ overwritten \subseteq overwritten'
         /\ \E doc \in Registry :
              /\ doc = Truth \/ doc = snap[p]
              /\ Truth' = Transform(p, doc)
              /\ \A k \in Keys \ overwritten' : Truth'[k] = Transform(p, Truth)[k]
         /\ snap[p] = NoDoc \/ snap[p] = secret => Truth' = Transform(p, Truth)
         /\ snap[p] = NoDoc \/ snap[p] = secret => overwritten' = overwritten
<1>1. CASE SMPut(p) \/ SMAckLost(p)
  <2>1. /\ pc[p] \in Handlers /\ snap[p] \in Registry /\ snap[p] # NoDoc /\ secret # NoDoc
        /\ SMWrite(p)
    BY <1>1 DEF SMPut, SMAckLost, Writing, TypeOK
  <2>2. Transform(p, snap[p]) \in Registry
    BY <2>1, TransformType
  <2>3. Truth = secret /\ Truth' = Transform(p, snap[p])
    BY <2>1, <2>2 DEF SMWrite, Truth
  <2>4. overwritten' = overwritten \cup Overwrites(p)
    BY <2>1 DEF SMWrite
  <2>5. \A k \in Keys \ overwritten' : Truth'[k] = Transform(p, Truth)[k]
    BY <2>3, <2>4 DEF Overwrites
  <2>6. snap[p] = secret => Overwrites(p) = {}
    BY DEF Overwrites
  <2> QED
    BY <1>1, <2>1, <2>3, <2>4, <2>5, <2>6 DEF SMPut, SMAckLost, SMWrite
<1>2. CASE LocalPut(p)
  <2>1. pc[p] \in Handlers /\ local \in Registry /\ secret = NoDoc
    BY <1>2 DEF LocalPut, Fallback, Reading, Writing, TypeOK
  <2>2. Truth = local /\ Truth' = Transform(p, local) /\ overwritten' = overwritten
    BY <1>2, <2>1 DEF LocalPut, Truth
  <2> QED
    BY <1>2, <2>1, <2>2 DEF LocalPut
<1> QED
  BY <1>1, <1>2 DEF WritesTruth

LEMMA MarksStay == ASSUME TypeOK, [Next]_vars PROVE overwritten \subseteq overwritten'
  BY TruthKept, TruthPut

-----------------------------------------------------------------------------
(* How each part of the state moves in a step of one process *)

Withdrawn == {"revoking", "revoked"}

LEMMA EndMoves ==
  ASSUME TypeOK, NEW p \in Instances, Persisted(p) \/ Aborted(p)
  PROVE  ~Issuing(p)' /\ UNCHANGED minted /\ snap'[p] = NoDoc
  BY DEF Persisted, Aborted, IssueDone, RevokeDone, RotateNewDone, RotateOldDone, FlushDone,
         Respond, Leave, ledger, TypeOK, Issuing

(* Identities: drawn when a handler begins, and his until it ends. *)
LEMMA MintedMoves ==
  ASSUME TypeOK, NEW p \in Instances, StepOf(p)
  PROVE  \/ Issuing(p)' /\ Issuing(p) /\ req'[p] = req[p] /\ minted' = minted
         \/ /\ Issuing(p)' /\ ~Issuing(p) /\ req'[p].new \in Keys \ minted
            /\ minted' = minted \cup {req'[p].new}
         \/ ~Issuing(p)' /\ minted' = minted
<1>1. ASSUME Start(p) \/ Refresh(p) \/ Reload(p) \/ Installed(p)
      PROVE  ~Issuing(p)' /\ minted' = minted
  BY <1>1 DEF Start, Refresh, Reload, Installed, Load, ledger, TypeOK, Issuing
<1>2. ASSUME SMGet(p) PROVE pc'[p] = pc[p] /\ req'[p] = req[p] /\ minted' = minted
  BY <1>2 DEF SMGet, ledger
<1>3. ASSUME StartIssue(p)
      PROVE  /\ Issuing(p)' /\ ~Issuing(p) /\ req'[p].new \in Keys \ minted
             /\ minted' = minted \cup {req'[p].new}
  BY <1>3 DEF StartIssue, Begin, Ready, Issuing, TypeOK
<1>4. ASSUME NEW k \in Keys, StartRotate(p, k)
      PROVE  /\ Issuing(p)' /\ ~Issuing(p) /\ req'[p].new \in Keys \ minted
             /\ minted' = minted \cup {req'[p].new}
  BY <1>4 DEF StartRotate, Begin, Ready, Issuing, TypeOK
<1>5. ASSUME NEW k \in Keys, StartRevoke(p, k)
      PROVE  ~Issuing(p)' /\ minted' = minted
  BY <1>5 DEF StartRevoke, Begin, Issuing, TypeOK
<1>6. ASSUME NEW k \in Keys, Authenticate(p, k)
      PROVE  ~Issuing(p)' /\ minted' = minted
  BY <1>6 DEF Authenticate, LetsIn, Ready, Issuing, TypeOK, ledger
<1>7. ASSUME Shutdown(p) \/ TearLocal(p) \/ Crash(p)
      PROVE  ~Issuing(p)' /\ minted' = minted
  BY <1>7 DEF Shutdown, TearLocal, Crash, Leave, Begin, Issuing, TypeOK, ledger
<1>8. ASSUME SMPut(p) \/ SMFails(p) \/ SMAckLost(p) \/ LocalPut(p) \/ LocalFails(p)
      PROVE  ~Issuing(p)' /\ minted' = minted
  BY <1>8, EndMoves DEF SMPut, SMFails, SMAckLost, LocalPut, LocalFails
<1> QED
  BY <1>1, <1>2, <1>3, <1>4, <1>5, <1>6, <1>7, <1>8 DEF StepOf, Issuing

(* How a process comes to be in the middle of a revocation or a rotation. *)
LEMMA PcMoves ==
  ASSUME TypeOK, NEW p \in Instances, StepOf(p)
  PROVE  /\ pc'[p] = "revoke" =>
              \/ pc[p] = "revoke" /\ req'[p] = req[p] /\ cache'[p] = cache[p]
              \/ /\ req'[p].old \in cache[p].byId /\ req'[p].old \notin cache'[p].byId
                 /\ told'[req'[p].old] \in Withdrawn
         /\ pc'[p] = "rotateOld" =>
              \/ pc[p] = "rotateOld" /\ req'[p] = req[p] /\ cache'[p] = cache[p]
              \/ WritesTruth(p) /\ RotateNewDone(p) /\ req'[p] = req[p]
         /\ pc'[p] = "rotateNew" =>
              \/ pc[p] = "rotateNew" /\ req'[p] = req[p]
              \/ Ready(p) /\ req'[p].old \in cache[p].byId /\ deadline'[req'[p].old] = Never
<1> DEFINE Quiet == pc'[p] \notin {"revoke", "rotateOld", "rotateNew"}
<1>1. ASSUME Start(p) \/ Refresh(p) \/ Reload(p) \/ Installed(p) PROVE Quiet
  BY <1>1 DEF Start, Refresh, Reload, Installed, Load, TypeOK
<1>2. ASSUME StartIssue(p) \/ Shutdown(p) \/ TearLocal(p) \/ Crash(p) PROVE Quiet
  BY <1>2 DEF StartIssue, Shutdown, TearLocal, Crash, Leave, Begin, TypeOK
<1>3. ASSUME SMGet(p) PROVE pc'[p] = pc[p] /\ req'[p] = req[p] /\ cache'[p] = cache[p]
  BY <1>3 DEF SMGet
<1>4. ASSUME NEW k \in Keys, StartRotate(p, k)
      PROVE  /\ pc'[p] = "rotateNew" /\ Ready(p) /\ req'[p].old \in cache[p].byId
             /\ deadline'[req'[p].old] = Never
  BY <1>4 DEF StartRotate, Begin, TypeOK
<1>5. ASSUME NEW k \in Keys, StartRevoke(p, k)
      PROVE  /\ pc'[p] = "revoke" /\ req'[p].old = k /\ k \in cache[p].byId
             /\ k \notin cache'[p].byId /\ told'[k] \in Withdrawn
  BY <1>5 DEF StartRevoke, Begin, TypeOK, CacheType, Withdrawn
<1>6. ASSUME NEW k \in Keys, Authenticate(p, k) PROVE Quiet
  BY <1>6 DEF Authenticate, LetsIn, Ready, TypeOK
<1>7. ASSUME Aborted(p) PROVE Quiet
  BY <1>7 DEF Aborted, Respond, Leave, TypeOK
<1>8. ASSUME Persisted(p) PROVE Quiet \/ (pc'[p] = "rotateOld" /\ RotateNewDone(p) /\ req'[p] = req[p])
  BY <1>8 DEF Persisted, IssueDone, RevokeDone, RotateNewDone, RotateOldDone, FlushDone,
              Respond, Leave, TypeOK
<1>9. ASSUME SMPut(p) \/ SMFails(p) \/ SMAckLost(p) \/ LocalPut(p) \/ LocalFails(p)
      PROVE  Aborted(p) \/ (Persisted(p) /\ WritesTruth(p))
  BY <1>9 DEF SMPut, SMFails, SMAckLost, LocalPut, LocalFails, WritesTruth
<1> QED
  BY <1>1, <1>2, <1>3, <1>4, <1>5, <1>6, <1>7, <1>8, <1>9 DEF StepOf

(* A key enters memory with a load, or when its issue is done. *)
LEMMA PersistedCache ==
  ASSUME TypeOK, NEW p \in Instances, Persisted(p), NEW k \in cache'[p].byId
  PROVE  k \in cache[p].byId \/ (Issuing(p) /\ k = req[p].new)
<1>1. CASE IssueDone(p)
  BY <1>1 DEF IssueDone, WithNew, TypeOK, CacheType, Issuing
<1>2. CASE RotateNewDone(p)
  <2> DEFINE c == WithNew(p, cache[p], Never)
  <2>1. c.byId = cache[p].byId \cup {req[p].new}
    BY DEF WithNew, TypeOK, CacheType
  <2>2. cache'[p].byId = c.byId
    <3>1. cache'[p] = IF req[p].old \in c.byId
                      THEN [c EXCEPT !.heap[req[p].old].expires = req[p].exp] ELSE c
      BY <1>2 DEF RotateNewDone, TypeOK
    <3>2. c \in CacheType
      BY <1>2, WithNewType DEF RotateNewDone, TypeOK, Time
    <3> HIDE DEF c
    <3> QED
      BY <3>1, <3>2 DEF CacheType
  <2> QED
    BY <1>2, <2>1, <2>2 DEF RotateNewDone, Issuing
<1>3. CASE RevokeDone(p) \/ RotateOldDone(p) \/ FlushDone(p)
  BY <1>3 DEF RevokeDone, RotateOldDone, FlushDone, Leave, NoCache, TypeOK
<1> QED
  BY <1>1, <1>2, <1>3 DEF Persisted

LEMMA CacheMoves ==
  ASSUME TypeOK, NEW p \in Instances, StepOf(p), NEW k \in cache'[p].byId
  PROVE  \/ k \in cache[p].byId
         \/ /\ Installed(p) /\ snap[p] \in Registry /\ k \in Keys /\ snap[p][k] # Absent
            /\ cache'[p].heap[k] = snap[p][k]
         \/ Persisted(p) /\ WritesTruth(p) /\ Issuing(p) /\ k = req[p].new
<1>1. ASSUME Start(p) \/ Refresh(p) \/ Reload(p) \/ StartIssue(p) \/ SMGet(p)
      PROVE  cache'[p] = cache[p]
  BY <1>1 DEF Start, Refresh, Reload, StartIssue, SMGet, Load
<1>2. ASSUME Installed(p)
      PROVE  snap[p] \in Registry /\ k \in Keys /\ snap[p][k] # Absent /\ cache'[p].heap[k] = snap[p][k]
  BY <1>2 DEF Installed, Install, TypeOK
<1>3. ASSUME Shutdown(p) \/ TearLocal(p) \/ Crash(p)
      PROVE  cache'[p] = cache[p] \/ cache'[p].byId = {}
  BY <1>3 DEF Shutdown, TearLocal, Crash, Leave, NoCache, TypeOK
<1>4. ASSUME NEW x \in Keys, Authenticate(p, x)
      PROVE  cache'[p].byId = cache[p].byId
  <2>1. cache'[p] = [cache[p] EXCEPT !.heap[x].used = now]
    BY <1>4 DEF Authenticate, TypeOK
  <2> QED
    BY <2>1 DEF TypeOK, CacheType
<1>5. ASSUME NEW x \in Keys, StartRevoke(p, x)
      PROVE  cache'[p].byId \subseteq cache[p].byId
  BY <1>5 DEF StartRevoke, TypeOK, CacheType
<1>6. ASSUME NEW x \in Keys, StartRotate(p, x)
      PROVE  cache'[p] = cache[p]
  BY <1>6 DEF StartRotate
<1>7. ASSUME SMPut(p) \/ SMFails(p) \/ SMAckLost(p) \/ LocalPut(p) \/ LocalFails(p)
      PROVE  Aborted(p) \/ (Persisted(p) /\ WritesTruth(p))
  BY <1>7 DEF SMPut, SMFails, SMAckLost, LocalPut, LocalFails, WritesTruth
<1>8. ASSUME Aborted(p) PROVE cache'[p] = cache[p] \/ cache'[p].byId = {}
  BY <1>8 DEF Aborted, Leave, NoCache, TypeOK
<1> QED
  BY <1>1, <1>2, <1>3, <1>4, <1>5, <1>6, <1>7, <1>8, PersistedCache DEF StepOf

(* What a process reads is current, or the empty list of a failed load. *)
LEMMA SnapMoves ==
  ASSUME TypeOK, NEW p \in Instances, StepOf(p)
  PROVE  \/ snap'[p] \in {snap[p], NoDoc}
         \/ /\ pc'[p] \in Loads /\ readAt'[p] = now /\ now' = now
            /\ snap'[p] \in Registry /\ \A k \in Keys : snap'[p][k] \in {Truth[k], Absent}
         \/ SMGet(p) /\ snap'[p] = secret /\ secret \in Registry /\ secret = Truth
<1>1. ASSUME Start(p) \/ Refresh(p) \/ Reload(p)
      PROVE  /\ pc'[p] \in Loads /\ readAt'[p] = now /\ now' = now
             /\ snap'[p] \in Registry /\ \A k \in Keys : snap'[p][k] \in {Truth[k], Absent}
  <2>1. PICK why \in Loads : Load(p, why)
    BY <1>1 DEF Start, Refresh, Reload, Loads
  <2>2. PICK o \in GetResults : snap' = [snap EXCEPT ![p] = Loaded(o)]
    BY <2>1 DEF Load
  <2>3. snap'[p] = Loaded(o)
    BY <2>2 DEF TypeOK
  <2> QED
    BY <2>1, <2>3, LoadedType DEF Load, TypeOK
<1>2. ASSUME Installed(p) \/ StartIssue(p) \/ Shutdown(p) \/ TearLocal(p) \/ Crash(p)
      PROVE  snap'[p] \in {snap[p], NoDoc}
  BY <1>2 DEF Installed, StartIssue, Shutdown, TearLocal, Crash, Leave, TypeOK
<1>3. ASSUME SMGet(p)
      PROVE  SMGet(p) /\ snap'[p] = secret /\ secret \in Registry /\ secret = Truth
  BY <1>3 DEF SMGet, GetResults, TypeOK, Truth
<1>4. ASSUME NEW x \in Keys, Authenticate(p, x) \/ StartRevoke(p, x)
      PROVE  snap'[p] = snap[p]
  BY <1>4 DEF Authenticate, StartRevoke
<1>5. ASSUME NEW x \in Keys, StartRotate(p, x)
      PROVE  snap'[p] = snap[p]
  BY <1>5 DEF StartRotate
<1>6. ASSUME SMPut(p) \/ SMFails(p) \/ SMAckLost(p) \/ LocalPut(p) \/ LocalFails(p)
      PROVE  snap'[p] = NoDoc
  BY <1>6, EndMoves DEF SMPut, SMFails, SMAckLost, LocalPut, LocalFails
<1> QED
  BY <1>1, <1>2, <1>3, <1>4, <1>5, <1>6 DEF StepOf

(* What the answers say. *)
LEMMA ToldPersisted ==
  ASSUME TypeOK, NEW p \in Instances, Persisted(p), NEW k \in Keys
  PROVE  \/ told'[k] = told[k]
         \/ /\ pc[p] \in {"issue", "rotateOld"} /\ k = req[p].new
            /\ told[k] = "none" /\ told'[k] = "issued"
         \/ pc[p] = "revoke" /\ k = req[p].old /\ told'[k] = "revoked"
  BY DEF Persisted, IssueDone, RevokeDone, RotateNewDone, RotateOldDone, FlushDone,
         ledger, TypeOK

LEMMA ToldMoves ==
  ASSUME TypeOK, NEW p \in Instances, StepOf(p), NEW k \in Keys
  PROVE  \/ told'[k] = told[k]
         \/ told'[k] = "revoking" /\ told[k] # "revoked" /\ k \in cache[p].byId
         \/ /\ WritesTruth(p) /\ pc[p] \in {"issue", "rotateOld"} /\ k = req[p].new
            /\ told[k] = "none" /\ told'[k] = "issued"
         \/ WritesTruth(p) /\ RevokeDone(p) /\ k = req[p].old /\ told'[k] = "revoked"
<1>1. ASSUME \/ Start(p) \/ Refresh(p) \/ Reload(p) \/ Installed(p) \/ StartIssue(p)
             \/ Shutdown(p) \/ SMGet(p) \/ TearLocal(p) \/ Crash(p)
      PROVE  UNCHANGED told
  BY <1>1 DEF Start, Refresh, Reload, Load, Installed, StartIssue, Shutdown, SMGet, TearLocal,
              Crash, ledger
<1>2. ASSUME NEW x \in Keys, Authenticate(p, x)
      PROVE  UNCHANGED told
  BY <1>2 DEF Authenticate, ledger
<1>3. ASSUME NEW x \in Keys, StartRevoke(p, x)
      PROVE  \/ told'[k] = told[k]
             \/ told'[k] = "revoking" /\ told[k] # "revoked" /\ k \in cache[p].byId
  BY <1>3 DEF StartRevoke, TypeOK
<1>4. ASSUME NEW x \in Keys, StartRotate(p, x)
      PROVE  UNCHANGED told
  BY <1>4 DEF StartRotate
<1>5. ASSUME SMFails(p) \/ LocalFails(p) \/ SMAckLost(p)
      PROVE  UNCHANGED told
  BY <1>5 DEF SMFails, LocalFails, SMAckLost, Aborted, ledger
<1>6. ASSUME SMPut(p) \/ LocalPut(p)
      PROVE  Persisted(p) /\ WritesTruth(p)
  BY <1>6 DEF SMPut, LocalPut, WritesTruth
<1>7. ASSUME Persisted(p), pc[p] = "revoke" PROVE RevokeDone(p)
  BY <1>7 DEF Persisted, IssueDone, RotateNewDone, RotateOldDone, FlushDone
<1> QED
  BY <1>1, <1>2, <1>3, <1>4, <1>5, <1>6, <1>7, ToldPersisted DEF StepOf

(* Nobody takes a revocation back. *)
LEMMA ToldMonotone ==
  ASSUME TypeOK, [Next]_vars, NEW k \in Keys
  PROVE  /\ told[k] \in Withdrawn => told'[k] \in Withdrawn
         /\ told[k] = "revoked" => told'[k] = "revoked"
<1>1. CASE Tick \/ UNCHANGED vars
  BY <1>1 DEF Tick, vars, ledger
<1>2. ASSUME NEW p \in Instances, StepOf(p)
      PROVE  /\ told[k] \in Withdrawn => told'[k] \in Withdrawn
             /\ told[k] = "revoked" => told'[k] = "revoked"
  BY <1>2, ToldMoves DEF Withdrawn
<1> QED
  BY <1>1, <1>2, NextIsOfOne

-----------------------------------------------------------------------------
(* Identities on their way in *)

LEMMA PendingStep ==
  ASSUME TypeOK, DrawnOnce, NEW p \in Instances, StepOf(p)
  PROVE  \/ \A k \in Keys : Pending(k)' <=> Pending(k)
         \/ /\ ~Issuing(p)'
            /\ \A k \in Keys : Pending(k)' <=> Pending(k) /\ ~(Issuing(p) /\ k = req[p].new)
<1>1. OthersKept(p)
  BY OnlyOneMoves
<1>2. \A q \in Instances : q # p => (Issuing(q)' <=> Issuing(q)) /\ req'[q] = req[q]
  BY <1>1 DEF OthersKept, Issuing
<1>3. \A k \in Keys : Pending(k) <=> k \notin minted \/ \E q \in Instances : Issuing(q) /\ req[q].new = k
  BY DEF Pending, Issuing
<1>4. \A k \in Keys : Pending(k)' <=> k \notin minted' \/ \E q \in Instances : Issuing(q)' /\ req'[q].new = k
  BY DEF Pending, Issuing
<1>5. CASE Issuing(p)' /\ Issuing(p) /\ req'[p] = req[p] /\ minted' = minted
  BY <1>2, <1>3, <1>4, <1>5
<1>6. CASE /\ Issuing(p)' /\ ~Issuing(p) /\ req'[p].new \in Keys \ minted
           /\ minted' = minted \cup {req'[p].new}
  BY <1>2, <1>3, <1>4, <1>6
<1>7. CASE ~Issuing(p)' /\ minted' = minted
  BY <1>2, <1>3, <1>4, <1>7 DEF DrawnOnce
<1> QED
  BY <1>5, <1>6, <1>7, MintedMoves

LEMMA DrawnStep ==
  ASSUME TypeOK, DrawnOnce, NEW p \in Instances, StepOf(p)
  PROVE  DrawnOnce'
<1>1. \A q \in Instances : q # p => (Issuing(q)' <=> Issuing(q)) /\ req'[q] = req[q]
  BY OnlyOneMoves DEF OthersKept, Issuing
<1> QED
  BY <1>1, MintedMoves DEF DrawnOnce

LEMMA SettledStep ==
  ASSUME TypeOK, FreshKeys, NEW p \in Instances, StepOf(p)
  PROVE  Settled'
<1>1. \A k \in Keys : Pending(k)' => Pending(k)
  BY PendingStep DEF FreshKeys
<1>2. \A q \in Instances : q # p => pc'[q] = pc[q] /\ req'[q] = req[q]
  BY OnlyOneMoves DEF OthersKept
<1>3. ASSUME NEW q \in Instances, q # p
      PROVE  /\ pc'[q] = "revoke" => ~Pending(req[q].old)'
             /\ pc'[q] = "rotateOld" => ~Pending(req[q].new)'
  <2>1. pc'[q] = pc[q] /\ req'[q] = req[q]
    BY <1>2, <1>3
  <2> PICK o, n : o = req[q].old /\ n = req[q].new
    OBVIOUS
  <2>2. pc[q] = "revoke" => ~Pending(o) /\ o \in Keys
    BY DEF FreshKeys, Settled, TypeOK
  <2>3. pc[q] = "rotateOld" => ~Pending(n) /\ n \in Keys
    BY DEF FreshKeys, Settled, TypeOK
  <2>4. pc[q] = "revoke" => ~Pending(o)'
    BY <1>1, <2>2
  <2>5. pc[q] = "rotateOld" => ~Pending(n)'
    BY <1>1, <2>3
  <2>6. o = req'[q].old /\ n = req'[q].new
    BY <2>1
  <2> QED
    BY <2>1, <2>4, <2>5, <2>6 DEF Pending
<1>4. pc'[p] = "revoke" => ~Pending(req[p].old)'
  <2> PICK o : o = req'[p].old
    OBVIOUS
  <2>1. pc'[p] = "revoke" => o \in Keys /\ ~Pending(o)
    BY PcMoves DEF FreshKeys, Settled, Unwritten, TypeOK, CacheType
  <2>2. pc'[p] = "revoke" => ~Pending(o)'
    BY <1>1, <2>1
  <2> QED
    BY <2>2 DEF Pending
<1>5. pc'[p] = "rotateOld" => ~Pending(req[p].new)'
  <2> SUFFICES ASSUME pc'[p] = "rotateOld" PROVE ~Pending(req[p].new)'
    OBVIOUS
  <2> PICK n : n = req'[p].new
    OBVIOUS
  <2>1. CASE pc[p] = "rotateOld" /\ req'[p] = req[p]
    <3>1. n \in Keys /\ ~Pending(n)
      BY <2>1 DEF FreshKeys, Settled, TypeOK
    <3>2. ~Pending(n)'
      BY <1>1, <3>1
    <3> QED
      BY <3>2 DEF Pending
  <2>2. CASE RotateNewDone(p) /\ req'[p] = req[p]
    <3>1. n \in Keys /\ Issuing(p) /\ n = req[p].new /\ n \in minted
      BY <2>2 DEF RotateNewDone, TypeOK, Issuing, FreshKeys, DrawnOnce
    <3>2. minted' = minted /\ ~Issuing(p)'
      BY <2>2, EndMoves DEF Persisted
    <3>3. \A q \in Instances : q # p => ~(Issuing(q)' /\ req'[q].new = n)
      BY <1>2, <3>1 DEF FreshKeys, DrawnOnce, Issuing
    <3> QED
      BY <3>1, <3>2, <3>3 DEF Pending, Issuing
  <2> QED
    BY <2>1, <2>2, PcMoves
<1> QED
  BY <1>3, <1>4, <1>5 DEF Settled

LEMMA UnwrittenStep ==
  ASSUME TypeOK, FreshKeys, NEW p \in Instances, StepOf(p)
  PROVE  Unwritten'
<1> SUFFICES ASSUME NEW k \in Keys, Pending(k)'
             PROVE  /\ Truth'[k] = Absent /\ told'[k] = "none"
                    /\ \A q \in Instances : k \notin cache'[q].byId
                                          /\ (snap'[q] # NoDoc => snap'[q][k] = Absent)
  BY DEF Unwritten
<1>1. /\ Pending(k)
      /\ (Persisted(p) \/ Aborted(p)) => ~(Issuing(p) /\ k = req[p].new)
  <2>1. CASE \A x \in Keys : Pending(x)' <=> Pending(x)
    <3>1. ASSUME Persisted(p) \/ Aborted(p), Issuing(p), k = req[p].new
          PROVE  FALSE
      <4>1. k \in minted /\ minted' = minted /\ ~Issuing(p)'
        BY <3>1, EndMoves DEF FreshKeys, DrawnOnce
      <4>2. \A q \in Instances : q # p => ~(Issuing(q)' /\ req'[q].new = k)
        BY <3>1, OnlyOneMoves DEF OthersKept, FreshKeys, DrawnOnce, Issuing
      <4> QED
        BY <4>1, <4>2 DEF Pending, Issuing
    <3> QED
      BY <2>1, <3>1
  <2>2. CASE \A x \in Keys : Pending(x)' <=> Pending(x) /\ ~(Issuing(p) /\ x = req[p].new)
    BY <2>2
  <2> QED
    BY <2>1, <2>2, PendingStep DEF FreshKeys
<1>2. /\ Truth[k] = Absent /\ told[k] = "none"
      /\ \A q \in Instances : k \notin cache[q].byId /\ (snap[q] # NoDoc => snap[q][k] = Absent)
  BY <1>1 DEF FreshKeys, Unwritten
<1>3. \A q \in Instances : q # p => cache'[q] = cache[q] /\ snap'[q] = snap[q]
  BY OnlyOneMoves DEF OthersKept
<1>4. Truth'[k] = Absent
  <2>1. CASE ~WritesTruth(p)
    <3>1. UNCHANGED <<secret, local>>
      BY <2>1, StoresRest
    <3> QED
      BY <1>2, <3>1 DEF Truth
  <2>2. CASE WritesTruth(p)
    <3>1. /\ pc[p] \in Handlers /\ (Persisted(p) \/ Aborted(p))
      BY <2>2, TruthPut
    <3>2. PICK doc \in Registry : (doc = Truth \/ doc = snap[p]) /\ Truth' = Transform(p, doc)
      BY <2>2, TruthPut
    <3>3. doc[k] = Absent
      BY <1>2, <3>2
    <3>4. ~(Issuing(p) /\ k = req[p].new)
      BY <1>1, <3>1
    <3> QED
      BY <3>1, <3>2, <3>3, <3>4, TransformPresence
  <2> QED
    BY <2>1, <2>2
<1>5. told'[k] = "none"
  <2>1. ~(RevokeDone(p) /\ k = req[p].old)
    BY <1>1 DEF RevokeDone, FreshKeys, Settled
  <2>2. ASSUME WritesTruth(p), pc[p] \in {"issue", "rotateOld"}, k = req[p].new PROVE FALSE
    <3>1. Persisted(p) \/ Aborted(p)
      BY <2>2, TruthPut
    <3>2. pc[p] # "rotateOld"
      BY <1>1, <2>2 DEF FreshKeys, Settled
    <3> QED
      BY <1>1, <2>2, <3>1, <3>2 DEF Issuing
  <2> QED
    BY <1>2, <2>1, <2>2, ToldMoves
<1>6. k \notin cache'[p].byId
  BY <1>1, <1>2, CacheMoves DEF Installed, TypeOK
<1>7. snap'[p] # NoDoc => snap'[p][k] = Absent
  BY <1>2, SnapMoves
<1> QED
  BY <1>2, <1>3, <1>4, <1>5, <1>6, <1>7

LEMMA FreshStep ==
  ASSUME TypeOK, FreshKeys, [Next]_vars
  PROVE  FreshKeys'
<1>1. CASE Tick \/ UNCHANGED vars
  <2>1. UNCHANGED <<secret, local, procs, ledger>>
    BY <1>1 DEF Tick, vars, stores
  <2> QED
    BY <2>1 DEF procs, ledger, FreshKeys, DrawnOnce, Settled, Unwritten, Pending, Issuing, Truth
<1>2. ASSUME NEW p \in Instances, StepOf(p) PROVE FreshKeys'
  BY <1>2, DrawnStep, SettledStep, UnwrittenStep DEF FreshKeys
<1> QED
  BY <1>1, <1>2, NextIsOfOne

-----------------------------------------------------------------------------
(* The source of truth keeps what was promised, races apart *)

(* One write changes the presence of the key it is about, and of no other   *)
(* that it does not mark.                                                   *)
LEMMA WritePresence ==
  ASSUME TypeOK, NEW p \in Instances, WritesTruth(p), NEW k \in Keys \ overwritten'
  PROVE  /\ Issuing(p) /\ k = req[p].new => Truth'[k] # Absent
         /\ pc[p] = "revoke" /\ k = req[p].old => Truth'[k] = Absent
         /\ ~(Issuing(p) /\ k = req[p].new) /\ ~(pc[p] = "revoke" /\ k = req[p].old)
              => (Truth'[k] = Absent <=> Truth[k] = Absent)
<1>1. pc[p] \in Handlers /\ Truth'[k] = Transform(p, Truth)[k]
  BY TruthPut
<1> QED
  BY <1>1, TruthType, TransformPresence

LEMMA RevokedStep ==
  ASSUME TypeOK, FreshKeys, OnlyRacesUndo, NEW p \in Instances, StepOf(p),
         NEW k \in Keys \ overwritten', told'[k] = "revoked"
  PROVE  Truth'[k] = Absent
<1>1. k \notin overwritten
  BY MarksStay, NextIsOfOne
<1>2. CASE ~WritesTruth(p)
  <2>1. told[k] = "revoked" /\ UNCHANGED <<secret, local>>
    BY <1>2, ToldMoves, StoresRest
  <2> QED
    BY <1>1, <2>1 DEF OnlyRacesUndo, Truth
<1>3. CASE WritesTruth(p)
  <2>1. told[k] = "revoked" \/ (pc[p] = "revoke" /\ k = req[p].old)
    BY <1>3, ToldMoves DEF RevokeDone
  <2>2. told[k] = "revoked" => ~(Issuing(p) /\ k = req[p].new)
    BY DEF FreshKeys, Unwritten, Pending, Issuing
  <2> QED
    BY <1>1, <1>3, <2>1, <2>2, WritePresence DEF OnlyRacesUndo, Issuing
<1> QED
  BY <1>2, <1>3

(* A key that is stored and that nobody revokes stays stored. *)
LEMMA StaysStored ==
  ASSUME TypeOK, Prepared, NEW p \in Instances, StepOf(p), NEW k \in Keys,
         k \in overwritten \/ told[k] \in Withdrawn \/ Truth[k] # Absent
  PROVE  k \in overwritten' \/ told'[k] \in Withdrawn \/ Truth'[k] # Absent
<1>1. k \in overwritten => k \in overwritten'
  BY MarksStay, NextIsOfOne
<1>2. told[k] \in Withdrawn => told'[k] \in Withdrawn
  BY ToldMonotone, NextIsOfOne
<1>3. CASE Truth[k] # Absent /\ ~WritesTruth(p)
  <2>1. UNCHANGED <<secret, local>>
    BY <1>3, StoresRest
  <2> QED
    BY <1>3, <2>1 DEF Truth
<1>4. CASE Truth[k] # Absent /\ WritesTruth(p) /\ told[k] \notin Withdrawn /\ k \notin overwritten'
  <2>1. ~(pc[p] = "revoke" /\ k = req[p].old)
    BY <1>4 DEF Prepared, Withdrawn
  <2> QED
    BY <1>4, <2>1, WritePresence
<1> QED
  BY <1>1, <1>2, <1>3, <1>4

LEMMA PreparedStep ==
  ASSUME TypeOK, Prepared, NEW p \in Instances, StepOf(p)
  PROVE  Prepared'
<1>1. \A q \in Instances : q # p => pc'[q] = pc[q] /\ req'[q] = req[q]
  BY OnlyOneMoves DEF OthersKept
<1>2. ASSUME NEW q \in Instances, pc'[q] = "revoke"
      PROVE  told'[req'[q].old] \in Withdrawn
  <2>1. CASE pc[q] = "revoke" /\ req'[q] = req[q]
    <3>1. req[q].old \in Keys /\ told[req[q].old] \in Withdrawn
      BY <2>1 DEF Prepared, Withdrawn, TypeOK
    <3> QED
      BY <2>1, <3>1, ToldMonotone, NextIsOfOne
  <2>2. CASE q = p /\ told'[req'[p].old] \in Withdrawn
    BY <2>2
  <2> QED
    BY <1>1, <1>2, <2>1, <2>2, PcMoves
<1>3. ASSUME NEW q \in Instances, pc'[q] = "rotateOld"
      PROVE  \/ req'[q].new \in overwritten' \/ told'[req'[q].new] \in Withdrawn
             \/ Truth'[req'[q].new] # Absent
  <2>1. CASE pc[q] = "rotateOld" /\ req'[q] = req[q]
    <3>1. req[q].new \in Keys
      BY <2>1 DEF TypeOK
    <3>2. \/ req[q].new \in overwritten \/ told[req[q].new] \in Withdrawn
          \/ Truth[req[q].new] # Absent
      BY <2>1 DEF Prepared, Withdrawn
    <3> QED
      BY <2>1, <3>1, <3>2, StaysStored
  <2>2. CASE q = p /\ WritesTruth(p) /\ RotateNewDone(p) /\ req'[p] = req[p]
    <3>1. req[p].new \in Keys /\ Issuing(p)
      BY <2>2 DEF RotateNewDone, TypeOK, Issuing
    <3> QED
      BY <2>2, <3>1, WritePresence
  <2> QED
    BY <1>1, <1>3, <2>1, <2>2, PcMoves
<1> QED
  BY <1>2, <1>3 DEF Prepared, Withdrawn

LEMMA IssuedStep ==
  ASSUME TypeOK, Prepared, OnlyRacesUndo, NEW p \in Instances, StepOf(p),
         NEW k \in Keys \ overwritten', told'[k] = "issued"
  PROVE  Truth'[k] # Absent
<1>1. k \notin overwritten
  BY MarksStay, NextIsOfOne
<1>2. CASE told[k] = "issued"
  BY <1>1, <1>2, StaysStored DEF OnlyRacesUndo, Withdrawn
<1>3. CASE told[k] # "issued"
  <2>1. /\ WritesTruth(p) /\ pc[p] \in {"issue", "rotateOld"} /\ k = req[p].new
        /\ told[k] = "none"
    BY <1>3, ToldMoves
  <2>2. CASE pc[p] = "issue"
    BY <2>1, <2>2, WritePresence DEF Issuing
  <2>3. CASE pc[p] = "rotateOld"
    BY <1>1, <2>1, <2>3, StaysStored DEF Prepared, Withdrawn
  <2> QED
    BY <2>1, <2>2, <2>3
<1> QED
  BY <1>2, <1>3

LEMMA StoreStep ==
  ASSUME TypeOK, StoreInv, [Next]_vars
  PROVE  StoreInv'
<1>1. FreshKeys'
  BY FreshStep DEF StoreInv
<1>2. CASE Tick \/ UNCHANGED vars
  <2>1. UNCHANGED <<secret, local, overwritten, pc, req, told>>
    BY <1>2 DEF Tick, vars, stores, procs, ledger
  <2> QED
    BY <1>1, <2>1 DEF StoreInv, Prepared, OnlyRacesUndo, Truth
<1>3. ASSUME NEW p \in Instances, StepOf(p) PROVE StoreInv'
  <2>1. OnlyRacesUndo'
    BY <1>3, RevokedStep, IssuedStep DEF StoreInv, OnlyRacesUndo
  <2> QED
    BY <1>1, <1>3, <2>1, PreparedStep DEF StoreInv
<1> QED
  BY <1>2, <1>3, NextIsOfOne

LEMMA StoreInit == Init => StoreInv
<1> SUFFICES ASSUME Init PROVE StoreInv
  OBVIOUS
<1>1. \A k \in Keys : Truth[k] = Absent
  BY DEF Init, Deployed, Truth, Empty
<1> QED
  BY <1>1 DEF Init, StoreInv, FreshKeys, DrawnOnce, Settled, Unwritten, Prepared,
         OnlyRacesUndo, Issuing, NoCache

(* The inductive invariant of the store. *)
THEOREM StoreInvariant == Spec => [](TypeOK /\ StoreInv)
<1>1. Init => TypeOK /\ StoreInv
  BY TypeInit, StoreInit
<1>2. TypeOK /\ StoreInv /\ [Next]_vars => (TypeOK /\ StoreInv)'
  BY TypeStep, StoreStep
<1> QED
  BY <1>1, <1>2, PTL DEF Spec

(* However many processes share the secret, and whatever fails, a key goes  *)
(* missing or comes back only by a put over a document that another put     *)
(* had outdated: _persist_update, refreshes, restarts and flushes undo      *)
(* nothing by themselves.                                                   *)
THEOREM OnlyLostUpdatesUndo == Spec => []OnlyRacesUndo
<1>1. TypeOK /\ StoreInv => OnlyRacesUndo
  BY DEF StoreInv
<1> QED
  BY <1>1, StoreInvariant, PTL

-----------------------------------------------------------------------------
(* A lone process writes back what it read *)

LEMMA SnapInit == Init => SnapCurrent
  BY DEF Init, SnapCurrent

LEMMA SnapStep ==
  ASSUME OneProcess, TypeOK, SnapCurrent, [Next]_vars
  PROVE  SnapCurrent'
<1>1. CASE Tick \/ UNCHANGED vars
  <2>1. UNCHANGED <<secret, local, overwritten, snap, pc>>
    BY <1>1 DEF Tick, vars, stores, procs
  <2> QED
    BY <2>1 DEF SnapCurrent, Truth
<1>2. ASSUME NEW p \in Instances, StepOf(p), WritesTruth(p) PROVE SnapCurrent'
  <2>1. pc[p] \in Handlers /\ (Persisted(p) \/ Aborted(p))
    BY <1>2, TruthPut
  <2>2. snap[p] = NoDoc \/ snap[p] = secret
    BY <2>1, PcKinds DEF SnapCurrent
  <2>3. overwritten' = overwritten /\ snap'[p] = NoDoc
    BY <1>2, <2>1, <2>2, TruthPut, EndMoves
  <2> QED
    BY <2>3 DEF SnapCurrent, OneProcess
<1>3. ASSUME NEW p \in Instances, StepOf(p), ~WritesTruth(p) PROVE SnapCurrent'
  <2>1. UNCHANGED <<secret, local, overwritten, now>>
    BY <1>3, StoresRest
  <2>2. Truth' = Truth
    BY <2>1 DEF Truth
  <2>3. snap'[p] # NoDoc =>
          IF pc'[p] \in Loads THEN \A k \in Keys : snap'[p][k] \in {Truth[k], Absent}
                              ELSE snap'[p] = secret
    <3>1. CASE snap'[p] = NoDoc
      BY <3>1
    <3>2. CASE /\ pc'[p] \in Loads
               /\ \A k \in Keys : snap'[p][k] \in {Truth[k], Absent}
      BY <3>2
    <3>3. CASE SMGet(p) /\ snap'[p] = secret
      BY <3>3, PcKinds DEF SMGet, Reading, TypeOK
    <3>4. CASE snap'[p] = snap[p] /\ snap[p] # NoDoc
      <4>1. pc'[p] = pc[p]
        <5>1. ASSUME Start(p) \/ Refresh(p) \/ Reload(p) \/ Installed(p) \/ StartIssue(p)
                     \/ Shutdown(p) \/ TearLocal(p) \/ Crash(p)
              PROVE  FALSE
          BY <3>4, <5>1, PcKinds DEF Start, Refresh, Reload, Ready, Installed, StartIssue,
             Shutdown, TearLocal, Crash, Leave, TypeOK
        <5>2. ASSUME NEW k \in Keys, Authenticate(p, k) \/ StartRevoke(p, k) PROVE FALSE
          BY <3>4, <5>2 DEF Authenticate, LetsIn, StartRevoke, Ready, TypeOK
        <5>3. ASSUME NEW k \in Keys, StartRotate(p, k) PROVE FALSE
          BY <3>4, <5>3 DEF StartRotate, Ready, TypeOK
        <5>4. ASSUME SMGet(p) PROVE pc'[p] = pc[p]
          BY <5>4 DEF SMGet
        <5>5. ASSUME SMFails(p) \/ LocalFails(p) PROVE FALSE
          BY <3>4, <5>5, EndMoves DEF SMFails, LocalFails
        <5> QED
          BY <1>3, <5>1, <5>2, <5>3, <5>4, <5>5 DEF StepOf, WritesTruth
      <4> QED
        BY <3>4, <4>1 DEF SnapCurrent
    <3> QED
      BY <1>3, <3>1, <3>2, <3>3, <3>4, SnapMoves
  <2> QED
    BY <2>1, <2>2, <2>3 DEF SnapCurrent, OneProcess
<1> QED
  BY <1>1, <1>2, <1>3, NextIsOfOne

(* With one process no update is lost. *)
LEMMA LoneSnap ==
  ASSUME OneProcess
  PROVE  Spec => [](TypeOK /\ StoreInv /\ SnapCurrent)
<1>1. TypeOK /\ SnapCurrent /\ [Next]_vars => SnapCurrent'
  BY SnapStep
<1> QED
  BY <1>1, SnapInit, StoreInvariant, PTL DEF Spec

(* A key that was handed out stays in the source of truth until somebody    *)
(* asks for its revocation, through the crashes and the failed or lost      *)
(* writes of a lone process.                                                *)
THEOREM StoreSafe ==
  ASSUME OneProcess
  PROVE  Spec => []DurableKeys
<1>1. TypeOK /\ StoreInv /\ SnapCurrent => DurableKeys
  BY DEF StoreInv, OnlyRacesUndo, SnapCurrent, DurableKeys
<1> QED
  BY <1>1, LoneSnap, PTL

(* A key whose revocation was confirmed never comes back to the source of   *)
(* truth, whatever a lone process flushes, rotates, retries or loses later. *)
THEOREM RevokedNeverReturns ==
  ASSUME OneProcess
  PROVE  Spec => []RevokedGone
<1>1. TypeOK /\ StoreInv /\ SnapCurrent => RevokedGone
  BY DEF StoreInv, OnlyRacesUndo, SnapCurrent, RevokedGone
<1> QED
  BY <1>1, LoneSnap, PTL

-----------------------------------------------------------------------------
(* KeyStore implements KeyRegistry: every step of the processes, of their   *)
(* reads and writes of whole documents, and of their failures is one step   *)
(* of the registry, or leaves it as it is.                                  *)

LEMMA ViewAt ==
  ASSUME NEW k \in Keys
  PROVE  /\ Truth[k] # Absent => RegistryView[k] = Truth[k]
         /\ Truth[k] = Absent /\ Pending(k) => RegistryView[k] = Unborn
         /\ Truth[k] = Absent /\ ~Pending(k) => RegistryView[k] = Gone
  BY DEF RegistryView

LEMMA ViewAtNext ==
  ASSUME NEW k \in Keys
  PROVE  /\ Truth'[k] # Absent => RegistryView'[k] = Truth'[k]
         /\ Truth'[k] = Absent /\ Pending(k)' => RegistryView'[k] = Unborn
         /\ Truth'[k] = Absent /\ ~Pending(k)' => RegistryView'[k] = Gone
  BY DEF RegistryView

(* The view is a function on the keys, before and after. *)
LEMMA ViewIsFunction ==
  /\ RegistryView = [k \in Keys |-> RegistryView[k]]
  /\ RegistryView' = [k \in Keys |-> RegistryView'[k]]
  BY DEF RegistryView

LEMMA SameView ==
  ASSUME \A k \in Keys : RegistryView'[k] = RegistryView[k]
  PROVE  RegistryView' = RegistryView
  BY ViewIsFunction

LEMMA OneChange ==
  ASSUME NEW x \in Keys, \A k \in Keys : k # x => RegistryView'[k] = RegistryView[k]
  PROVE  RegistryView' = [RegistryView EXCEPT ![x] = RegistryView'[x]]
  BY ViewIsFunction

-----------------------------------------------------------------------------
(* Steps that do not write *)

LEMMA QuietViewStep ==
  ASSUME TypeOK, StoreInv, [Next]_vars, \A p \in Instances : ~WritesTruth(p)
  PROVE  [Promise!Next]_RegistryView
<1>1. Truth' = Truth
  BY TruthKept
<1>2. DrawnOnce
  BY DEF StoreInv, FreshKeys
<1>0. Tick \/ UNCHANGED vars => \A k \in Keys : Pending(k)' <=> Pending(k)
  BY DEF Tick, vars, procs, ledger, Pending
<1>3. CASE \A k \in Keys : Pending(k)' <=> Pending(k)
  <2>1. \A k \in Keys : RegistryView'[k] = RegistryView[k]
    BY <1>1, <1>3, ViewAt, ViewAtNext
  <2> QED
    BY <2>1, SameView
<1>4. ASSUME NEW p \in Instances,
             \A k \in Keys : Pending(k)' <=> Pending(k) /\ ~(Issuing(p) /\ k = req[p].new)
      PROVE  [Promise!Next]_RegistryView
  <2>1. CASE Issuing(p)
    <3> PICK new \in Keys : new = req[p].new
      BY <2>1 DEF TypeOK, Issuing
    <3>1. Pending(new) /\ Truth[new] = Absent
      BY <2>1 DEF StoreInv, FreshKeys, Unwritten, Pending, Issuing, Truth
    <3>2. \A k \in Keys : k # new => RegistryView'[k] = RegistryView[k]
      BY <1>1, <1>4, ViewAt, ViewAtNext
    <3>3. RegistryView[new] = Unborn /\ RegistryView'[new] = Gone
      BY <1>1, <1>4, <2>1, <3>1, ViewAt, ViewAtNext
    <3>4. Promise!Abandon(new)
      BY <3>2, <3>3, OneChange DEF Promise!Abandon
    <3> QED
      BY <3>4 DEF Promise!Next
  <2>2. CASE ~Issuing(p)
    <3>1. \A k \in Keys : RegistryView'[k] = RegistryView[k]
      BY <1>1, <1>4, <2>2, ViewAt, ViewAtNext
    <3> QED
      BY <3>1, SameView
  <2> QED
    BY <2>1, <2>2
<1> QED
  BY <1>0, <1>2, <1>3, <1>4, PendingStep, NextIsOfOne

-----------------------------------------------------------------------------
(* Steps that write: one operation of the registry each *)

LEMMA WriteViewStep ==
  ASSUME TypeOK, StoreInv, SnapCurrent, NEW p \in Instances, WritesTruth(p)
  PROVE  [Promise!Next]_RegistryView
<1>1. /\ pc[p] \in Handlers
      /\ Truth' = Transform(p, Truth) /\ Truth \in Registry
  <2>1. pc[p] \in Handlers
    BY TruthPut
  <2>2. snap[p] = NoDoc \/ snap[p] = secret
    BY <2>1, PcKinds DEF SnapCurrent
  <2> QED
    BY <2>1, <2>2, TruthPut, TruthType
<1>2. \A k \in Keys : Pending(k)' <=> Pending(k) /\ ~(Issuing(p) /\ k = req[p].new)
  <2>1. ~Issuing(p)' /\ minted' = minted /\ StepOf(p)
    BY TruthPut, EndMoves, WriteIsStep
  <2>2. \A q \in Instances : q # p => (Issuing(q)' <=> Issuing(q)) /\ req'[q] = req[q]
    BY <2>1, OnlyOneMoves DEF OthersKept, Issuing
  <2>3. \A k \in Keys : Pending(k) <=> k \notin minted \/ \E q \in Instances : Issuing(q) /\ req[q].new = k
    BY DEF Pending, Issuing
  <2>4. \A k \in Keys : Pending(k)' <=> k \notin minted' \/ \E q \in Instances : Issuing(q)' /\ req'[q].new = k
    BY DEF Pending, Issuing
  <2> QED
    BY <2>1, <2>2, <2>3, <2>4 DEF StoreInv, FreshKeys, DrawnOnce
<1>3. CASE Issuing(p)
  <2> PICK new \in Keys : new = req[p].new
    BY <1>3 DEF TypeOK, Issuing
  <2> DEFINE e == [expires |-> IF pc[p] = "issue" THEN req[p].exp ELSE Never, used |-> Never]
  <2>1. e \in Entry /\ e.used = Never
    BY DEF TypeOK, ReqType, Entry, Time
  <2>2. e # Absent
    BY <2>1, EntryPresent
  <2>3. Truth' = [Truth EXCEPT ![new] = e]
    BY <1>1, <1>3 DEF Transform, WithEntry, Issuing
  <2> HIDE DEF e
  <2>4. Pending(new) /\ Truth[new] = Absent
    BY <1>3 DEF StoreInv, FreshKeys, Unwritten, Pending, Issuing, Truth
  <2>5. RegistryView[new] = Unborn /\ RegistryView'[new] = e
    BY <1>1, <2>2, <2>3, <2>4, ViewAt, ViewAtNext DEF Registry
  <2>6. \A k \in Keys : k # new => RegistryView'[k] = RegistryView[k]
    BY <1>1, <1>2, <2>3, ViewAt, ViewAtNext DEF Registry
  <2>7. Promise!Issue(new)
    BY <2>1, <2>5, <2>6, OneChange DEF Promise!Issue, Promise!Entry, Promise!Time, Entry, Time
  <2> QED
    BY <2>7 DEF Promise!Next
<1>4. CASE pc[p] = "revoke"
  <2> PICK old \in Keys : old = req[p].old
    BY <1>4 DEF TypeOK
  <2>1. Truth' = [Truth EXCEPT ![old] = Absent]
    BY <1>1, <1>4 DEF Transform, Without
  <2>2. ~Pending(old) /\ ~Issuing(p)
    BY <1>4 DEF StoreInv, FreshKeys, Settled, Issuing
  <2>3. \A k \in Keys : k # old => RegistryView'[k] = RegistryView[k]
    BY <1>1, <1>2, <2>1, <2>2, ViewAt, ViewAtNext DEF Registry
  <2>4. RegistryView'[old] = Gone
    BY <1>1, <1>2, <2>1, <2>2, ViewAtNext DEF Registry
  <2>5. CASE Truth[old] = Absent
    <3>1. RegistryView[old] = Gone
      BY <2>2, <2>5, ViewAt
    <3> QED
      BY <2>3, <2>4, <3>1, SameView
  <2>6. CASE Truth[old] # Absent
    <3>1. RegistryView[old] \in Entry
      BY <1>1, <2>6, ViewAt, EntryOf
    <3>2. Promise!Revoke(old)
      BY <2>3, <2>4, <3>1, OneChange DEF Promise!Revoke, Promise!Entry, Promise!Time, Entry, Time
    <3> QED
      BY <3>2 DEF Promise!Next
  <2> QED
    BY <2>5, <2>6
<1>5. CASE pc[p] = "rotateOld"
  <2> PICK old \in Keys : old = req[p].old
    BY <1>5 DEF TypeOK
  <2>1. ~Issuing(p) /\ req[p].exp \in Nat
    BY <1>5 DEF Issuing, TypeOK
  <2>2. Truth' = WithExpiry(p, Truth)
    BY <1>1, <1>5 DEF Transform
  <2>3. \A k \in Keys : k # old => RegistryView'[k] = RegistryView[k]
    BY <1>1, <1>2, <2>1, <2>2, ViewAt, ViewAtNext DEF WithExpiry
  <2>4. CASE Truth[old] = Absent
    <3>1. RegistryView'[old] = RegistryView[old]
      BY <1>2, <2>1, <2>2, <2>4, ViewAt, ViewAtNext DEF WithExpiry
    <3> QED
      BY <2>3, <3>1, SameView
  <2>5. CASE Truth[old] # Absent
    <3> DEFINE e == [Truth[old] EXCEPT !.expires = req[p].exp]
    <3>1. Truth[old] \in Entry
      BY <1>1, <2>5, EntryOf
    <3>2. e \in Entry /\ e.expires \in Nat
      BY <2>1, <3>1 DEF Entry, Time
    <3>3. Truth'[old] = e
      BY <2>2, <2>5 DEF WithExpiry
    <3>4. RegistryView[old] = Truth[old] /\ RegistryView'[old] = e
      BY <2>5, <3>2, <3>3, EntryPresent, ViewAt, ViewAtNext
    <3>5. RegistryView' = [RegistryView EXCEPT ![old] = e]
      BY <2>3, <3>4, OneChange
    <3>6. e = [RegistryView[old] EXCEPT !.expires = e.expires]
      BY <3>1, <3>4 DEF Entry
    <3>7. RegistryView' = [RegistryView EXCEPT ![old].expires = RegistryView'[old].expires]
      <4> HIDE DEF e
      <4> QED
        BY <3>4, <3>5, <3>6
    <3>8. Promise!SetExpiry(old)
      <4> HIDE DEF e
      <4> QED
        BY <3>1, <3>2, <3>4, <3>7
           DEF Promise!SetExpiry, Promise!Entry, Promise!Time, Entry, Time
    <3> QED
      BY <3>8 DEF Promise!Next
  <2> QED
    BY <2>4, <2>5
<1>6. CASE pc[p] = "flush"
  <2>1. ~Issuing(p) /\ Truth' = WithUse(p, Truth)
    BY <1>1, <1>6 DEF Transform, Issuing
  <2>2. ASSUME NEW k \in Keys
        PROVE  /\ RegistryView'[k] \in Entry \cup {Unborn, Gone}
               /\ \/ RegistryView'[k] = RegistryView[k]
                  \/ /\ RegistryView[k] \in Entry /\ RegistryView'[k] \in Entry
                     /\ RegistryView'[k].expires = RegistryView[k].expires
                     /\ RegistryView'[k].used \in Nat
    <3>1. CASE Truth[k] = Absent \/ k \notin UsedHere(p)
      <4>1. Truth'[k] = Truth[k]
        BY <2>1, <3>1 DEF WithUse
      <4>2. RegistryView'[k] = RegistryView[k]
        BY <1>2, <2>1, <4>1, ViewAt, ViewAtNext
      <4> QED
        BY <1>1, <4>2, ViewAt, EntryOf
    <3>2. CASE Truth[k] # Absent /\ k \in UsedHere(p)
      <4> DEFINE e == [Truth[k] EXCEPT !.used = cache[p].heap[k].used]
      <4>1. Truth[k] \in Entry
        BY <1>1, <3>2, EntryOf
      <4>2. cache[p].heap \in Registry /\ cache[p].heap[k] # Absent
        BY <3>2 DEF TypeOK, CacheType, SameIndexes, UsedHere
      <4>3. cache[p].heap[k].used \in Nat
        BY <3>2, <4>2, EntryOf DEF UsedHere, Entry, Time
      <4>4. e \in Entry /\ e.expires = Truth[k].expires /\ e.used \in Nat
        BY <4>1, <4>3 DEF Entry, Time
      <4>5. Truth'[k] = e
        BY <2>1, <3>2 DEF WithUse
      <4>6. RegistryView[k] = Truth[k] /\ RegistryView'[k] = e
        BY <3>2, <4>4, <4>5, EntryPresent, ViewAt, ViewAtNext
      <4> HIDE DEF e
      <4> QED
        BY <4>1, <4>4, <4>6
    <3> QED
      BY <3>1, <3>2
  <2>3. Promise!FlushUsed
    BY <2>2, ViewIsFunction
       DEF Promise!FlushUsed, Promise!Status, Promise!Entry, Promise!Time, Entry, Time
  <2> QED
    BY <2>3 DEF Promise!Next
<1> QED
  BY <1>1, <1>3, <1>4, <1>5, <1>6 DEF Handlers, Issuing

LEMMA ViewInit == Init => Promise!Init
<1> SUFFICES ASSUME Init PROVE Promise!Init
  OBVIOUS
<1>1. \A k \in Keys : Truth[k] = Absent /\ Pending(k)
  BY DEF Init, Deployed, Truth, Empty, Pending
<1>2. \A k \in Keys : RegistryView[k] = Unborn
  BY <1>1, ViewAt
<1> QED
  BY <1>2, ViewIsFunction DEF Promise!Init

(* Every behaviour of a lone process, whatever fails, is a behaviour of the *)
(* registry: no update is lost and no key lives twice.                      *)
THEOREM StoreImplementsRegistry ==
  ASSUME OneProcess
  PROVE  Spec => OneLifePerKey
<1>1. TypeOK /\ StoreInv /\ SnapCurrent /\ [Next]_vars => [Promise!Next]_RegistryView
  BY QuietViewStep, WriteViewStep
<1>2. Spec => [](TypeOK /\ StoreInv /\ SnapCurrent)
  BY LoneSnap
<1> QED
  BY <1>1, <1>2, ViewInit, PTL DEF Spec, OneLifePerKey, Promise!Spec
=============================================================================
