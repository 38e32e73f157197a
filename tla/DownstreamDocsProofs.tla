------------------------ MODULE DownstreamDocsProofs ------------------------
(* Proofs about DownstreamDocs: for any builds, times and contents of what  *)
(* the services publish, nothing stale is merged and errors pass; and what  *)
(* the two documents show, hide, block and refer to.                        *)
EXTENDS DownstreamDocs, SequenceTheorems, WellFoundedInduction, TLAPS

USE TimesOK, OrderOK

-----------------------------------------------------------------------------
(* Induction, stated with sets                                              *)

(* What holds of a number, and of the successor of what it holds of as far  *)
(* as m, holds of m: else there is a least one of which it does not.        *)
LEMMA UpTo ==
  ASSUME NEW at \in Nat, NEW m \in Nat, at <= m, NEW S, at \in S,
         \A n \in Nat : at <= n /\ n < m /\ n \in S => n + 1 \in S
  PROVE  m \in S
<1> DEFINE less == {ss \in Nat \X Nat : ss[1] < ss[2]}
           Out == {n \in Nat : at <= n /\ n <= m /\ n \notin S}
<1> SUFFICES ASSUME m \notin S PROVE FALSE
  OBVIOUS
<1>1. IsWellFoundedOn(less, Nat)
  BY NatLessThanWellFounded DEF OpToRel
<1>2. Out \subseteq Nat /\ Out # {}
  OBVIOUS
<1>3. PICK x \in Out : \A y \in Out : ~(<<y, x>> \in less)
  <2> HIDE DEF less, Out
  <2> QED
    BY <1>1, <1>2, WFMin
<1>4. x \in Nat /\ at < x /\ x <= m /\ x - 1 \in Nat
  BY <1>3
<1>5. x - 1 \notin Out
  <2>1. <<x - 1, x>> \in less
    BY <1>4
  <2> HIDE DEF less, Out
  <2> QED
    BY <1>3, <2>1
<1> QED
  BY <1>3, <1>4, <1>5

-----------------------------------------------------------------------------
(* The walk over the services *)

LEMMA Ordered ==
  /\ Len(Order) \in Nat /\ DOMAIN Order = 1..Len(Order)
  /\ \A i \in 1..Len(Order) : Order[i] \in Services
  /\ Services \subseteq {"sync", "openstates", "broker"}
<1>1. Len(Order) \in Nat /\ DOMAIN Order = 1..Len(Order)
  BY LenProperties
<1>2. \A i \in 1..Len(Order) : Order[i] \in {"sync", "openstates", "broker"}
  BY ElementOfSeq
<1> QED
  BY <1>1, <1>2 DEF Services

(* Where a service is in the order. *)
LEMMA Placed ==
  ASSUME NEW s \in Services
  PROVE  Place(s) \in 0..Len(Order)
<1>1. \E i \in DOMAIN Order : Order[i] = s
  BY DEF Services
<1>2. Place(s) \in DOMAIN Order
  BY <1>1 DEF Place
<1> QED
  BY <1>2, Ordered

Beginning(d, a) == [stage |-> "done", doc |-> d, age |-> a]

(* The walk's recursion, as far as the k-th service.                        *)
Solves(w, at, d, a, c, k) ==
  w = [n \in at..k |-> IF n = at THEN Beginning(d, a) ELSE Pass(w[n - 1], Order[n], c)]

LEMMA Solvable ==
  ASSUME NEW at \in Nat, NEW m \in Nat, at <= m, NEW d, NEW a, NEW c
  PROVE  \E w : Solves(w, at, d, a, c, m)
<1> DEFINE S == {k \in Nat : \E w : Solves(w, at, d, a, c, k)}
<1>1. at \in S
  <2> DEFINE w == [n \in at..at |-> Beginning(d, a)]
  <2>1. Solves(w, at, d, a, c, at)
    BY DEF Solves
  <2> HIDE DEF w
  <2> QED
    BY <2>1
<1>2. ASSUME NEW k \in Nat, at <= k, k \in S
      PROVE  k + 1 \in S
  <2>1. PICK w : Solves(w, at, d, a, c, k)
    BY <1>2, Zenon
  <2> DEFINE g == [n \in at..k + 1 |-> IF n = k + 1 THEN Pass(w[k], Order[k + 1], c) ELSE w[n]]
  <2>2. ASSUME NEW n \in at..k + 1
        PROVE  g[n] = IF n = at THEN Beginning(d, a) ELSE Pass(g[n - 1], Order[n], c)
    <3>1. CASE n = k + 1
      <4>1. n # at /\ n - 1 = k /\ g[n - 1] = w[k] /\ g[n] = Pass(w[k], Order[k + 1], c)
        BY <1>2, <3>1
      <4> QED
        BY <3>1, <4>1
    <3>2. CASE n # k + 1
      <4>1. n \in at..k
        BY <3>2
      <4>2. w[n] = IF n = at THEN Beginning(d, a) ELSE Pass(w[n - 1], Order[n], c)
        BY <2>1, <4>1 DEF Solves
      <4>3. g[n] = w[n] /\ (n # at => g[n - 1] = w[n - 1])
        BY <3>2, <4>1
      <4> HIDE DEF g
      <4> QED
        BY <4>2, <4>3
    <3> QED
      BY <3>1, <3>2
  <2>3. g = [n \in at..k + 1 |-> g[n]]
    OBVIOUS
  <2>4. Solves(g, at, d, a, c, k + 1)
    <3> HIDE DEF g
    <3> QED
      BY <2>2, <2>3 DEF Solves
  <2> HIDE DEF g
  <2> QED
    BY <2>4
<1> HIDE DEF S
<1>3. m \in S
  BY <1>1, <1>2, UpTo
<1> QED
  BY <1>3 DEF S

(* The walk as the states it goes through. *)
Unfolds(w, at, d, a, c) ==
  /\ w[at] = Beginning(d, a)
  /\ \A n \in Nat : at <= n /\ n < Len(Order) => w[n + 1] = Pass(w[n], Order[n + 1], c)
  /\ Walk(at, d, a, c) = w[Len(Order)]

LEMMA WalkUnfolds ==
  ASSUME NEW at \in 0..Len(Order), NEW d, NEW a, NEW c
  PROVE  \E w : Unfolds(w, at, d, a, c)
<1> DEFINE m == Len(Order)
           w == CHOOSE w : Solves(w, at, d, a, c, m)
<1>1. m \in Nat /\ at \in Nat /\ at <= m
  BY Ordered
<1>2. Solves(w, at, d, a, c, m)
  <2>1. \E g : Solves(g, at, d, a, c, m)
    <3> HIDE DEF m
    <3> QED
      BY <1>1, Solvable
  <2> QED
    BY <2>1
<1>3. Walk(at, d, a, c) = w[m]
  BY DEF Walk, Solves, Beginning
<1> HIDE DEF w, m
<1>4. w[at] = Beginning(d, a)
  BY <1>1, <1>2 DEF Solves
<1>5. ASSUME NEW n \in Nat, at <= n, n < m
      PROVE  w[n + 1] = Pass(w[n], Order[n + 1], c)
  <2>1. n + 1 \in at..m /\ n + 1 # at /\ (n + 1) - 1 = n
    BY <1>1, <1>5
  <2> QED
    BY <1>2, <2>1 DEF Solves
<1> QED
  BY <1>3, <1>4, <1>5 DEF m, Unfolds

-----------------------------------------------------------------------------
(* Ages *)

(* Whatever has just been seen is as recent as can be, and nothing becomes  *)
(* less recent by it.                                                       *)
LEMMA SawIs ==
  ASSUME TypeOK, NEW s \in Services, NEW x, Saw(s, x)
  PROVE  /\ DOMAIN lastSeen' = Services
         /\ \A q \in Services : \A y \in DOMAIN lastSeen'[q] : lastSeen'[q][y] \in 0..now
         /\ x \in DOMAIN lastSeen'[s] /\ lastSeen'[s][x] = now
         /\ \A q \in Services : \A y \in DOMAIN lastSeen[q] :
              y \in DOMAIN lastSeen'[q] /\ lastSeen'[q][y] >= lastSeen[q][y]
<1> DEFINE new == [y \in DOMAIN lastSeen[s] \cup {x} |-> IF y = x THEN now ELSE lastSeen[s][y]]
<1>0. now \in Nat /\ DOMAIN lastSeen = Services
      /\ \A q \in Services : \A y \in DOMAIN lastSeen[q] : lastSeen[q][y] \in 0..now
  BY DEF TypeOK
<1>1. lastSeen' = [lastSeen EXCEPT ![s] = new]
  BY DEF Saw
<1>2. /\ DOMAIN new = DOMAIN lastSeen[s] \cup {x} /\ new[x] = now
      /\ \A y \in DOMAIN lastSeen[s] : new[y] = (IF y = x THEN now ELSE lastSeen[s][y])
  OBVIOUS
<1>3. DOMAIN lastSeen' = Services /\ lastSeen'[s] = new /\ \A q \in Services : q # s => lastSeen'[q] = lastSeen[q]
  <2> HIDE DEF new
  <2> QED
    BY <1>0, <1>1
<1> HIDE DEF new
<1>4. \A y \in DOMAIN new : new[y] \in 0..now
  BY <1>0, <1>2
<1>5. \A y \in DOMAIN lastSeen[s] : new[y] >= lastSeen[s][y]
  BY <1>0, <1>2
<1> QED
  BY <1>0, <1>2, <1>3, <1>4, <1>5

(* What was there at a time still is, or was, at that time or later. *)
LEMMA SinceKept ==
  ASSUME NEW s \in Services, NEW x, NEW time \in Nat, time <= now, now \in Nat, Since(s, x, time),
         \A y \in DOMAIN lastSeen[s] : lastSeen[s][y] \in Nat,
         \A y \in DOMAIN lastSeen[s] : y \in DOMAIN lastSeen'[s] /\ lastSeen'[s][y] \in Nat /\ lastSeen'[s][y] >= lastSeen[s][y],
         world'[s] = world[s] \/ (world[s] \in DOMAIN lastSeen'[s] /\ lastSeen'[s][world[s]] = now)
  PROVE  Since(s, x, time)'
<1>1. CASE world[s] = x
  BY <1>1 DEF Since
<1>2. CASE x \in DOMAIN lastSeen[s] /\ lastSeen[s][x] >= time
  <2>1. x \in DOMAIN lastSeen'[s] /\ lastSeen'[s][x] >= time
    BY <1>2
  <2> QED
    BY <2>1 DEF Since
<1> QED
  BY <1>1, <1>2 DEF Since

(* What was there at a time is no older than that. *)
LEMMA AgeBounded ==
  ASSUME TypeOK, NEW s \in Services, NEW x, NEW time \in 0..now, Since(s, x, time)
  PROVE  AgeOf(s, x) \in Nat /\ AgeOf(s, x) <= now - time
<1>1. now \in Nat /\ \A y \in DOMAIN lastSeen[s] : lastSeen[s][y] \in 0..now
  BY DEF TypeOK
<1> QED
  BY <1>1 DEF AgeOf, Since

(* The walk: no older than it began or than a fresh entry, and an error only*)
(* for a fresh entry that is garbled.                                       *)
WalkAged(w) ==
  /\ DOMAIN w = {"stage", "doc", "age"}
  /\ w.stage \in Services \cup {"done", "error"}
  /\ w.age \in Nat /\ w.age < TTL
  /\ w.stage = "error" => \E s \in Services : Fresh(cache, s) /\ cache[s].spec = Garbled

LEMMA PassAged ==
  ASSUME TypeOK, DatedRight, NEW w, WalkAged(w), NEW s \in Services
  PROVE  WalkAged(Pass(w, s, cache))
<1>1. CASE w.stage # "done"
  BY <1>1 DEF Pass
<1>2. CASE w.stage = "done" /\ ~Fresh(cache, s)
  <2>1. Pass(w, s, cache) = [w EXCEPT !.stage = s]
    BY <1>2 DEF Pass
  <2>2. s # "error"
    BY Ordered
  <2> QED
    BY <2>1, <2>2 DEF WalkAged
<1>3. CASE w.stage = "done" /\ Fresh(cache, s) /\ cache[s].spec = Garbled
  <2>1. Pass(w, s, cache) = [w EXCEPT !.stage = "error"]
    BY <1>3 DEF Pass
  <2> QED
    BY <1>3, <2>1 DEF WalkAged
<1>4. CASE w.stage = "done" /\ Fresh(cache, s) /\ cache[s].spec # Garbled
  <2> DEFINE a == AgeOf(s, cache[s].spec)
  <2>1. cache[s].at \in 0..now /\ Since(s, cache[s].spec, cache[s].at) /\ now - cache[s].at < TTL
    BY <1>4 DEF DatedRight, Fresh
  <2>2. a \in Nat /\ a <= now - cache[s].at
    BY <2>1, AgeBounded
  <2>3. a < TTL
    <3>1. now \in Nat
      BY DEF TypeOK
    <3> HIDE DEF a
    <3> QED
      BY <2>1, <2>2, <3>1
  <2> HIDE DEF a
  <2>4. Older(a, w.age) \in Nat /\ Older(a, w.age) < TTL
    BY <2>2, <2>3 DEF Older, WalkAged
  <2>5. Pass(w, s, cache) = [stage |-> "done", doc |-> Merge(s, cache[s].spec, w.doc), age |-> Older(a, w.age)]
    BY <1>4 DEF Pass, a
  <2> QED
    BY <2>4, <2>5 DEF WalkAged
<1> QED
  BY <1>1, <1>2, <1>3, <1>4

LEMMA WalkIsAged ==
  ASSUME TypeOK, DatedRight, NEW at \in 0..Len(Order), NEW d, NEW a \in Nat, a < TTL
  PROVE  WalkAged(Walk(at, d, a, cache))
<1>0. PICK w : Unfolds(w, at, d, a, cache)
  BY WalkUnfolds, Zenon
<1>1. /\ w[at] = Beginning(d, a)
      /\ \A n \in Nat : at <= n /\ n < Len(Order) => w[n + 1] = Pass(w[n], Order[n + 1], cache)
      /\ Walk(at, d, a, cache) = w[Len(Order)]
  BY <1>0 DEF Unfolds
<1> DEFINE S == {n \in Nat : WalkAged(w[n])}
<1>2. at \in S
  BY <1>1 DEF WalkAged, Beginning
<1>3. ASSUME NEW n \in Nat, at <= n, n < Len(Order), n \in S
      PROVE  n + 1 \in S
  <2>1. Order[n + 1] \in Services
    BY <1>3, Ordered
  <2>2. w[n + 1] = Pass(w[n], Order[n + 1], cache)
    BY <1>1, <1>3
  <2> QED
    BY <1>3, <2>1, <2>2, PassAged
<1>4. at \in Nat /\ Len(Order) \in Nat /\ at <= Len(Order)
  BY Ordered
<1>5. Len(Order) \in S
  <2> HIDE DEF S
  <2> QED
    BY <1>2, <1>3, <1>4, UpTo
<1> QED
  BY <1>1, <1>5
-----------------------------------------------------------------------------
(* The steps *)

AgesInv == TypeOK /\ DatedRight /\ NothingStale

(* A build that goes on: it ends, fails, or awaits a fetch that begins now. *)
LEMMA ContinueIs ==
  ASSUME AgesInv, NEW r \in Requests, NEW at \in 0..Len(Order), NEW d, NEW a \in Nat, a < TTL,
         Continue(r, at, d, a, cache)
  PROVE  /\ stage' \in [Requests -> Services \cup {"new", "admin", "done", "error"}]
         /\ DOMAIN fetch' = Requests /\ \A q \in Requests : DOMAIN fetch'[q] = {"started", "got"}
         /\ DOMAIN doc' = Requests /\ age' \in [Requests -> Nat] /\ \A q \in Requests : age'[q] < TTL
         /\ \A q \in Requests \ {r} : stage'[q] = stage[q] /\ fetch'[q] = fetch[q]
         /\ stage'[r] \in Services => fetch'[r].started = now /\ fetch'[r].got = Unread
         /\ stage'[r] = "error" => \E s \in Services : Fresh(cache, s) /\ cache[s].spec = Garbled
<1> DEFINE w == Walk(at, d, a, cache)
           begun == [started |-> IF w.stage \in Services THEN now ELSE 0, got |-> Unread]
<1>1. WalkAged(w)
  BY WalkIsAged DEF AgesInv
<1>2. /\ stage' = [stage EXCEPT ![r] = w.stage] /\ age' = [age EXCEPT ![r] = w.age]
      /\ fetch' = [fetch EXCEPT ![r] = begun]
      /\ doc' = [doc EXCEPT ![r] = IF w.stage = "done" THEN Marked(w.doc) ELSE w.doc]
  BY DEF Continue
<1>3. /\ w.stage \in Services \cup {"done", "error"} /\ w.age \in Nat /\ w.age < TTL
      /\ w.stage = "error" => \E s \in Services : Fresh(cache, s) /\ cache[s].spec = Garbled
  <2> HIDE DEF w
  <2> QED
    BY <1>1 DEF WalkAged
<1>4. /\ stage \in [Requests -> Services \cup {"new", "admin", "done", "error"}]
      /\ DOMAIN fetch = Requests /\ \A q \in Requests : DOMAIN fetch[q] = {"started", "got"}
      /\ DOMAIN doc = Requests /\ age \in [Requests -> Nat] /\ \A q \in Requests : age[q] < TTL
  BY DEF AgesInv, TypeOK, NothingStale
<1>5. DOMAIN begun = {"started", "got"} /\ begun.got = Unread /\ (w.stage \in Services => begun.started = now)
  <2> HIDE DEF w
  <2> QED
    OBVIOUS
<1> HIDE DEF w, begun
<1>6. stage' \in [Requests -> Services \cup {"new", "admin", "done", "error"}] /\ stage'[r] = w.stage
      /\ \A q \in Requests \ {r} : stage'[q] = stage[q]
  BY <1>2, <1>3, <1>4
<1>7. age' \in [Requests -> Nat] /\ \A q \in Requests : age'[q] < TTL
  BY <1>2, <1>3, <1>4
<1>8. DOMAIN fetch' = Requests /\ fetch'[r] = begun /\ \A q \in Requests \ {r} : fetch'[q] = fetch[q]
  BY <1>2, <1>4
<1>9. DOMAIN doc' = Requests
  BY <1>2, <1>4
<1> QED
  BY <1>3, <1>4, <1>5, <1>6, <1>7, <1>8, <1>9

(* The two parts of DatedRight, and what GarbledLately asks for. *)
EntryDated(s) ==
  cache[s] # NoEntry =>
    cache[s].at \in 0..now /\ cache[s].spec \in Outcomes(s) /\ Since(s, cache[s].spec, cache[s].at)

FetchDated(r) ==
  stage[r] \in Services =>
    /\ fetch[r].started \in 0..now /\ now - fetch[r].started <= FetchTime
    /\ fetch[r].got # Unread =>
         fetch[r].got \in Outcomes(stage[r]) /\ Since(stage[r], fetch[r].got, fetch[r].started)

GarbledSeen ==
  \E s \in Services :
    \/ world[s] = Garbled
    \/ Garbled \in DOMAIN lastSeen[s] /\ now - lastSeen[s][Garbled] < TTL

LEMMA Parts == DatedRight <=> (\A s \in Services : EntryDated(s)) /\ (\A r \in Requests : FetchDated(r))
BY DEF DatedRight, EntryDated, FetchDated

LEMMA PartsNext ==
  ASSUME \A s \in Services : EntryDated(s)', \A r \in Requests : FetchDated(r)'
  PROVE  DatedRight'
BY DEF DatedRight, EntryDated, FetchDated

LEMMA GarbledIsSeen ==
  ASSUME TypeOK, NEW s \in Services, NEW time \in 0..now, now - time < TTL, Since(s, Garbled, time)
  PROVE  GarbledSeen
<1>1. now \in Nat /\ \A y \in DOMAIN lastSeen[s] : lastSeen[s][y] \in 0..now
  BY DEF TypeOK
<1>2. CASE world[s] = Garbled
  BY <1>2 DEF GarbledSeen
<1>3. CASE Garbled \in DOMAIN lastSeen[s] /\ lastSeen[s][Garbled] >= time
  <2>1. now - lastSeen[s][Garbled] < TTL
    BY <1>1, <1>3
  <2> QED
    BY <1>3, <2>1 DEF GarbledSeen
<1> QED
  BY <1>2, <1>3 DEF Since

LEMMA FreshIsSeen ==
  ASSUME TypeOK, DatedRight, NEW s \in Services, Fresh(cache, s), cache[s].spec = Garbled
  PROVE  GarbledSeen
<1>1. cache[s].at \in 0..now /\ now - cache[s].at < TTL /\ Since(s, Garbled, cache[s].at)
  BY DEF DatedRight, Fresh
<1> QED
  BY <1>1, GarbledIsSeen

(* Where neither time nor the services move, entries and fetches that stay  *)
(* as they are stay dated.                                                  *)
LEMMA EntryKept ==
  ASSUME DatedRight, NEW s \in Services, cache'[s] = cache[s], UNCHANGED <<now, world, lastSeen>>
  PROVE  EntryDated(s)'
BY Parts DEF EntryDated, Since

LEMMA FetchKept ==
  ASSUME DatedRight, NEW r \in Requests, stage'[r] = stage[r], fetch'[r] = fetch[r],
         UNCHANGED <<now, world, lastSeen>>
  PROVE  FetchDated(r)'
BY Parts DEF FetchDated, Since

(* A build that goes on from dated entries. *)
LEMMA ContinueDated ==
  ASSUME AgesInv, NEW r \in Requests, NEW at \in 0..Len(Order), NEW d, NEW a \in Nat, a < TTL,
         Continue(r, at, d, a, cache), UNCHANGED <<now, world, lastSeen>>,
         DOMAIN cache' = Services, \A s \in Services : EntryDated(s)'
  PROVE  AgesInv' /\ GarbledLately
<1>1. /\ stage' \in [Requests -> Services \cup {"new", "admin", "done", "error"}]
      /\ DOMAIN fetch' = Requests /\ \A q \in Requests : DOMAIN fetch'[q] = {"started", "got"}
      /\ DOMAIN doc' = Requests /\ age' \in [Requests -> Nat] /\ \A q \in Requests : age'[q] < TTL
      /\ \A q \in Requests \ {r} : stage'[q] = stage[q] /\ fetch'[q] = fetch[q]
      /\ stage'[r] \in Services => fetch'[r].started = now /\ fetch'[r].got = Unread
      /\ stage'[r] = "error" => \E s \in Services : Fresh(cache, s) /\ cache[s].spec = Garbled
  BY ContinueIs
<1>2. TypeOK'
  BY <1>1 DEF AgesInv, TypeOK
<1>3. DatedRight'
  <2>1. ASSUME NEW q \in Requests
        PROVE  FetchDated(q)'
    <3>1. CASE q = r
      <4>1. now \in Nat /\ now' = now
        BY DEF AgesInv, TypeOK
      <4> QED
        BY <1>1, <3>1, <4>1 DEF FetchDated
    <3>2. CASE q # r
      BY <1>1, <3>2, FetchKept DEF AgesInv
    <3> QED
      BY <3>1, <3>2
  <2> QED
    BY <2>1, PartsNext
<1>4. NothingStale'
  BY <1>1 DEF NothingStale
<1>5. GarbledLately
  <2> SUFFICES ASSUME NEW q \in Requests, stage[q] # "error", stage'[q] = "error"
               PROVE  GarbledSeen
    BY DEF GarbledLately, GarbledSeen
  <2>1. q = r
    BY <1>1
  <2> QED
    BY <1>1, <2>1, FreshIsSeen DEF AgesInv
<1> QED
  BY <1>2, <1>3, <1>4, <1>5 DEF AgesInv

LEMMA PublicDocsDated ==
  ASSUME AgesInv, NEW r \in Requests, PublicDocs(r)
  PROVE  AgesInv' /\ GarbledLately
<1>1. 0 \in 0..Len(Order) /\ 0 < TTL
  BY Ordered
<1>2. Continue(r, 0, Filtered(OwnDoc, FALSE), 0, cache) /\ UNCHANGED <<now, world, lastSeen, cache>>
  BY DEF PublicDocs
<1> DEFINE d == Filtered(OwnDoc, FALSE)
<1> HIDE DEF d
<1>3. DOMAIN cache' = Services /\ \A s \in Services : EntryDated(s)'
  BY <1>2, EntryKept DEF AgesInv, TypeOK
<1> QED
  BY <1>1, <1>2, <1>3, ContinueDated DEF d

LEMMA AdminDocsDated ==
  ASSUME AgesInv, NEW r \in Requests, AdminDocs(r)
  PROVE  AgesInv' /\ GarbledLately
<1>1. /\ stage' = [stage EXCEPT ![r] = "admin"] /\ UNCHANGED <<now, world, lastSeen, cache, fetch, age>>
      /\ DOMAIN doc' = DOMAIN doc
  BY DEF AdminDocs
<1>2. "admin" \notin Services
  BY Ordered
<1>3. stage' \in [Requests -> Services \cup {"new", "admin", "done", "error"}]
      /\ stage'[r] = "admin" /\ \A q \in Requests \ {r} : stage'[q] = stage[q]
  BY <1>1 DEF AgesInv, TypeOK
<1>4. TypeOK'
  BY <1>1, <1>3 DEF AgesInv, TypeOK
<1>5. DatedRight'
  <2>1. \A s \in Services : EntryDated(s)'
    BY <1>1, EntryKept DEF AgesInv
  <2>2. ASSUME NEW q \in Requests
        PROVE  FetchDated(q)'
    <3>1. CASE q = r
      <4>1. Services' = Services
        OBVIOUS
      <4> QED
        BY <1>2, <1>3, <3>1 DEF FetchDated
    <3>2. CASE q # r
      BY <1>1, <1>3, <3>2, FetchKept DEF AgesInv
    <3> QED
      BY <3>1, <3>2
  <2> QED
    BY <2>1, <2>2, PartsNext
<1>6. NothingStale'
  BY <1>1 DEF AgesInv, NothingStale
<1>7. GarbledLately
  BY <1>3 DEF GarbledLately
<1> QED
  BY <1>4, <1>5, <1>6, <1>7 DEF AgesInv

LEMMA ServiceAnswersDated ==
  ASSUME AgesInv, NEW r \in Requests, ServiceAnswers(r)
  PROVE  AgesInv' /\ GarbledLately
<1>1. /\ stage[r] \in Services /\ fetch' = [fetch EXCEPT ![r].got = world[stage[r]]]
      /\ UNCHANGED <<now, world, lastSeen, cache, stage, doc, age>>
  BY DEF ServiceAnswers
<1>2. /\ DOMAIN fetch' = Requests /\ \A q \in Requests : DOMAIN fetch'[q] = {"started", "got"}
      /\ \A q \in Requests \ {r} : fetch'[q] = fetch[q]
      /\ fetch'[r].started = fetch[r].started /\ fetch'[r].got = world[stage[r]]
  BY <1>1 DEF AgesInv, TypeOK
<1>3. TypeOK'
  BY <1>1, <1>2 DEF AgesInv, TypeOK
<1>4. DatedRight'
  <2>1. \A s \in Services : EntryDated(s)'
    BY <1>1, EntryKept DEF AgesInv
  <2>2. ASSUME NEW q \in Requests
        PROVE  FetchDated(q)'
    <3>1. CASE q = r
      <4>1. FetchDated(r) /\ stage[r] \in Services /\ world[stage[r]] \in Outcomes(stage[r])
        BY <1>1, Parts DEF AgesInv, TypeOK
      <4> QED
        BY <1>1, <1>2, <3>1, <4>1 DEF FetchDated, Since
    <3>2. CASE q # r
      BY <1>1, <1>2, <3>2, FetchKept DEF AgesInv
    <3> QED
      BY <3>1, <3>2
  <2> QED
    BY <2>1, <2>2, PartsNext
<1>5. NothingStale' /\ GarbledLately
  BY <1>1 DEF AgesInv, NothingStale, GarbledLately
<1> QED
  BY <1>3, <1>4, <1>5 DEF AgesInv

(* Where something was seen now, whatever was dated stays dated. *)
LEMMA DatedKept ==
  ASSUME AgesInv, NEW s \in Services, NEW x, Saw(s, x), now' = now,
         \A q \in Services : world'[q] = world[q] \/ (q = s /\ world[q] = x),
         NEW q \in Services, NEW y, NEW time \in 0..now, Since(q, y, time)
  PROVE  Since(q, y, time)'
<1>1. /\ x \in DOMAIN lastSeen'[s] /\ lastSeen'[s][x] = now
      /\ \A z \in DOMAIN lastSeen[q] :
           z \in DOMAIN lastSeen'[q] /\ lastSeen'[q][z] >= lastSeen[q][z]
      /\ \A z \in DOMAIN lastSeen'[q] : lastSeen'[q][z] \in 0..now
  BY SawIs DEF AgesInv
<1>2. now \in Nat /\ \A z \in DOMAIN lastSeen[q] : lastSeen[q][z] \in 0..now
  BY DEF AgesInv, TypeOK
<1>3. CASE world'[q] = y
  BY <1>3 DEF Since
<1>4. CASE world[q] = y /\ world'[q] # y
  <2>1. q = s /\ y = x
    BY <1>4
  <2>2. y \in DOMAIN lastSeen'[q] /\ lastSeen'[q][y] >= time
    BY <1>1, <1>2, <2>1
  <2> QED
    BY <2>2 DEF Since
<1>5. CASE y \in DOMAIN lastSeen[q] /\ lastSeen[q][y] >= time
  <2>1. y \in DOMAIN lastSeen'[q] /\ lastSeen'[q][y] >= time
    BY <1>1, <1>2, <1>5
  <2> QED
    BY <2>1 DEF Since
<1> QED
  BY <1>3, <1>4, <1>5 DEF Since

LEMMA FetchFailsDated ==
  ASSUME AgesInv, NEW r \in Requests, FetchFails(r)
  PROVE  AgesInv' /\ GarbledLately
<1>1. /\ stage[r] \in Services /\ fetch' = [fetch EXCEPT ![r].got = Failed] /\ Saw(stage[r], Failed)
      /\ UNCHANGED <<now, world, cache, stage, doc, age>>
  BY DEF FetchFails
<1>2. /\ DOMAIN fetch' = Requests /\ \A q \in Requests : DOMAIN fetch'[q] = {"started", "got"}
      /\ \A q \in Requests \ {r} : fetch'[q] = fetch[q]
      /\ fetch'[r].started = fetch[r].started /\ fetch'[r].got = Failed
  BY <1>1 DEF AgesInv, TypeOK
<1>3. /\ DOMAIN lastSeen' = Services
      /\ \A q \in Services : \A y \in DOMAIN lastSeen'[q] : lastSeen'[q][y] \in 0..now
      /\ Failed \in DOMAIN lastSeen'[stage[r]] /\ lastSeen'[stage[r]][Failed] = now
  BY <1>1, SawIs DEF AgesInv
<1>4. TypeOK'
  BY <1>1, <1>2, <1>3 DEF AgesInv, TypeOK
<1>5. ASSUME NEW q \in Services, NEW y, NEW time \in 0..now, Since(q, y, time)
      PROVE  Since(q, y, time)'
  BY <1>1, <1>5, DatedKept
<1>6. DatedRight'
  <2>1. ASSUME NEW q \in Services
        PROVE  EntryDated(q)'
    <3>1. EntryDated(q)
      BY Parts DEF AgesInv
    <3> QED
      BY <1>1, <1>5, <3>1 DEF EntryDated
  <2>2. ASSUME NEW q \in Requests
        PROVE  FetchDated(q)'
    <3>0. FetchDated(q) /\ FetchDated(r)
      BY Parts DEF AgesInv
    <3>1. CASE q = r
      <4>1. fetch[r].started \in 0..now /\ now - fetch[r].started <= FetchTime
        BY <1>1, <3>0 DEF FetchDated
      <4>2. Since(stage[r], Failed, fetch[r].started)'
        <5>1. now \in Nat
          BY DEF AgesInv, TypeOK
        <5>2. lastSeen'[stage[r]][Failed] >= fetch[r].started
          BY <1>3, <4>1, <5>1
        <5> QED
          BY <1>1, <1>2, <1>3, <5>2 DEF Since
      <4>3. Failed \in Outcomes(stage[r])
        BY DEF Outcomes
      <4> QED
        BY <1>1, <1>2, <3>1, <4>1, <4>2, <4>3 DEF FetchDated
    <3>2. CASE q # r
      <4>1. fetch'[q] = fetch[q] /\ stage'[q] = stage[q] /\ now' = now
        BY <1>1, <1>2, <3>2
      <4> QED
        BY <1>5, <3>0, <4>1 DEF FetchDated
    <3> QED
      BY <3>1, <3>2
  <2> QED
    BY <2>1, <2>2, PartsNext
<1>7. NothingStale' /\ GarbledLately
  BY <1>1 DEF AgesInv, NothingStale, GarbledLately
<1> QED
  BY <1>4, <1>6, <1>7 DEF AgesInv

LEMMA FetchDoneDated ==
  ASSUME AgesInv, NEW r \in Requests, FetchDone(r)
  PROVE  AgesInv' /\ GarbledLately
<1> DEFINE s == stage[r]
           got == fetch[r].got
<1>1. /\ s \in Services /\ got # Unread /\ cache' = [cache EXCEPT ![s] = Entry(r)]
      /\ UNCHANGED <<now, world, lastSeen>>
  BY DEF FetchDone
<1>2. /\ fetch[r].started \in 0..now /\ now - fetch[r].started <= FetchTime
      /\ got \in Outcomes(s) /\ Since(s, got, fetch[r].started)
  BY <1>1, Parts DEF AgesInv, FetchDated
<1>3. now \in Nat /\ now - fetch[r].started < TTL
  <2>1. now \in Nat
    BY DEF AgesInv, TypeOK
  <2> QED
    BY <1>2, <2>1
<1>4. DOMAIN cache' = Services /\ cache'[s] = Entry(r) /\ \A q \in Services : q # s => cache'[q] = cache[q]
  BY <1>1 DEF AgesInv, TypeOK
<1>5. ASSUME NEW q \in Services
      PROVE  EntryDated(q)'
  <2>1. CASE q = s
    <3>1. cache'[q].at = fetch[r].started /\ cache'[q].spec = got
      BY <1>4, <2>1 DEF Entry
    <3> QED
      BY <1>1, <1>2, <2>1, <3>1 DEF EntryDated, Since
  <2>2. CASE q # s
    BY <1>1, <1>4, <2>2, EntryKept DEF AgesInv
  <2> QED
    BY <2>1, <2>2
<1>6. CASE got = Garbled /\ stage' = [stage EXCEPT ![r] = "error"] /\ UNCHANGED <<fetch, doc, age>>
  <2>1. "error" \notin Services
    BY Ordered
  <2>2. stage' \in [Requests -> Services \cup {"new", "admin", "done", "error"}]
        /\ stage'[r] = "error" /\ \A q \in Requests \ {r} : stage'[q] = stage[q]
    BY <1>6 DEF AgesInv, TypeOK
  <2>3. TypeOK'
    BY <1>1, <1>4, <1>6, <2>2 DEF AgesInv, TypeOK
  <2>4. ASSUME NEW q \in Requests
        PROVE  FetchDated(q)'
    <3>1. CASE q = r
      BY <2>1, <2>2, <3>1 DEF FetchDated
    <3>2. CASE q # r
      BY <1>1, <1>6, <2>2, <3>2, FetchKept DEF AgesInv
    <3> QED
      BY <3>1, <3>2
  <2>5. DatedRight'
    BY <1>5, <2>4, PartsNext
  <2>6. NothingStale'
    BY <1>6 DEF AgesInv, NothingStale
  <2>7. GarbledSeen
    <3>1. Since(s, Garbled, fetch[r].started)
      BY <1>2, <1>6
    <3> QED
      BY <1>1, <1>2, <1>3, <3>1, GarbledIsSeen DEF AgesInv
  <2>8. GarbledLately
    BY <2>7 DEF GarbledLately, GarbledSeen
  <2> QED
    BY <2>3, <2>5, <2>6, <2>8 DEF AgesInv
<1>7. CASE Continue(r, Place(s), Merge(s, got, doc[r]), Older(AgeOf(s, got), age[r]), cache)
  <2> DEFINE d == Merge(s, got, doc[r])
             a == Older(AgeOf(s, got), age[r])
  <2>1. AgeOf(s, got) \in Nat /\ AgeOf(s, got) < TTL
    <3>1. AgeOf(s, got) \in Nat /\ AgeOf(s, got) <= now - fetch[r].started
      BY <1>1, <1>2, AgeBounded DEF AgesInv
    <3> QED
      BY <1>2, <1>3, <3>1
  <2>2. age[r] \in Nat /\ age[r] < TTL
    BY DEF AgesInv, TypeOK, NothingStale
  <2>3. a \in Nat /\ a < TTL
    BY <2>1, <2>2 DEF Older
  <2>4. Place(s) \in 0..Len(Order)
    BY <1>1, Placed
  <2>5. Continue(r, Place(s), d, a, cache)
    BY <1>7
  <2> HIDE DEF d, a, s, got
  <2> QED
    BY <1>1, <1>4, <1>5, <2>3, <2>4, <2>5, ContinueDated
<1> QED
  BY <1>6, <1>7 DEF FetchDone

LEMMA PublishDated ==
  ASSUME AgesInv, NEW s \in Services, Publish(s)
  PROVE  AgesInv' /\ GarbledLately
<1>1. PICK x \in Outcomes(s) : world' = [world EXCEPT ![s] = x]
  BY DEF Publish
<1>2. Saw(s, world[s]) /\ UNCHANGED <<now, cache, stage, fetch, doc, age>>
  BY DEF Publish
<1>3. /\ world' \in [Services -> UNION {Outcomes(q) : q \in Services}] /\ world'[s] = x
      /\ \A q \in Services : q # s => world'[q] = world[q]
      /\ \A q \in Services : world'[q] \in Outcomes(q)
  BY <1>1 DEF AgesInv, TypeOK
<1>4. DOMAIN lastSeen' = Services /\ \A q \in Services : \A y \in DOMAIN lastSeen'[q] : lastSeen'[q][y] \in 0..now
  BY <1>2, SawIs DEF AgesInv
<1>5. TypeOK'
  BY <1>2, <1>3, <1>4 DEF AgesInv, TypeOK
<1>6. ASSUME NEW q \in Services, NEW y, NEW time \in 0..now, Since(q, y, time)
      PROVE  Since(q, y, time)'
  <2>1. \A p \in Services : world'[p] = world[p] \/ (p = s /\ world[p] = world[s])
    BY <1>3
  <2> QED
    BY <1>2, <1>6, <2>1, DatedKept
<1>7. ASSUME NEW q \in Services
      PROVE  EntryDated(q)'
  <2>1. EntryDated(q)
    BY Parts DEF AgesInv
  <2> QED
    BY <1>2, <1>6, <2>1 DEF EntryDated
<1>8. ASSUME NEW q \in Requests
      PROVE  FetchDated(q)'
  <2>1. FetchDated(q)
    BY Parts DEF AgesInv
  <2> QED
    BY <1>2, <1>6, <2>1 DEF FetchDated
<1>9. NothingStale' /\ GarbledLately
  BY <1>2 DEF AgesInv, NothingStale, GarbledLately
<1> QED
  BY <1>5, <1>7, <1>8, <1>9, PartsNext DEF AgesInv

LEMMA TickDated ==
  ASSUME AgesInv, Tick
  PROVE  AgesInv' /\ GarbledLately
<1>1. /\ now' = now + 1 /\ UNCHANGED <<world, lastSeen, cache, stage, fetch, doc, age>>
      /\ \A r \in Requests : stage[r] \in Services => now - fetch[r].started < FetchTime
      /\ now \in Nat /\ FetchTime \in Nat
  BY DEF AgesInv, TypeOK, Tick
<1>2. TypeOK'
  <2>1. \A s \in Services : \A x \in DOMAIN lastSeen[s] : lastSeen[s][x] \in 0..now'
    BY <1>1 DEF AgesInv, TypeOK
  <2> QED
    BY <1>1, <2>1 DEF AgesInv, TypeOK
<1>3. ASSUME NEW s \in Services
      PROVE  EntryDated(s)'
  <2>1. EntryDated(s)
    BY Parts DEF AgesInv
  <2> QED
    BY <1>1, <2>1 DEF EntryDated, Since
<1>4. ASSUME NEW r \in Requests
      PROVE  FetchDated(r)'
  <2>1. FetchDated(r)
    BY Parts DEF AgesInv
  <2> QED
    BY <1>1, <2>1 DEF FetchDated, Since
<1>5. NothingStale' /\ GarbledLately
  BY <1>1 DEF AgesInv, NothingStale, GarbledLately
<1> QED
  BY <1>2, <1>3, <1>4, <1>5, PartsNext DEF AgesInv

LEMMA InitDated ==
  ASSUME Init
  PROVE  AgesInv
<1>1. "new" \notin Services
  BY Ordered
<1>2. TypeOK
  BY DEF Init, TypeOK
<1>3. DatedRight
  BY <1>1 DEF Init, DatedRight
<1>4. NothingStale
  BY DEF Init, NothingStale
<1> QED
  BY <1>2, <1>3, <1>4 DEF AgesInv

LEMMA StepDated ==
  ASSUME AgesInv, [Next]_vars
  PROVE  AgesInv' /\ [GarbledLately]_vars
<1>1. ASSUME UNCHANGED vars
      PROVE  AgesInv'
  BY <1>1 DEF vars, AgesInv, TypeOK, DatedRight, NothingStale, Since
<1> QED
  BY <1>1, PublicDocsDated, AdminDocsDated, ServiceAnswersDated, FetchFailsDated, FetchDoneDated, PublishDated,
     TickDated DEF Next

(* Nothing merged into a document is older than the TTL, however long a     *)
(* fetch takes within its bound and whichever builds overlap.               *)
THEOREM NothingStaleIsServed == Spec => [](TypeOK /\ DatedRight /\ NothingStale)
<1>1. Init => AgesInv
  BY InitDated
<1>2. AgesInv /\ [Next]_vars => AgesInv'
  BY StepDated
<1>3. AgesInv => TypeOK /\ DatedRight /\ NothingStale
  BY DEF AgesInv
<1> QED
  BY <1>1, <1>2, <1>3, PTL DEF Spec

(* A page fails only for a body that is no document and that a service      *)
(* published within the TTL.                                                *)
THEOREM ErrorsDoNotStick == Spec => ErrorsPass
<1>1. Init => AgesInv
  BY InitDated
<1>2. AgesInv /\ [Next]_vars => AgesInv' /\ [GarbledLately]_vars
  BY StepDated
<1> QED
  BY <1>1, <1>2, PTL DEF Spec, ErrorsPass

-----------------------------------------------------------------------------
(* The gateway's own document                                               *)

OpShape(op) == DOMAIN op = {"root", "leaf", "method", "refs", "inputs", "notes", "marked"}
OwnRefs == {Own("Body"), Own("HTTPValidationError")}

(* An operation of the gateway's own, but for the admin routes. *)
OwnOp(op) ==
  /\ OpShape(op) /\ op.root # "admin" /\ op.method \in Methods
  /\ op.refs \subseteq OwnRefs /\ Advised(op)

LEMMA OpIs ==
  ASSUME NEW root, NEW leaf, NEW method, NEW refs
  PROVE  /\ OpShape(Op(root, leaf, method, refs))
         /\ Op(root, leaf, method, refs).root = root /\ Op(root, leaf, method, refs).leaf = leaf
         /\ Op(root, leaf, method, refs).method = method /\ Op(root, leaf, method, refs).refs = refs
BY DEF Op, OpShape

LEMMA LocalOpsAre == \A op \in LocalOps : OwnOp(op)
<1>1. \A p \in ReadPosts \cup WritePosts : OwnOp(Op(p[1], p[2], "post", OwnRefs))
  <2>1. ASSUME NEW p \in ReadPosts \cup WritePosts
        PROVE  p[1] \in {"", "votebot", "webflow"}
    <3>0. \A x, y : <<x, y>>[1] = x
      OBVIOUS
    <3>1. \A q \in ReadPosts : q[1] \in {"", "votebot", "webflow"}
      BY <3>0, Zenon DEF ReadPosts
    <3>2. \A q \in WritePosts : q[1] \in {"", "votebot", "webflow"}
      BY <3>0, Zenon DEF WritePosts
    <3> QED
      BY <3>1, <3>2
  <2>2. ASSUME NEW p \in ReadPosts \cup WritePosts
        PROVE  <<p[1], p[2]>> \notin JobStarters \cup BodyExamples \cup ParamDefaults
    BY <2>1 DEF JobStarters, BodyExamples, ParamDefaults
  <2> QED
    BY <2>1, <2>2 DEF OwnOp, OpShape, Op, Methods, Advised, Path
<1>2. \A op \in { Op("webflow", "items/{item_id}", "delete", {Own("HTTPValidationError")}),
                  Op("voatz", "users/{org_id}", "get", {Own("HTTPValidationError")}),
                  Op("voatz", "events/{org_id}", "get", {Own("HTTPValidationError")}),
                  Op("", "", "get", {}), Op("", "health", "get", {}) } : OwnOp(op)
  <2>1. ASSUME NEW root \in {"", "webflow", "voatz"}, NEW leaf, NEW m \in {"get", "delete"},
               NEW refs \in {{}, {Own("HTTPValidationError")}}
        PROVE  OwnOp(Op(root, leaf, m, refs))
    <3> DEFINE op == Op(root, leaf, m, refs)
    <3>1. OpShape(op) /\ op.root = root /\ op.method = m /\ op.refs = refs
      BY DEF Op, OpShape
    <3> HIDE DEF op
    <3> QED
      BY <3>1 DEF OwnOp, OwnRefs, Methods, Advised, op
  <2> QED
    BY <2>1
<1> QED
  BY <1>1, <1>2 DEF LocalOps, OwnRefs

LEMMA ProxyOpsAre == \A op \in ProxyOps : OwnOp(op)
<1>1. ASSUME NEW root \in {"sync", "trigger", "openstates", "broker"}, NEW m \in {"get", "post", "put", "delete"}
      PROVE  OwnOp(Op(root, "{path}", m, {}))
  <2>1. <<root, "{path}">> \notin JobStarters \cup BodyExamples \cup ParamDefaults
    BY DEF JobStarters, BodyExamples, ParamDefaults
  <2> QED
    BY <2>1 DEF OwnOp, OpShape, Op, Methods, Advised, Path
<1>2. OwnOp(Op("openstates", "healthz", "get", {}))
  BY DEF OwnOp, OpShape, Op, Methods, Advised
<1>3. ASSUME NEW root \in {"sync", "trigger", "openstates", "broker"}, NEW op \in CatchAll(root)
      PROVE  OwnOp(op)
  <2>1. \E m \in {"get", "post", "put", "delete"} : op = Op(root, "{path}", m, {})
    BY DEF CatchAll
  <2> QED
    BY <1>1, <2>1
<1>4. ASSUME NEW op \in ProxyOps
      PROVE  OwnOp(op)
  <2>1. CASE op = Op("openstates", "healthz", "get", {})
    BY <1>2, <2>1
  <2>2. CASE \E root \in {"sync", "trigger", "openstates", "broker"} : op \in CatchAll(root)
    BY <1>3, <2>2
  <2>3. CASE op \in UNION {CatchAll(root) : root \in {"sync", "trigger", "openstates", "broker"}}
    <3>1. PICK O \in {CatchAll(root) : root \in {"sync", "trigger", "openstates", "broker"}} : op \in O
      BY <2>3
    <3> QED
      BY <2>2, <3>1
  <2> QED
    BY <2>1, <2>3, Zenon DEF ProxyOps
<1> QED
  BY <1>4

LEMMA AdminOpsAre ==
  \A op \in AdminOps :
    op.root = "admin" /\ op.refs \subseteq {Own("IssueKeyRequest"), Own("ListKeysResponse"), Own("HTTPValidationError")}
<1> SUFFICES ASSUME NEW op \in AdminOps
             PROVE  op.root = "admin"
                    /\ op.refs \subseteq {Own("IssueKeyRequest"), Own("ListKeysResponse"), Own("HTTPValidationError")}
  OBVIOUS
<1>1. \E leaf, m : \E refs \in {{Own("IssueKeyRequest"), Own("HTTPValidationError")}, {Own("ListKeysResponse")},
                               {Own("HTTPValidationError")}, {}} : op = Op("admin", leaf, m, refs)
  BY Zenon DEF AdminOps
<1> QED
  BY <1>1, OpIs

(* Of any schemas that refer only to each other, as many are reached as the *)
(* roots need, and these refer only to each other.                          *)
LEMMA ReachedIsWhole ==
  ASSUME NEW roots, NEW schemas, roots \subseteq DOMAIN schemas,
         \A n \in DOMAIN schemas : schemas[n] \subseteq DOMAIN schemas
  PROVE  /\ roots \subseteq Reached(roots, schemas)
         /\ \A n \in Reached(roots, schemas) : schemas[n] \subseteq Reached(roots, schemas)
<1>1. roots \subseteq Reached(roots, schemas)
  BY DEF Reached
<1>2. ASSUME NEW n \in Reached(roots, schemas), NEW m \in schemas[n]
      PROVE  m \in Reached(roots, schemas)
  <2>1. n \in DOMAIN schemas /\ m \in DOMAIN schemas
    BY DEF Reached
  <2>2. ASSUME NEW S \in SUBSET DOMAIN schemas,
               (roots \cap DOMAIN schemas) \subseteq S /\ (\A k \in S : schemas[k] \cap DOMAIN schemas \subseteq S)
        PROVE  m \in S
    <3>1. n \in S
      BY <2>2 DEF Reached
    <3> QED
      BY <2>1, <2>2, <3>1
  <2> QED
    BY <2>1, <2>2 DEF Reached
<1> QED
  BY <1>1, <1>2

LEMMA OwnSchemasAreWhole ==
  /\ DOMAIN OwnSchemas = {Own("Body"), Own("HTTPValidationError"), Own("ValidationError"), Own("IssueKeyRequest"),
                          Own("Restrictions"), Own("ListKeysResponse"), Own("KeyInfo")}
  /\ \A n \in DOMAIN OwnSchemas : OwnSchemas[n] \subseteq DOMAIN OwnSchemas
BY DEF OwnSchemas

LEMMA FilteredIsWhole ==
  ASSUME NEW admin \in BOOLEAN
  PROVE  /\ Whole(Filtered(OwnDoc, admin))
         /\ Filtered(OwnDoc, admin).ops = {op \in LocalOps \cup AdminOps \cup ProxyOps : (op.root = "admin") = admin}
         /\ DOMAIN Filtered(OwnDoc, admin).schemas = Reached(RefsOf(Filtered(OwnDoc, admin).ops), OwnSchemas)
<1> DEFINE ops == {op \in LocalOps \cup AdminOps \cup ProxyOps : (op.root = "admin") = admin}
           kept == Reached(RefsOf(ops), OwnSchemas)
<1>1. Filtered(OwnDoc, admin) = [ops |-> ops, schemas |-> [n \in kept |-> OwnSchemas[n]]]
  BY DEF Filtered, OwnDoc
<1>2. \A op \in ops : op.refs \subseteq DOMAIN OwnSchemas
  BY LocalOpsAre, ProxyOpsAre, AdminOpsAre, OwnSchemasAreWhole DEF OwnOp, OwnRefs
<1> HIDE DEF ops
<1>3. RefsOf(ops) \subseteq DOMAIN OwnSchemas
  BY <1>2 DEF RefsOf
<1>4. RefsOf(ops) \subseteq kept /\ \A n \in kept : OwnSchemas[n] \subseteq kept
  BY <1>3, OwnSchemasAreWhole, ReachedIsWhole
<1> HIDE DEF kept
<1> QED
  BY <1>1, <1>4 DEF Whole, ops, kept

LEMMA AdminPageIsApart ==
  /\ Whole(Filtered(OwnDoc, TRUE))
  /\ \A op \in Filtered(OwnDoc, TRUE).ops : op.root = "admin"
BY FilteredIsWhole

LEMMA PublicPageBegins == Sound(Filtered(OwnDoc, FALSE))
<1> DEFINE d == Filtered(OwnDoc, FALSE)
<1>0. DOMAIN d = {"ops", "schemas"}
  BY DEF Filtered
<1>1. Whole(d) /\ d.ops = {op \in LocalOps \cup AdminOps \cup ProxyOps : (op.root = "admin") = FALSE}
      /\ DOMAIN d.schemas = Reached(RefsOf(d.ops), OwnSchemas)
  BY FilteredIsWhole
<1> HIDE DEF d
<1>2. \A op \in d.ops : OwnOp(op)
  BY <1>1, LocalOpsAre, ProxyOpsAre, AdminOpsAre
<1>3. Hidden \cap DOMAIN d.schemas = {}
  <2> DEFINE S == {Own("Body"), Own("HTTPValidationError"), Own("ValidationError")}
  <2>1. RefsOf(d.ops) \subseteq S
    BY <1>2 DEF RefsOf, OwnOp, OwnRefs
  <2>2. S \in SUBSET DOMAIN OwnSchemas /\ \A n \in S : OwnSchemas[n] \subseteq S
    <3>1. S \in SUBSET DOMAIN OwnSchemas
      BY OwnSchemasAreWhole
    <3>2. \A n \in S : OwnSchemas[n] \subseteq {Own("ValidationError")}
      <4>1. /\ OwnSchemas[Own("Body")] = {} /\ OwnSchemas[Own("ValidationError")] = {}
            /\ OwnSchemas[Own("HTTPValidationError")] = {Own("ValidationError")}
        BY DEF OwnSchemas, Own
      <4> QED
        BY <4>1
    <3> QED
      BY <3>1, <3>2
  <2>3. \A n \in Reached(RefsOf(d.ops), OwnSchemas) : n \in S
    <3> HIDE DEF S
    <3> QED
      BY <2>1, <2>2 DEF Reached
  <2>4. Hidden \cap S = {}
    BY DEF Hidden, Own
  <2> QED
    BY <1>1, <2>3, <2>4
<1>4. ASSUME NEW s \in Services
      PROVE  Shows(d, s)
  <2>1. s \in {"sync", "openstates", "broker"}
    BY Ordered
  <2> DEFINE op == Op(s, "{path}", "get", {})
  <2>2. op \in ProxyOps
    <3>1. op \in CatchAll(s)
      BY DEF CatchAll
    <3> HIDE DEF op
    <3> QED
      BY <2>1, <3>1 DEF ProxyOps
  <2>3. op \in d.ops
    <3>1. op.root # "admin"
      BY <2>1 DEF Op
    <3> QED
      BY <1>1, <2>2, <3>1
  <2>4. op.root \in Roots(s) /\ op.leaf # "healthz"
    BY DEF Roots, Op
  <2> HIDE DEF op
  <2> QED
    BY <2>3, <2>4 DEF Shows
<1> QED
  BY <1>0, <1>1, <1>2, <1>3, <1>4 DEF Sound, OwnOp, OpShape, d

-----------------------------------------------------------------------------
(* Merging                                                                  *)

(* What a merged operation is. *)
LEMMA MergedOpsAre ==
  ASSUME NEW s \in Services, NEW spec, Proper(s, spec), NEW new \in MergedOps(s, spec)
  PROVE  /\ OpShape(new) /\ new.root \in Roots(s) /\ new.root # "admin" /\ new.method \in Methods
         /\ new.leaf # "{path}" /\ Advised(new)
         /\ new.refs \subseteq DOMAIN MergedSchemas(s, spec)
<1>1. PICK op \in spec.ops :
        /\ Reachable(s, op)
        /\ new = [Op(Mounted(s, op), op.leaf, op.method, RenamedAll(s, spec, op.refs))
                   EXCEPT !.inputs = Inputs(s, op), !.notes = Annotated(s, op)]
  BY DEF MergedOps
<1>2. /\ new.root = Mounted(s, op) /\ new.leaf = op.leaf /\ new.method = op.method
      /\ new.refs = RenamedAll(s, spec, op.refs) /\ OpShape(new)
      /\ new.inputs = Inputs(s, op) /\ new.notes = Annotated(s, op)
  BY <1>1 DEF Op, OpShape
<1>3. op.method \in Methods /\ op.refs \subseteq DOMAIN spec.schemas /\ op.leaf # "{path}"
  BY DEF Proper
<1>4. new.root \in Roots(s) /\ new.root # "admin"
  <2>1. CASE s = "sync"
    BY <1>1, <1>2, <2>1 DEF Roots, Mounted, Reachable
  <2>2. CASE s # "sync"
    BY <1>2, <2>2, Ordered DEF Roots, Mounted
  <2> QED
    BY <2>1, <2>2
<1>5. Advised(new)
  <2>1. SUFFICES ASSUME new.method = "post"
                 PROVE  Advised(new)
    BY DEF Advised
  <2>2. \A table : In(table, s, op) <=> Path(new) \in table
    BY <1>2, <2>1 DEF Path, In
  <2>3. Path(new) \in JobStarters => "warning" \in new.notes
    BY <1>2, <2>2 DEF Annotated
  <2>4. Path(new) \in BodyExamples =>
          "body" \in new.inputs /\ ("media" \in new.inputs => "example" \in new.notes)
    BY <1>2, <2>2 DEF Annotated, Inputs
  <2>5. Path(new) \in ParamDefaults /\ "dry_run" \in new.inputs => "default" \in new.notes
    BY <1>2, <2>2 DEF Annotated, Inputs
  <2> QED
    BY <2>3, <2>4, <2>5 DEF Advised
<1>6. new.refs \subseteq DOMAIN MergedSchemas(s, spec)
  BY <1>2, <1>3 DEF MergedSchemas, RenamedAll, Renamed
<1> QED
  BY <1>2, <1>3, <1>4, <1>5, <1>6

(* The schemas of a service refer to each other, by their new names.        *)
LEMMA MergedSchemasAre ==
  ASSUME NEW s \in Services, NEW spec, Proper(s, spec)
  PROVE  /\ Hidden \cap DOMAIN MergedSchemas(s, spec) = {}
         /\ \A n \in DOMAIN MergedSchemas(s, spec) : MergedSchemas(s, spec)[n] \subseteq DOMAIN MergedSchemas(s, spec)
<1>1. DOMAIN MergedSchemas(s, spec) = {<<s, m>> : m \in DOMAIN spec.schemas}
  BY DEF MergedSchemas
<1>2. Hidden \cap DOMAIN MergedSchemas(s, spec) = {}
  <2>1. \A m : <<s, m>> \notin Hidden
    BY Ordered DEF Hidden, Own
  <2> QED
    BY <1>1, <2>1
<1>3. ASSUME NEW m \in DOMAIN spec.schemas
      PROVE  MergedSchemas(s, spec)[<<s, m>>] \subseteq DOMAIN MergedSchemas(s, spec)
  <2>1. MergedSchemas(s, spec)[<<s, m>>] = RenamedAll(s, spec, spec.schemas[m])
    BY DEF MergedSchemas
  <2>2. spec.schemas[m] \subseteq DOMAIN spec.schemas
    BY DEF Proper
  <2> QED
    BY <1>1, <2>1, <2>2 DEF RenamedAll, Renamed
<1> QED
  BY <1>1, <1>2, <1>3

LEMMA RootsApart ==
  ASSUME NEW s \in Services, NEW q \in Services, q # s
  PROVE  Roots(s) \cap Roots(q) = {}
BY Ordered DEF Roots

(* Merging keeps a document sound. *)
LEMMA MergeSound ==
  ASSUME NEW s \in Services, NEW spec \in Outcomes(s), spec # Garbled, NEW d, Sound(d)
  PROVE  Sound(Merge(s, spec, d))
<1>1. CASE spec = Failed
  BY <1>1 DEF Merge
<1>2. CASE spec # Failed
  <2>1. Proper(s, spec)
    BY <1>2, PublishedOK DEF Outcomes
  <2> DEFINE ops == MergedOps(s, spec)
             more == MergedSchemas(s, spec)
             left == {op \in d.ops : \A new \in ops : <<op.root, op.leaf>> # <<new.root, new.leaf>>}
             all == IF ops = {} THEN d.ops
                    ELSE {op \in left \cup ops : ~(op.root \in Roots(s) /\ op.leaf = "{path}")}
             e == Merge(s, spec, d)
  <2>2. DOMAIN e = {"ops", "schemas"} /\ e.ops = all /\ e.schemas = Overlaid(d.schemas, more)
    BY <1>2 DEF Merge
  <2>3. \A op \in ops :
          /\ OpShape(op) /\ op.root \in Roots(s) /\ op.root # "admin" /\ op.method \in Methods
          /\ op.leaf # "{path}" /\ Advised(op) /\ op.refs \subseteq DOMAIN more
    BY <2>1, MergedOpsAre
  <2>4. all \subseteq d.ops \cup ops
    OBVIOUS
  <2>5. \A op \in d.ops : OpShape(op) /\ op.root # "admin" /\ op.method \in Methods /\ Advised(op)
    BY DEF Sound, OpShape
  <2>6. /\ DOMAIN e.schemas = DOMAIN d.schemas \cup DOMAIN more
        /\ \A n \in DOMAIN e.schemas : e.schemas[n] = (IF n \in DOMAIN more THEN more[n] ELSE d.schemas[n])
    BY <2>2 DEF Overlaid
  <2>7. Hidden \cap DOMAIN more = {} /\ \A n \in DOMAIN more : more[n] \subseteq DOMAIN more
    BY <2>1, MergedSchemasAre
  <2>8. /\ Hidden \cap DOMAIN d.schemas = {}
        /\ \A op \in d.ops : op.refs \subseteq DOMAIN d.schemas
        /\ \A n \in DOMAIN d.schemas : d.schemas[n] \subseteq DOMAIN d.schemas
    BY DEF Sound, Whole, RefsOf
  <2>9. ASSUME NEW q \in Services
        PROVE  Shows(e, q)
    <3>1. CASE ops = {}
      <4>1. e.ops = d.ops
        BY <2>2, <3>1
      <4> QED
        BY <4>1 DEF Sound, Shows
    <3>2. CASE ops # {} /\ q = s
      <4>1. \E op \in spec.ops : Reachable(s, op)
        BY <3>2 DEF MergedOps
      <4>2. PICK op \in spec.ops : Reachable(s, op) /\ op.leaf # "healthz"
        BY <2>1, <4>1 DEF Proper
      <4> DEFINE new == [Op(Mounted(s, op), op.leaf, op.method, RenamedAll(s, spec, op.refs))
                           EXCEPT !.inputs = Inputs(s, op), !.notes = Annotated(s, op)]
      <4>3. new \in ops
        BY <4>2 DEF MergedOps
      <4>4. new.leaf # "healthz"
        BY <4>2 DEF Op
      <4>5. new.root \in Roots(q) /\ new.leaf # "{path}"
        <5> HIDE DEF new, ops
        <5> QED
          BY <2>3, <3>2, <4>3
      <4> HIDE DEF new, ops, left
      <4>6. new \in e.ops
        BY <2>2, <3>2, <4>3, <4>5
      <4> QED
        BY <4>4, <4>5, <4>6 DEF Shows
    <3>3. CASE ops # {} /\ q # s
      <4>1. PICK op \in d.ops : op.root \in Roots(q) /\ op.leaf # "healthz"
        BY DEF Sound, Shows
      <4>2. op.root \notin Roots(s)
        BY <3>3, <4>1, RootsApart
      <4>3. op \in left
        <5> HIDE DEF ops
        <5> QED
          BY <2>3, <4>2
      <4>4. op \in e.ops
        <5> HIDE DEF ops, left
        <5> QED
          BY <2>2, <3>3, <4>2, <4>3
      <4> QED
        BY <4>1, <4>4 DEF Shows
    <3> QED
      BY <3>1, <3>2, <3>3
  <2> HIDE DEF ops, more, left, all, e
  <2>10. \A op \in e.ops : OpShape(op) /\ op.root # "admin" /\ op.method \in Methods /\ Advised(op)
    BY <2>2, <2>3, <2>4, <2>5
  <2>11. Hidden \cap DOMAIN e.schemas = {}
    BY <2>6, <2>7, <2>8
  <2>12. Whole(e)
    <3>1. \A op \in e.ops : op.refs \subseteq DOMAIN e.schemas
      BY <2>2, <2>3, <2>4, <2>6, <2>8
    <3>2. \A n \in DOMAIN e.schemas : e.schemas[n] \subseteq DOMAIN e.schemas
      BY <2>6, <2>7, <2>8
    <3> QED
      BY <3>1, <3>2 DEF Whole, RefsOf
  <2> QED
    BY <2>2, <2>9, <2>10, <2>11, <2>12 DEF Sound, OpShape, e
<1> QED
  BY <1>1, <1>2

(* And so does marking, which sets the marks. *)
LEMMA MarkedIs ==
  ASSUME NEW d, Sound(d)
  PROVE  /\ Sound(Marked(d))
         /\ \A op \in Marked(d).ops :
              op.marked <=> op.method \in Mutating /\ <<op.method, Path(op)>> \notin READ_ONLY_POSTS
<1> DEFINE write(op) == op.method \in Mutating /\ <<op.method, <<op.root, op.leaf>>>> \notin READ_ONLY_POSTS
           mark(op) == [op EXCEPT !.marked = write(op)]
           e == Marked(d)
<1>1. e = [d EXCEPT !.ops = {mark(op) : op \in @}]
  BY DEF Marked
<1>2. DOMAIN e = {"ops", "schemas"} /\ e.ops = {mark(op) : op \in d.ops} /\ e.schemas = d.schemas
  <2> HIDE DEF mark, e
  <2> QED
    BY <1>1 DEF Sound
<1>3. ASSUME NEW op \in d.ops
      PROVE  /\ OpShape(mark(op)) /\ mark(op).root = op.root /\ mark(op).leaf = op.leaf
             /\ mark(op).method = op.method /\ mark(op).refs = op.refs /\ mark(op).inputs = op.inputs /\ mark(op).notes = op.notes
             /\ mark(op).marked = write(op)
  <2>1. OpShape(op)
    BY DEF Sound, OpShape
  <2> HIDE DEF write
  <2> QED
    BY <2>1 DEF OpShape
<1>4. ASSUME NEW op \in d.ops
      PROVE  /\ mark(op).root # "admin" /\ mark(op).method \in Methods /\ Advised(mark(op))
             /\ mark(op).marked <=> write(mark(op))
  <2>1. op.root # "admin" /\ op.method \in Methods /\ Advised(op)
    BY DEF Sound
  <2>2. Advised(mark(op))
    <3> HIDE DEF mark
    <3> QED
      BY <1>3, <2>1 DEF Advised, Path
  <2>3. write(mark(op)) <=> write(op)
    <3> HIDE DEF mark
    <3> QED
      BY <1>3
  <2>4. mark(op).marked <=> write(mark(op))
    <3>1. mark(op).marked = write(op)
      BY <1>3, Zenon
    <3> HIDE DEF mark, write
    <3> QED
      BY <2>3, <3>1, Zenon
  <2>5. mark(op).root # "admin" /\ mark(op).method \in Methods
    <3> HIDE DEF mark
    <3> QED
      BY <1>3, <2>1
  <2> QED
    BY <2>2, <2>4, <2>5, Zenon
<1>5. RefsOf(e.ops) \subseteq RefsOf(d.ops)
  <2>1. ASSUME NEW new \in e.ops
        PROVE  \E op \in d.ops : new.refs = op.refs
    <3> HIDE DEF mark, e
    <3> QED
      BY <1>2, <1>3
  <2> HIDE DEF mark, e
  <2> QED
    BY <2>1 DEF RefsOf
<1>6. Whole(e) /\ Hidden \cap DOMAIN e.schemas = {}
  <2>1. Whole(d) /\ Hidden \cap DOMAIN d.schemas = {} /\ e.schemas = d.schemas
    BY <1>2 DEF Sound
  <2> HIDE DEF mark, e
  <2> QED
    BY <1>5, <2>1 DEF Whole
<1>7. ASSUME NEW s \in Services
      PROVE  Shows(e, s)
  <2>1. PICK op \in d.ops : op.root \in Roots(s) /\ op.leaf # "healthz"
    BY DEF Sound, Shows
  <2>2. mark(op) \in e.ops
    <3> HIDE DEF mark, e
    <3> QED
      BY <1>2
  <2> HIDE DEF mark, e
  <2> QED
    BY <1>3, <2>1, <2>2 DEF Shows
<1>8. ASSUME NEW new \in e.ops
      PROVE  /\ OpShape(new) /\ new.root # "admin" /\ new.method \in Methods /\ Advised(new)
             /\ new.marked <=> write(new)
  <2>1. PICK op \in d.ops : new = mark(op)
    <3> HIDE DEF mark, e
    <3> QED
      BY <1>2
  <2> HIDE DEF mark, e, write
  <2> QED
    BY <1>3, <1>4, <2>1, Zenon
<1>9. Sound(e)
  <2> HIDE DEF mark, e
  <2> QED
    BY <1>2, <1>6, <1>7, <1>8 DEF Sound, OpShape
<1>10. ASSUME NEW new \in e.ops
       PROVE  new.marked <=> new.method \in Mutating /\ <<new.method, Path(new)>> \notin READ_ONLY_POSTS
  BY <1>8, Zenon DEF Path
<1> QED
  BY <1>9, <1>10, Zenon

-----------------------------------------------------------------------------
(* Both pages                                                               *)

(* The walk keeps the document sound. *)
WalkSound(w) ==
  DOMAIN w = {"stage", "doc", "age"} /\ w.stage \in Services \cup {"done", "error"} /\ Sound(w.doc)

LEMMA PassSound ==
  ASSUME DatedRight, NEW w, WalkSound(w), NEW s \in Services
  PROVE  WalkSound(Pass(w, s, cache))
<1>1. CASE w.stage # "done"
  BY <1>1 DEF Pass
<1>2. CASE w.stage = "done" /\ ~Fresh(cache, s)
  <2>1. Pass(w, s, cache) = [w EXCEPT !.stage = s]
    BY <1>2 DEF Pass
  <2> QED
    BY <2>1 DEF WalkSound
<1>3. CASE w.stage = "done" /\ Fresh(cache, s) /\ cache[s].spec = Garbled
  <2>1. Pass(w, s, cache) = [w EXCEPT !.stage = "error"]
    BY <1>3 DEF Pass
  <2> QED
    BY <2>1 DEF WalkSound
<1>4. CASE w.stage = "done" /\ Fresh(cache, s) /\ cache[s].spec # Garbled
  <2>1. cache[s].spec \in Outcomes(s)
    BY <1>4 DEF DatedRight, Fresh
  <2>2. Sound(Merge(s, cache[s].spec, w.doc))
    BY <1>4, <2>1, MergeSound DEF WalkSound
  <2>3. Pass(w, s, cache) = [stage |-> "done", doc |-> Merge(s, cache[s].spec, w.doc),
                             age |-> Older(AgeOf(s, cache[s].spec), w.age)]
    BY <1>4 DEF Pass
  <2> QED
    BY <2>2, <2>3 DEF WalkSound
<1> QED
  BY <1>1, <1>2, <1>3, <1>4

LEMMA WalkIsSound ==
  ASSUME DatedRight, NEW at \in 0..Len(Order), NEW d, NEW a, Sound(d)
  PROVE  WalkSound(Walk(at, d, a, cache))
<1>0. PICK w : Unfolds(w, at, d, a, cache)
  BY WalkUnfolds, Zenon
<1>1. /\ w[at] = Beginning(d, a)
      /\ \A n \in Nat : at <= n /\ n < Len(Order) => w[n + 1] = Pass(w[n], Order[n + 1], cache)
      /\ Walk(at, d, a, cache) = w[Len(Order)]
  BY <1>0 DEF Unfolds
<1> DEFINE S == {n \in Nat : WalkSound(w[n])}
<1>2. at \in S
  BY <1>1 DEF WalkSound, Beginning
<1>3. ASSUME NEW n \in Nat, at <= n, n < Len(Order), n \in S
      PROVE  n + 1 \in S
  <2>1. Order[n + 1] \in Services
    BY <1>3, Ordered
  <2>2. w[n + 1] = Pass(w[n], Order[n + 1], cache)
    BY <1>1, <1>3
  <2> QED
    BY <1>3, <2>1, <2>2, PassSound
<1>4. at \in Nat /\ Len(Order) \in Nat /\ at <= Len(Order)
  BY Ordered
<1>5. Len(Order) \in S
  <2> HIDE DEF S
  <2> QED
    BY <1>2, <1>3, <1>4, UpTo
<1> QED
  BY <1>1, <1>5

(* Documents, for one build. *)
Paged(r) ==
  /\ stage[r] \in Services \cup {"done"} => Sound(doc[r])
  /\ stage[r] = "done" => \A op \in doc[r].ops :
       op.marked <=> op.method \in Mutating /\ <<op.method, Path(op)>> \notin READ_ONLY_POSTS
  /\ stage[r] = "admin" => doc[r] = Filtered(OwnDoc, TRUE)

LEMMA PagedIs == Documents <=> \A r \in Requests : Paged(r)
BY Zenon DEF Documents, Paged, Served

LEMMA PagedNext ==
  ASSUME \A r \in Requests : Paged(r)'
  PROVE  Documents'
BY Zenon DEF Documents, Paged, Served

PagesInv == AgesInv /\ Documents

LEMMA PagedKept ==
  ASSUME Documents, NEW r \in Requests, stage'[r] = stage[r], doc'[r] = doc[r]
  PROVE  Paged(r)'
<1>1. Paged(r)
  BY PagedIs
<1> QED
  BY <1>1, Zenon DEF Paged

LEMMA ContinuePaged ==
  ASSUME PagesInv, NEW r \in Requests, NEW at \in 0..Len(Order), NEW d, NEW a, Sound(d),
         Continue(r, at, d, a, cache)
  PROVE  Documents'
<1> DEFINE w == Walk(at, d, a, cache)
<1>1. WalkSound(w)
  BY WalkIsSound DEF PagesInv, AgesInv
<1>2. /\ stage' = [stage EXCEPT ![r] = w.stage]
      /\ doc' = [doc EXCEPT ![r] = IF w.stage = "done" THEN Marked(w.doc) ELSE w.doc]
  BY DEF Continue
<1>3. w.stage \in Services \cup {"done", "error"} /\ Sound(w.doc)
  <2> HIDE DEF w
  <2> QED
    BY <1>1 DEF WalkSound
<1> HIDE DEF w
<1>4. stage \in [Requests -> Services \cup {"new", "admin", "done", "error"}] /\ DOMAIN doc = Requests
  BY DEF PagesInv, AgesInv, TypeOK
<1>5. /\ stage'[r] = w.stage /\ doc'[r] = (IF w.stage = "done" THEN Marked(w.doc) ELSE w.doc)
      /\ \A q \in Requests \ {r} : stage'[q] = stage[q] /\ doc'[q] = doc[q]
  BY <1>2, <1>4
<1>6. "done" \notin Services /\ "admin" \notin Services
  BY Ordered
<1>7. Paged(r)'
  <2>1. CASE w.stage = "done"
    <3>1. stage'[r] = "done" /\ doc'[r] = Marked(w.doc)
      BY <1>5, <2>1
    <3>2. Sound(doc'[r]) /\ \A op \in doc'[r].ops :
            op.marked <=> op.method \in Mutating /\ <<op.method, Path(op)>> \notin READ_ONLY_POSTS
      BY <1>3, <3>1, MarkedIs, Zenon
    <3> QED
      BY <3>1, <3>2, Zenon DEF Paged
  <2>2. CASE w.stage # "done"
    <3>1. stage'[r] # "done" /\ stage'[r] # "admin" /\ Sound(doc'[r])
      BY <1>3, <1>5, <1>6, <2>2
    <3> QED
      BY <3>1, Zenon DEF Paged
  <2> QED
    BY <2>1, <2>2
<1>8. ASSUME NEW q \in Requests \ {r}
      PROVE  Paged(q)'
  BY <1>5, PagedKept DEF PagesInv
<1> QED
  BY <1>7, <1>8, PagedNext

LEMMA InitPaged ==
  ASSUME Init
  PROVE  PagesInv
<1>1. \A r \in Requests : stage[r] = "new"
  BY DEF Init
<1>2. "new" \notin Services
  BY Ordered
<1>3. Documents
  BY <1>1, <1>2 DEF Documents, Served
<1> QED
  BY <1>3, InitDated DEF PagesInv

LEMMA StepPaged ==
  ASSUME PagesInv, [Next]_vars
  PROVE  PagesInv'
<1>1. AgesInv'
  BY StepDated DEF PagesInv
<1>2. ASSUME UNCHANGED <<stage, doc>>
      PROVE  Documents'
  BY <1>2, PagedKept, PagedNext DEF PagesInv
<1>3. ASSUME NEW r \in Requests, PublicDocs(r)
      PROVE  Documents'
  <2>1. 0 \in 0..Len(Order)
    BY Ordered
  <2>2. Continue(r, 0, Filtered(OwnDoc, FALSE), 0, cache)
    BY <1>3 DEF PublicDocs
  <2> QED
    BY <2>1, <2>2, PublicPageBegins, ContinuePaged
<1>4. ASSUME NEW r \in Requests, AdminDocs(r)
      PROVE  Documents'
  <2>1. stage' = [stage EXCEPT ![r] = "admin"] /\ doc' = [doc EXCEPT ![r] = Filtered(OwnDoc, TRUE)]
    BY <1>4 DEF AdminDocs
  <2>2. /\ stage'[r] = "admin" /\ doc'[r] = Filtered(OwnDoc, TRUE)
        /\ \A q \in Requests \ {r} : stage'[q] = stage[q] /\ doc'[q] = doc[q]
    BY <2>1 DEF PagesInv, AgesInv, TypeOK
  <2>3. "admin" \notin Services
    BY Ordered
  <2>4. Paged(r)'
    BY <2>2, <2>3 DEF Paged
  <2> QED
    BY <2>2, <2>4, PagedKept, PagedNext DEF PagesInv
<1>5. ASSUME NEW r \in Requests, FetchDone(r)
      PROVE  Documents'
  <2>1. stage[r] \in Services /\ fetch[r].got # Unread
    BY <1>5 DEF FetchDone
  <2>2. CASE stage' = [stage EXCEPT ![r] = "error"] /\ UNCHANGED <<fetch, doc, age>>
    <3>1. stage'[r] = "error" /\ \A q \in Requests \ {r} : stage'[q] = stage[q] /\ doc'[q] = doc[q]
      BY <2>2 DEF PagesInv, AgesInv, TypeOK
    <3>2. "error" \notin Services
      BY Ordered
    <3>3. Paged(r)'
      BY <3>1, <3>2 DEF Paged
    <3> QED
      BY <3>1, <3>3, PagedKept, PagedNext DEF PagesInv
  <2>3. CASE fetch[r].got # Garbled
             /\ Continue(r, Place(stage[r]), Merge(stage[r], fetch[r].got, doc[r]),
                         Older(AgeOf(stage[r], fetch[r].got), age[r]), cache)
    <3>1. fetch[r].got \in Outcomes(stage[r])
      BY <2>1, Parts DEF PagesInv, AgesInv, FetchDated
    <3>2. Sound(doc[r])
      BY <2>1, PagedIs DEF PagesInv, Paged
    <3>3. Sound(Merge(stage[r], fetch[r].got, doc[r]))
      BY <2>1, <2>3, <3>1, <3>2, MergeSound
    <3>4. Place(stage[r]) \in 0..Len(Order)
      BY <2>1, Placed
    <3> QED
      BY <2>3, <3>3, <3>4, ContinuePaged
  <2> QED
    BY <1>5, <2>2, <2>3 DEF FetchDone
<1>6. ASSUME NEW r \in Requests, ServiceAnswers(r) \/ FetchFails(r)
      PROVE  Documents'
  BY <1>2, <1>6 DEF ServiceAnswers, FetchFails
<1>7. ASSUME (\E s \in Services : Publish(s)) \/ Tick \/ UNCHANGED vars
      PROVE  Documents'
  BY <1>2, <1>7 DEF Publish, Tick, vars
<1> QED
  BY <1>1, <1>3, <1>4, <1>5, <1>6, <1>7 DEF Next, PagesInv

LEMMA Blocks ==
  ASSUME Documents
  PROVE  WritesBlocked
<1> SUFFICES ASSUME NEW r \in Requests, stage[r] = "done", NEW op \in doc[r].ops
             PROVE  /\ op.marked <=> op.method # "get" /\ ~(op.method = "post" /\ Path(op) \in ReadPosts)
                    /\ Advised(op)
  BY Zenon DEF WritesBlocked, Served
<1>1. /\ Sound(doc[r])
      /\ op.marked <=> op.method \in Mutating /\ <<op.method, Path(op)>> \notin READ_ONLY_POSTS
  BY PagedIs, Zenon DEF Paged
<1>2. op.method \in Methods /\ Advised(op)
  BY <1>1 DEF Sound
<1>3. op.method \in Mutating <=> op.method # "get"
  BY <1>2 DEF Methods, Mutating
<1>4. <<op.method, Path(op)>> \in READ_ONLY_POSTS <=> op.method = "post" /\ Path(op) \in ReadPosts
  BY DEF READ_ONLY_POSTS, ReadPosts
<1> QED
  BY <1>1, <1>2, <1>3, <1>4, Zenon

(* The public page shows no admin route and no model only they use, and the *)
(* admin page nothing else, whatever the services publish and whenever.     *)
THEOREM PagesAreApart == Spec => []AdminApart
<1>1. PagesInv => AdminApart
  <2> SUFFICES ASSUME PagesInv, NEW r \in Requests
               PROVE  /\ stage[r] = "done" => \A op \in doc[r].ops : op.root # "admin"
                      /\ stage[r] = "done" => Hidden \cap DOMAIN doc[r].schemas = {}
                      /\ stage[r] = "admin" => \A op \in doc[r].ops : op.root = "admin"
    BY DEF AdminApart, Served
  <2>1. Paged(r)
    BY PagedIs DEF PagesInv
  <2> QED
    BY <2>1, AdminPageIsApart DEF Paged, Sound
<1> QED
  BY <1>1, InitPaged, StepPaged, PTL DEF Spec

(* Every reference of a served document resolves, if those of each published*)
(* spec do.                                                                 *)
THEOREM ReferencesResolve == Spec => []RefsResolve
<1>1. PagesInv => RefsResolve
  <2> SUFFICES ASSUME PagesInv, NEW r \in Requests, stage[r] \in {"done", "admin"}
               PROVE  Whole(doc[r])
    BY DEF RefsResolve
  <2>1. Paged(r)
    BY PagedIs DEF PagesInv
  <2> QED
    BY <2>1, AdminPageIsApart DEF Paged, Sound
<1> QED
  BY <1>1, InitPaged, StepPaged, PTL DEF Spec

(* "Try it out" is off for the writes and on for the reads; what starts a   *)
(* job comes with its warning, every media type of a body that has a        *)
(* harmless example with it, and a published dry_run with its default.      *)
THEOREM WritesAreBlocked == Spec => []WritesBlocked
<1>1. PagesInv => WritesBlocked
  BY Blocks DEF PagesInv
<1> QED
  BY <1>1, InitPaged, StepPaged, PTL DEF Spec

(* No proxy vanishes from the public page. *)
THEOREM EveryProxyIsShown == Spec => []ProxiesShown
<1>1. PagesInv => ProxiesShown
  <2> SUFFICES ASSUME PagesInv, NEW r \in Requests, stage[r] = "done"
               PROVE  \A s \in Services : Shows(doc[r], s)
    BY DEF ProxiesShown, Served
  <2>1. Paged(r)
    BY PagedIs DEF PagesInv
  <2> QED
    BY <2>1 DEF Paged, Sound
<1> QED
  BY <1>1, InitPaged, StepPaged, PTL DEF Spec
=============================================================================
