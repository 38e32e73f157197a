---------------------------- MODULE GatewayProofs ----------------------------
(* Proofs about Gateway, for any calls, keys, restrictions and number of    *)
(* requests and outages.  They rest on where a request stands: what its     *)
(* phase and its answer say about the work done for it.                     *)
EXTENDS Gateway, WellFoundedInduction, SequenceTheorems, TLAPS

USE TokensOK, BoundOK

Before == {"new", "connecting", "backoff"}

(* Nothing was delivered before the handler waits for an answer; while it   *)
(* waits the work is due, and it is done once an answer is on its way.      *)
Standing(r) ==
  /\ phase[r] \in Before => work[r] = 0 /\ r \notin inbox
  /\ phase[r] = "waiting" => work[r] = 0 /\ r \in inbox
  /\ phase[r] = "answered" => work[r] = 1 /\ r \notin inbox
  /\ work[r] \in {0, 1} /\ (r \in inbox => work[r] = 0)

(* The attempts are counted from one, and a retry waits for the second.     *)
Counted(r) ==
  /\ phase[r] \notin {"new", "done"} => tries[r] \in {1, 2}
  /\ phase[r] = "backoff" => tries[r] = 1

Truthful(r) ==
  /\ answer[r] = "none" <=> phase[r] # "done"
  /\ answer[r] \in TurnedAway => work[r] = 0 /\ r \notin inbox
  /\ answer[r] \in {"upstream", "500"} => work[r] = 1

Accounted == \A r \in Requests : Standing(r) /\ Counted(r) /\ Truthful(r)

IInv == TypeOK /\ Accounted

Phases == {"new", "connecting", "backoff", "waiting", "answered", "broken", "done"}
Answers == {"none", "unrouted", "error", "401", "403", "500", "upstream", "unavailable", "timeout", "failed"}

-----------------------------------------------------------------------------
(* Induction, stated with sets                                              *)

LEMMA LeastNat ==
  ASSUME NEW T, T \subseteq Nat, T # {}
  PROVE  \E x \in T : \A y \in T : x <= y
<1> DEFINE less == {ss \in Nat \X Nat : ss[1] < ss[2]}
<1>0. IsWellFoundedOn(less, Nat)
  BY NatLessThanWellFounded DEF OpToRel
<1> HIDE DEF less
<1>1. PICK x \in T : \A y \in T : ~(<<y, x>> \in less)
  BY <1>0, WFMin
<1>2. \A y \in T : ~(y < x)
  BY <1>1 DEF less
<1> QED
  BY <1>2

(* What holds of zero and of the successor of what it holds of, holds of    *)
(* every natural number.                                                    *)
LEMMA Induction ==
  ASSUME NEW S, 0 \in S, \A n \in Nat : n \in S => n + 1 \in S
  PROVE  Nat \subseteq S
<1> SUFFICES ASSUME Nat \ S # {} PROVE FALSE
  OBVIOUS
<1>1. PICK x \in Nat \ S : \A y \in Nat \ S : x <= y
  BY LeastNat
<1>2. x # 0 /\ x - 1 \in Nat
  BY <1>1
<1> QED
  BY <1>1, <1>2

Paths == Seq(Seq(Pieces))
Texts == Seq(Pieces \cup {"/"})

(* The text of a path one segment longer.                                   *)
Under(text, segment) == text \o <<"/">> \o segment

(* The recursion of Text has a solution: the text of every beginning.       *)
Solves(f, p) ==
  f = [n \in 0..Len(p) |-> IF n = 0 THEN <<>> ELSE Under(f[n - 1], p[n])]

LEMMA Solvable ==
  ASSUME NEW p \in Paths
  PROVE  \E f : Solves(f, p)
<1> DEFINE Partly(f, k) ==
      f = [n \in 0..k |-> IF n = 0 THEN <<>> ELSE Under(f[n - 1], p[n])]
<1> DEFINE D == {k \in Nat : \E f : Partly(f, k)}
<1>1. 0 \in D
  <2> DEFINE f == [n \in 0..0 |-> <<>>]
  <2>1. Partly(f, 0)
    OBVIOUS
  <2> HIDE DEF f
  <2> QED
    BY <2>1
<1>2. ASSUME NEW k \in Nat, k \in D
      PROVE  k + 1 \in D
  <2>1. PICK f : Partly(f, k)
    BY <1>2, Zenon
  <2> DEFINE g == [n \in 0..k + 1 |-> IF n = k + 1 THEN Under(f[k], p[k + 1]) ELSE f[n]]
  <2>2. ASSUME NEW n \in 0..k + 1
        PROVE  g[n] = IF n = 0 THEN <<>> ELSE Under(g[n - 1], p[n])
    <3>1. CASE n = k + 1
      <4>1. n # 0 /\ n - 1 = k /\ g[n - 1] = f[k] /\ g[n] = Under(f[k], p[k + 1])
        BY <3>1
      <4> QED
        BY <3>1, <4>1
    <3>2. CASE n # k + 1
      <4>1. n \in 0..k
        BY <3>2
      <4>2. f[n] = IF n = 0 THEN <<>> ELSE Under(f[n - 1], p[n])
        BY <2>1, <4>1
      <4>3. n # 0 => g[n - 1] = f[n - 1]
        BY <4>1
      <4> QED
        BY <4>1, <4>2, <4>3, <3>2
    <3> QED
      BY <3>1, <3>2
  <2>3. g = [n \in 0..k + 1 |-> IF n = 0 THEN <<>> ELSE Under(g[n - 1], p[n])]
    <3> HIDE DEF g
    <3>1. g = [n \in 0..k + 1 |-> g[n]]
      BY DEF g
    <3> QED
      BY <2>2, <3>1
  <2>4. Partly(g, k + 1)
    BY <2>3
  <2> HIDE DEF g
  <2> QED
    BY <2>4
<1>3. Len(p) \in D
  <2> HIDE DEF D
  <2> QED
    BY <1>1, <1>2, Induction DEF Paths
<1> QED
  BY <1>3 DEF Solves

LEMMA TextIs ==
  ASSUME NEW p \in Paths
  PROVE  \E f : Solves(f, p) /\ Text(p) = f[Len(p)]
<1> DEFINE f == CHOOSE f : Solves(f, p)
<1>1. Solves(f, p)
  BY Solvable, Zenon
<1>2. Text(p) = f[Len(p)]
  BY DEF Text, Solves, Under
<1> HIDE DEF f
<1> QED
  BY <1>1, <1>2

(* Solutions agree on what their paths share, and their values are texts.   *)
LEMMA SolvesAt ==
  ASSUME NEW p \in Paths, NEW f, Solves(f, p)
  PROVE  /\ f[0] = <<>>
         /\ \A n \in Nat : n < Len(p) => f[n + 1] = Under(f[n], p[n + 1])
<1>0. Len(p) \in Nat
  BY DEF Paths
<1>1. ASSUME NEW n \in 0..Len(p)
      PROVE  f[n] = IF n = 0 THEN <<>> ELSE Under(f[n - 1], p[n])
  BY DEF Solves
<1>2. f[0] = <<>>
  BY <1>0, <1>1
<1>3. ASSUME NEW n \in Nat, n < Len(p)
      PROVE  f[n + 1] = Under(f[n], p[n + 1])
  <2>1. n + 1 \in 0..Len(p) /\ n + 1 # 0 /\ (n + 1) - 1 = n
    BY <1>0, <1>3
  <2> QED
    BY <1>1, <2>1
<1> QED
  BY <1>2, <1>3

LEMMA Concat ==
  ASSUME NEW t \in Texts, NEW v \in Texts
  PROVE  /\ t \o v \in Texts /\ Len(t) \in Nat /\ Len(v) \in Nat
         /\ Len(t \o v) = Len(t) + Len(v)
         /\ \A i \in 1..Len(t) : (t \o v)[i] = t[i]
         /\ \A i \in 1..Len(v) : (t \o v)[Len(t) + i] = v[i]
<1>1. /\ t \o v \in Texts /\ Len(t \o v) = Len(t) + Len(v)
      /\ \A i \in 1..Len(t) + Len(v) : (t \o v)[i] = IF i <= Len(t) THEN t[i] ELSE v[i - Len(t)]
  BY ConcatProperties DEF Texts
<1>2. Len(t) \in Nat /\ Len(v) \in Nat
  BY DEF Texts
<1>3. ASSUME NEW i \in 1..Len(v)
      PROVE  (t \o v)[Len(t) + i] = v[i]
  <2>1. Len(t) + i \in 1..Len(t) + Len(v) /\ ~(Len(t) + i <= Len(t)) /\ Len(t) + i - Len(t) = i
    BY <1>2
  <2> QED
    BY <1>1, <2>1
<1>4. ASSUME NEW i \in 1..Len(t)
      PROVE  (t \o v)[i] = t[i]
  <2>1. i \in 1..Len(t) + Len(v) /\ i <= Len(t)
    BY <1>2
  <2> QED
    BY <1>1, <2>1
<1> QED
  BY <1>1, <1>2, <1>3, <1>4

LEMMA Slash == <<"/">> \in Texts /\ Len(<<"/">>) = 1 /\ <<"/">>[1] = "/"
  BY DEF Texts

LEMMA Joined ==
  /\ <<>> \in Texts
  /\ \A s \in Seq(Pieces) : s \in Texts
  /\ \A t, s \in Texts : Under(t, s) \in Texts
<1>1. <<>> \in Texts
  BY DEF Texts
<1>2. ASSUME NEW s \in Seq(Pieces)
      PROVE  s \in Texts
  BY SeqMonotonic DEF Texts
<1>3. ASSUME NEW t \in Texts, NEW s \in Texts
      PROVE  Under(t, s) \in Texts
  <2>1. t \o <<"/">> \in Texts
    BY Slash, Concat
  <2> QED
    BY <2>1, Concat DEF Under
<1> QED
  BY <1>1, <1>2, <1>3

LEMMA SolvesType ==
  ASSUME NEW p \in Paths, NEW f, Solves(f, p)
  PROVE  \A n \in 0..Len(p) : f[n] \in Texts
<1> DEFINE D == {n \in Nat : n <= Len(p) => f[n] \in Texts}
<1>0. Len(p) \in Nat /\ \A i \in 1..Len(p) : p[i] \in Texts
  BY Joined DEF Paths
<1>1. 0 \in D
  <2>1. f[0] = <<>>
    BY SolvesAt
  <2> QED
    BY <2>1, Joined
<1>2. ASSUME NEW n \in Nat, n \in D
      PROVE  n + 1 \in D
  <2>1. CASE n + 1 <= Len(p)
    <3>1. f[n] \in Texts /\ f[n + 1] = Under(f[n], p[n + 1])
      BY <1>0, <1>2, <2>1, SolvesAt
    <3>2. p[n + 1] \in Texts
      BY <1>0, <2>1, Joined
    <3>3. f[n + 1] \in Texts
      BY <3>1, <3>2, Joined
    <3> QED
      BY <3>3
  <2>2. CASE ~(n + 1 <= Len(p))
    BY <2>2
  <2> QED
    BY <2>1, <2>2
<1> HIDE DEF D
<1>3. Nat \subseteq D
  BY <1>1, <1>2, Induction
<1> QED
  BY <1>0, <1>3 DEF D

LEMMA SolvesAgree ==
  ASSUME NEW p \in Paths, NEW f, Solves(f, p), NEW s \in Seq(Pieces),
         NEW g, Solves(g, Append(p, s))
  PROVE  g[Len(p)] = f[Len(p)]
<1> DEFINE q == Append(p, s)
           D == {n \in Nat : n <= Len(p) => g[n] = f[n]}
<1>0. /\ Len(p) \in Nat /\ q \in Paths /\ Len(q) = Len(p) + 1
      /\ \A i \in 1..Len(p) : q[i] = p[i]
  BY DEF Paths
<1> HIDE DEF q
<1>1. 0 \in D
  BY <1>0, SolvesAt DEF q
<1>2. ASSUME NEW n \in Nat, n \in D
      PROVE  n + 1 \in D
  <2>1. CASE n + 1 <= Len(p)
    <3>1. g[n] = f[n] /\ n < Len(p) /\ n < Len(q) /\ q[n + 1] = p[n + 1]
      BY <1>0, <1>2, <2>1
    <3>2. f[n + 1] = Under(f[n], p[n + 1])
      BY <3>1, SolvesAt
    <3>3. g[n + 1] = Under(g[n], q[n + 1])
      BY <3>1, <1>0, SolvesAt DEF q
    <3> QED
      BY <3>1, <3>2, <3>3
  <2>2. CASE ~(n + 1 <= Len(p))
    BY <2>2
  <2> QED
    BY <2>1, <2>2
<1> HIDE DEF D
<1>3. Nat \subseteq D
  BY <1>1, <1>2, Induction
<1> QED
  BY <1>0, <1>3 DEF D

LEMMA TextOf ==
  /\ Text(<<>>) = <<>>
  /\ \A p \in Paths : Text(p) \in Texts
  /\ \A p \in Paths, s \in Seq(Pieces) : Text(Append(p, s)) = Under(Text(p), s)
<1>1. Text(<<>>) = <<>>
  <2>1. <<>> \in Paths /\ Len(<<>>) = 0
    BY DEF Paths
  <2> QED
    BY <2>1, TextIs, SolvesAt
<1>2. ASSUME NEW p \in Paths
      PROVE  Text(p) \in Texts
  BY TextIs, SolvesType DEF Paths
<1>3. ASSUME NEW p \in Paths, NEW s \in Seq(Pieces)
      PROVE  Text(Append(p, s)) = Under(Text(p), s)
  <2>0. Append(p, s) \in Paths /\ Len(p) \in Nat /\ Len(Append(p, s)) = Len(p) + 1
        /\ Append(p, s)[Len(p) + 1] = s
    BY DEF Paths
  <2>1. PICK f : Solves(f, p) /\ Text(p) = f[Len(p)]
    BY TextIs
  <2>2. PICK g : Solves(g, Append(p, s)) /\ Text(Append(p, s)) = g[Len(p) + 1]
    BY <2>0, TextIs
  <2>3. g[Len(p) + 1] = Under(g[Len(p)], Append(p, s)[Len(p) + 1])
    <3> DEFINE q == Append(p, s)
    <3>1. q \in Paths /\ Solves(g, q) /\ Len(p) < Len(q)
      BY <2>0, <2>2
    <3> HIDE DEF q
    <3>2. g[Len(p) + 1] = Under(g[Len(p)], q[Len(p) + 1])
      BY <2>0, <3>1, SolvesAt
    <3> QED
      BY <3>2 DEF q
  <2>4. g[Len(p)] = f[Len(p)]
    BY <2>1, <2>2, SolvesAgree
  <2> QED
    BY <2>0, <2>1, <2>2, <2>3, <2>4
<1> QED
  BY <1>1, <1>2, <1>3

(* A property of the empty sequence that appending keeps holds of all.      *)
LEMMA SeqInduction ==
  ASSUME NEW S, NEW G, <<>> \in G,
         \A s \in Seq(S), e \in S : s \in G => Append(s, e) \in G
  PROVE  Seq(S) \subseteq G
<1> DEFINE D == {n \in Nat : \A s \in Seq(S) : Len(s) = n => s \in G}
<1>1. 0 \in D
  <2>1. \A s \in Seq(S) : Len(s) = 0 => s = <<>>
    OBVIOUS
  <2> QED
    BY <2>1
<1>2. ASSUME NEW n \in Nat, n \in D
      PROVE  n + 1 \in D
  <2> SUFFICES ASSUME NEW s \in Seq(S), Len(s) = n + 1
               PROVE  s \in G
    OBVIOUS
  <2> DEFINE front == SubSeq(s, 1, n)
  <2>1. front \in Seq(S) /\ Len(front) = n /\ s[n + 1] \in S /\ s = Append(front, s[n + 1])
    OBVIOUS
  <2> HIDE DEF front
  <2>2. front \in G
    BY <1>2, <2>1
  <2> QED
    BY <2>1, <2>2
<1> HIDE DEF D
<1>3. Nat \subseteq D
  BY <1>1, <1>2, Induction
<1> QED
  BY <1>3 DEF D

-----------------------------------------------------------------------------
(* Prefixes, position by position.                                          *)
LEMMA PrefixIs ==
  ASSUME NEW S, NEW s \in Seq(S), NEW t \in Seq(S)
  PROVE  IsPrefix(s, t) <=> Len(s) <= Len(t) /\ \A i \in 1..Len(s) : s[i] = t[i]
<1>0. Len(s) \in Nat /\ Len(t) \in Nat
  OBVIOUS
<1>1. SubSeq(s, 1, Len(s)) = s
  OBVIOUS
<1>2. CASE Len(s) <= Len(t)
  <2> DEFINE u == SubSeq(t, 1, Len(s))
  <2>1. u \in Seq(S) /\ Len(u) = Len(s) /\ \A i \in 1..Len(s) : u[i] = t[i]
    BY <1>0, <1>2
  <2>2. s = u <=> \A i \in 1..Len(s) : s[i] = u[i]
    <3> HIDE DEF u
    <3> QED
      BY <2>1, SeqEqual
  <2> QED
    BY <1>1, <1>2, <2>1, <2>2 DEF IsPrefix
<1>3. CASE ~(Len(s) <= Len(t))
  BY <1>3 DEF IsPrefix
<1> QED
  BY <1>2, <1>3

LEMMA TextPrefix ==
  ASSUME NEW s \in Texts, NEW t \in Texts
  PROVE  IsPrefix(s, t) <=> Len(s) <= Len(t) /\ \A i \in 1..Len(s) : s[i] = t[i]
  BY PrefixIs DEF Texts

LEMMA PathPrefix ==
  ASSUME NEW p \in Paths, NEW q \in Paths
  PROVE  IsPrefix(p, q) <=> Len(p) <= Len(q) /\ \A i \in 1..Len(p) : p[i] = q[i]
  BY PrefixIs DEF Paths

(* Only the slash that joins a segment to a text stands after that text.    *)
LEMMA UnderAt ==
  ASSUME NEW t \in Texts, NEW s \in Seq(Pieces)
  PROVE  LET u == Under(t, s) IN
         /\ Len(u) = Len(t) + 1 + Len(s)
         /\ \A i \in 1..Len(t) : u[i] = t[i]
         /\ u[Len(t) + 1] = "/"
         /\ \A i \in 1..Len(s) : u[Len(t) + 1 + i] = s[i]
         /\ \A i \in Len(t) + 2..Len(u) : u[i] # "/"
<1> DEFINE a == t \o <<"/">>
<1>0. Len(t) \in Nat /\ Len(s) \in Nat /\ s \in Texts
  BY Joined DEF Texts
<1>1. /\ a \in Texts /\ Len(a) = Len(t) + 1
      /\ \A i \in 1..Len(t) : a[i] = t[i]
      /\ a[Len(t) + 1] = "/"
  BY <1>0, Slash, Concat
<1> HIDE DEF a
<1>2. /\ Len(a \o s) = Len(a) + Len(s)
      /\ \A i \in 1..Len(a) : (a \o s)[i] = a[i]
      /\ \A i \in 1..Len(s) : (a \o s)[Len(a) + i] = s[i]
  BY <1>0, <1>1, Concat
<1>3. Under(t, s) = a \o s
  BY DEF Under, a
<1>4. \A i \in 1..Len(s) : s[i] # "/"
  BY CallsOK
<1> DEFINE u == Under(t, s)
<1>5. Len(u) = Len(t) + 1 + Len(s)
  BY <1>0, <1>1, <1>2, <1>3
<1>6. \A i \in 1..Len(t) + 1 : u[i] = a[i]
  BY <1>0, <1>1, <1>2, <1>3
<1>7. ASSUME NEW i \in 1..Len(s)
      PROVE  u[Len(t) + 1 + i] = s[i]
  BY <1>0, <1>1, <1>2, <1>3
<1>8. ASSUME NEW i \in Len(t) + 2..Len(u)
      PROVE  u[i] # "/"
  <2>1. PICK j \in 1..Len(s) : i = Len(t) + 1 + j
    <3>1. i - (Len(t) + 1) \in 1..Len(s) /\ i = Len(t) + 1 + (i - (Len(t) + 1))
      BY <1>0, <1>5
    <3> QED
      BY <3>1
  <2> QED
    BY <1>4, <1>7, <2>1
<1> HIDE DEF u
<1>9. u[Len(t) + 1] = "/" /\ \A i \in 1..Len(t) : u[i] = t[i]
  BY <1>0, <1>1, <1>6
<1> QED
  BY <1>5, <1>7, <1>8, <1>9 DEF u

LEMMA UnderInjective ==
  ASSUME NEW t \in Texts, NEW s \in Seq(Pieces), NEW v \in Texts, NEW w \in Seq(Pieces),
         Under(t, s) = Under(v, w)
  PROVE  t = v /\ s = w
<1>0. Len(t) \in Nat /\ Len(s) \in Nat /\ Len(v) \in Nat /\ Len(w) \in Nat
  BY DEF Texts
<1> DEFINE u == Under(t, s)
<1>a. /\ Len(u) = Len(t) + 1 + Len(s) /\ u[Len(t) + 1] = "/"
      /\ \A i \in Len(t) + 2..Len(u) : u[i] # "/"
  BY UnderAt
<1>b. /\ Len(u) = Len(v) + 1 + Len(w) /\ u[Len(v) + 1] = "/"
      /\ \A i \in Len(v) + 2..Len(u) : u[i] # "/"
  BY UnderAt
<1>1. Len(t) = Len(v)
  <2> HIDE DEF u
  <2>1. CASE Len(t) < Len(v)
    <3>1. Len(v) + 1 \in Len(t) + 2..Len(u)
      BY <1>0, <1>b, <2>1
    <3> QED
      BY <1>a, <1>b, <3>1
  <2>2. CASE Len(v) < Len(t)
    <3>1. Len(t) + 1 \in Len(v) + 2..Len(u)
      BY <1>0, <1>a, <2>2
    <3> QED
      BY <1>a, <1>b, <3>1
  <2> QED
    BY <1>0, <2>1, <2>2
<1>2. Len(s) = Len(w)
  BY <1>0, <1>1, UnderAt
<1>3. \A i \in 1..Len(t) : t[i] = v[i]
  BY <1>0, <1>1, UnderAt
<1>4. ASSUME NEW i \in 1..Len(s)
      PROVE  s[i] = w[i]
  <2>1. u[Len(t) + 1 + i] = s[i]
    BY UnderAt
  <2>2. u[Len(v) + 1 + i] = w[i]
    BY <1>2, UnderAt
  <2> QED
    BY <1>1, <2>1, <2>2
<1>5. t = v
  BY <1>1, <1>3, SeqEqual DEF Texts
<1>6. s = w
  BY <1>2, <1>4, SeqEqual
<1> QED
  BY <1>5, <1>6

LEMMA LastOf ==
  ASSUME NEW S, NEW p \in Seq(S), p # <<>>
  PROVE  \E q \in Seq(S), e \in S : p = Append(q, e)
<1> DEFINE q == SubSeq(p, 1, Len(p) - 1)
<1>1. Len(p) \in Nat \ {0}
  OBVIOUS
<1>2. q \in Seq(S) /\ p[Len(p)] \in S /\ p = Append(q, p[Len(p)])
  BY <1>1
<1> QED
  BY <1>2

(* A path can be read off its text.                                         *)
LEMMA TextInjective ==
  ASSUME NEW p \in Paths, NEW q \in Paths, Text(p) = Text(q)
  PROVE  p = q
<1> DEFINE G == {r \in Paths : \A o \in Paths : Text(o) = Text(r) => o = r}
<1>0. ASSUME NEW r \in Paths, r # <<>>
      PROVE  Text(r) # <<>>
  <2>1. PICK o \in Paths, s \in Seq(Pieces) : r = Append(o, s)
    BY <1>0, LastOf DEF Paths
  <2>2. Text(r) = Under(Text(o), s) /\ Text(o) \in Texts
    BY <2>1, TextOf
  <2>3. Len(Text(r)) = Len(Text(o)) + 1 + Len(s) /\ Len(Text(o)) \in Nat /\ Len(s) \in Nat
    BY <2>2, UnderAt DEF Texts
  <2> QED
    BY <2>3
<1>1. <<>> \in G
  BY <1>0, TextOf DEF Paths
<1>2. ASSUME NEW r \in Paths, NEW s \in Seq(Pieces), r \in G
      PROVE  Append(r, s) \in G
  <2>0. Append(r, s) \in Paths /\ Append(r, s) # <<>>
    <3>1. Append(r, s) \in Paths
      BY DEF Paths
    <3>2. Len(Append(r, s)) = Len(r) + 1 /\ Len(r) \in Nat
      BY DEF Paths
    <3>3. Append(r, s) # <<>>
      BY <3>2
    <3> QED
      BY <3>1, <3>3
  <2> SUFFICES ASSUME NEW o \in Paths, Text(o) = Text(Append(r, s))
               PROVE  o = Append(r, s)
    BY <2>0
  <2>1. o # <<>>
    BY <1>0, <2>0, TextOf
  <2>2. PICK o1 \in Paths, s1 \in Seq(Pieces) : o = Append(o1, s1)
    BY <2>1, LastOf DEF Paths
  <2>3. Text(o1) = Text(r) /\ s1 = s
    BY <2>2, TextOf, UnderInjective
  <2> QED
    BY <1>2, <2>2, <2>3
<1> HIDE DEF G
<1>3. Paths \subseteq G
  BY <1>1, <1>2, SeqInduction DEF Paths
<1> QED
  BY <1>3 DEF G

(* Up to and including the slash after it, one text begins another, longer  *)
(* by a segment, only where a segment ends.                                 *)
LEMMA Boundary ==
  ASSUME NEW t \in Texts, NEW v \in Texts, NEW s \in Seq(Pieces)
  PROVE  IsPrefix(t \o <<"/">>, Under(v, s)) <=> t = v \/ IsPrefix(t \o <<"/">>, v)
<1> DEFINE a == t \o <<"/">>
           u == Under(v, s)
<1>0. Len(t) \in Nat /\ Len(v) \in Nat /\ Len(s) \in Nat
  BY DEF Texts
<1>1. /\ a \in Texts /\ Len(a) = Len(t) + 1
      /\ \A i \in 1..Len(t) : a[i] = t[i]
      /\ a[Len(t) + 1] = "/"
  BY <1>0, Slash, Concat
<1>2. /\ u \in Texts /\ Len(u) = Len(v) + 1 + Len(s)
      /\ \A i \in 1..Len(v) : u[i] = v[i]
      /\ u[Len(v) + 1] = "/"
      /\ \A i \in Len(v) + 2..Len(u) : u[i] # "/"
  BY UnderAt, Joined
<1> HIDE DEF a, u
<1>3. IsPrefix(a, u) <=> Len(a) <= Len(u) /\ \A i \in 1..Len(a) : a[i] = u[i]
  BY <1>1, <1>2, TextPrefix
<1>4. IsPrefix(a, v) <=> Len(a) <= Len(v) /\ \A i \in 1..Len(a) : a[i] = v[i]
  BY <1>1, TextPrefix
<1>5. ASSUME t = v
      PROVE  IsPrefix(a, u)
  BY <1>0, <1>1, <1>2, <1>3, <1>5
<1>6. ASSUME IsPrefix(a, v)
      PROVE  IsPrefix(a, u)
  BY <1>0, <1>1, <1>2, <1>3, <1>4, <1>6
<1>7. ASSUME IsPrefix(a, u)
      PROVE  t = v \/ IsPrefix(a, v)
  <2>1. Len(a) \in 1..Len(u) /\ u[Len(a)] = "/"
    BY <1>0, <1>1, <1>2, <1>3, <1>7
  <2>2. Len(a) <= Len(v) + 1
    BY <1>0, <1>1, <1>2, <2>1
  <2>3. CASE Len(a) = Len(v) + 1
    <3>1. Len(t) = Len(v) /\ \A i \in 1..Len(t) : t[i] = v[i]
      BY <1>0, <1>1, <1>2, <1>3, <1>7, <2>3
    <3> QED
      BY <3>1, SeqEqual DEF Texts
  <2>4. CASE Len(a) <= Len(v)
    BY <1>0, <1>1, <1>2, <1>3, <1>4, <1>7, <2>4
  <2> QED
    BY <1>0, <1>1, <2>2, <2>3, <2>4
<1> QED
  BY <1>5, <1>6, <1>7 DEF a, u

(* The comparison of texts in auth.py is the one of segments.               *)
LEMMA Segmentwise ==
  ASSUME NEW p \in Paths, NEW q \in Paths
  PROVE  Text(q) = Text(p) \/ IsPrefix(Text(p) \o <<"/">>, Text(q)) <=> IsPrefix(p, q)
<1> DEFINE Begins(r) == Text(r) = Text(p) \/ IsPrefix(Text(p) \o <<"/">>, Text(r))
           G == {r \in Paths : Begins(r) <=> IsPrefix(p, r)}
<1>0. Text(p) \in Texts /\ Len(p) \in Nat /\ <<>> \in Paths
  BY TextOf DEF Paths
<1>1. <<>> \in G
  <2>1. IsPrefix(p, <<>>) <=> p = <<>>
    <3>1. IsPrefix(p, <<>>) <=> Len(p) <= Len(<<>>) /\ \A i \in 1..Len(p) : p[i] = <<>>[i]
      BY <1>0, PathPrefix
    <3>2. Len(<<>>) = 0 /\ (Len(p) = 0 <=> p = <<>>)
      BY DEF Paths
    <3> QED
      BY <1>0, <3>1, <3>2
  <2>2. Text(<<>>) = Text(p) <=> p = <<>>
    BY <1>0, TextInjective
  <2>3. ~IsPrefix(Text(p) \o <<"/">>, <<>>)
    <3>1. Len(Text(p) \o <<"/">>) = Len(Text(p)) + 1 /\ Len(Text(p)) \in Nat /\ Len(<<>>) = 0
      BY <1>0 DEF Texts
    <3> QED
      BY <3>1 DEF IsPrefix
  <2> QED
    BY <1>0, <2>1, <2>2, <2>3, TextOf
<1>2. ASSUME NEW r \in Paths, NEW s \in Seq(Pieces), r \in G
      PROVE  Append(r, s) \in G
  <2>0. Append(r, s) \in Paths /\ Text(r) \in Texts /\ Text(Append(r, s)) = Under(Text(r), s)
    BY TextOf DEF Paths
  <2>1. Begins(Append(r, s)) <=> p = Append(r, s) \/ Begins(r)
    <3>1. Text(Append(r, s)) = Text(p) <=> p = Append(r, s)
      BY <2>0, TextInjective
    <3>2. IsPrefix(Text(p) \o <<"/">>, Text(Append(r, s)))
            <=> Text(p) = Text(r) \/ IsPrefix(Text(p) \o <<"/">>, Text(r))
      BY <1>0, <2>0, Boundary
    <3> QED
      BY <3>1, <3>2
  <2>2. IsPrefix(p, Append(r, s)) <=> p = Append(r, s) \/ IsPrefix(p, r)
    <3>1. Len(r) \in Nat /\ Len(Append(r, s)) = Len(r) + 1
          /\ \A i \in 1..Len(r) : Append(r, s)[i] = r[i]
      BY DEF Paths
    <3> DEFINE t == Append(r, s)
    <3>2. t \in Paths
      BY <2>0
    <3> HIDE DEF t
    <3>3. IsPrefix(p, t) <=> Len(p) <= Len(t) /\ \A i \in 1..Len(p) : p[i] = t[i]
      BY <3>2, PathPrefix
    <3>4. IsPrefix(p, r) <=> Len(p) <= Len(r) /\ \A i \in 1..Len(p) : p[i] = r[i]
      BY PathPrefix
    <3>5. Len(t) = Len(r) + 1 /\ \A i \in 1..Len(r) : t[i] = r[i]
      BY <3>1 DEF t
    <3>6. ASSUME p = t PROVE IsPrefix(p, t)
      BY <1>0, <3>3, <3>6
    <3>7. ASSUME IsPrefix(p, r) PROVE IsPrefix(p, t)
      BY <1>0, <3>1, <3>3, <3>4, <3>5, <3>7
    <3>8. ASSUME IsPrefix(p, t), Len(p) = Len(t) PROVE p = t
      BY <3>2, <3>3, <3>8, SeqEqual DEF Paths
    <3>9. ASSUME IsPrefix(p, t), Len(p) # Len(t) PROVE IsPrefix(p, r)
      BY <1>0, <3>1, <3>3, <3>4, <3>5, <3>9
    <3> QED
      BY <3>6, <3>7, <3>8, <3>9 DEF t
  <2> QED
    BY <1>2, <2>0, <2>1, <2>2
<1> HIDE DEF G
<1>3. Paths \subseteq G
  BY <1>1, <1>2, SeqInduction DEF Paths
<1> QED
  BY <1>3 DEF G

LEMMA TextStarts ==
  ASSUME NEW q \in Paths
  PROVE  Text(q) # <<>> => Text(q)[1] = "/"
<1> DEFINE G == {r \in Paths : Text(r) # <<>> => Text(r)[1] = "/"}
<1>1. <<>> \in G
  <2>1. <<>> \in Paths
    BY DEF Paths
  <2>2. Text(<<>>) = <<>>
    BY TextOf
  <2> QED
    BY <2>1, <2>2
<1>2. ASSUME NEW r \in Paths, NEW s \in Seq(Pieces), r \in G
      PROVE  Append(r, s) \in G
  <2>0. Append(r, s) \in Paths /\ Text(r) \in Texts /\ Text(Append(r, s)) = Under(Text(r), s)
    BY TextOf DEF Paths
  <2> DEFINE u == Under(Text(r), s)
  <2>1. Len(Text(r)) \in Nat /\ Len(s) \in Nat
    BY <2>0 DEF Texts
  <2>2. /\ Len(u) = Len(Text(r)) + 1 + Len(s)
        /\ \A i \in 1..Len(Text(r)) : u[i] = Text(r)[i]
        /\ u[Len(Text(r)) + 1] = "/"
    BY <2>0, UnderAt
  <2> HIDE DEF u
  <2>3. u[1] = "/"
    <3>1. CASE Text(r) = <<>>
      BY <2>2, <3>1
    <3>2. CASE Text(r) # <<>>
      <4>1. 1 \in 1..Len(Text(r))
        BY <2>0, <3>2 DEF Texts
      <4> QED
        BY <1>2, <2>2, <3>2, <4>1
    <3> QED
      BY <3>1, <3>2
  <2> QED
    BY <2>0, <2>3 DEF u
<1> HIDE DEF G
<1>3. Paths \subseteq G
  BY <1>1, <1>2, SeqInduction DEF Paths
<1> QED
  BY <1>3 DEF G

(* rstrip takes away the slashes a text ends in and nothing else.           *)
LEMMA Stripped ==
  ASSUME NEW t \in Texts, t = <<>> \/ t[Len(t)] # "/", NEW n \in Nat
  PROVE  WithoutTrailingSlashes(t \o [i \in 1..n |-> "/"]) = t
<1> DEFINE slashes == [i \in 1..n |-> "/"]
           u == t \o slashes
           kept == {i \in DOMAIN u : \E j \in i..Len(u) : u[j] # "/"}
<1>1. slashes \in Texts /\ Len(slashes) = n /\ \A i \in 1..n : slashes[i] = "/"
  BY DEF Texts
<1> HIDE DEF slashes
<1>2. /\ u \in Texts /\ Len(u) = Len(t) + n /\ Len(t) \in Nat
      /\ \A i \in 1..Len(t) : u[i] = t[i]
      /\ \A i \in 1..n : u[Len(t) + i] = slashes[i]
  BY <1>1, Concat
<1> HIDE DEF u
<1>3. DOMAIN u = 1..Len(u)
  BY <1>2 DEF Texts
<1>4. \A i \in 1..Len(t) : u[i] = t[i]
  BY <1>2
<1>5. \A i \in Len(t) + 1..Len(u) : u[i] = "/"
  <2> SUFFICES ASSUME NEW i \in Len(t) + 1..Len(u)
               PROVE  u[i] = "/"
    OBVIOUS
  <2>1. i - Len(t) \in 1..n /\ i = Len(t) + (i - Len(t))
    BY <1>2
  <2> QED
    BY <1>1, <1>2, <2>1
<1>6. kept = 1..Len(t)
  <2>1. ASSUME NEW i \in kept
        PROVE  i \in 1..Len(t)
    BY <1>2, <1>3, <1>5
  <2>2. ASSUME NEW i \in 1..Len(t)
        PROVE  i \in kept
    <3>1. t # <<>> /\ Len(t) \in i..Len(u) /\ i \in 1..Len(u) /\ Len(t) \in 1..Len(t)
      BY <1>2
    <3>2. u[Len(t)] # "/"
      BY <1>4, <3>1
    <3> QED
      BY <1>3, <3>1, <3>2
  <2> QED
    BY <2>1, <2>2
<1>7. WithoutTrailingSlashes(u) = [i \in kept |-> u[i]]
  BY DEF WithoutTrailingSlashes
<1> HIDE DEF kept
<1>8. t = [i \in 1..Len(t) |-> t[i]]
  BY DEF Texts
<1> QED
  BY <1>4, <1>6, <1>7, <1>8 DEF u, slashes

(* What _check_endpoint_access compares for one restriction comes down to   *)
(* whether the path begins with its segments.                               *)
LEMMA AdmitsIs ==
  ASSUME NEW t \in Tokens, NEW e \in Endpoints[t], NEW q \in Paths
  PROVE  Admits(e, q) <=> e.lead = <<>> /\ IsPrefix(e.path, q)
<1> DEFINE prefix == e.lead \o Text(e.path)
<1>0. /\ e.lead \in Seq(Pieces) /\ e.path \in Paths /\ e.slashes \in Nat
      /\ e.path # <<>> => e.path[Len(e.path)] # <<>>
      /\ e.lead \in Texts /\ Text(e.path) \in Texts /\ Text(q) \in Texts
  BY EndpointsOK, Joined, TextOf DEF Paths, Texts
<1>1. /\ prefix \in Texts /\ Len(prefix) = Len(e.lead) + Len(Text(e.path))
      /\ Len(e.lead) \in Nat /\ Len(Text(e.path)) \in Nat
      /\ \A i \in 1..Len(e.lead) : prefix[i] = e.lead[i]
      /\ \A i \in 1..Len(Text(e.path)) : prefix[Len(e.lead) + i] = Text(e.path)[i]
  BY <1>0, Concat
<1> HIDE DEF prefix
<1>2. \A i \in 1..Len(e.lead) : e.lead[i] # "/"
  BY <1>0, CallsOK
<1>3. prefix = <<>> \/ prefix[Len(prefix)] # "/"
  <2>1. CASE e.path = <<>>
    <3>1. Text(e.path) = <<>> /\ Len(Text(e.path)) = 0
      BY <2>1, TextOf
    <3>2. prefix = e.lead
      BY <1>0, <3>1, ConcatEmptySeq DEF Texts, prefix
    <3>3. e.lead = <<>> \/ Len(e.lead) \in 1..Len(e.lead)
      BY <1>0
    <3> QED
      BY <1>2, <3>2, <3>3
  <2>2. CASE e.path # <<>>
    <3>1. PICK r \in Paths, s \in Seq(Pieces) : e.path = Append(r, s)
      BY <1>0, <2>2, LastOf DEF Paths
    <3>2. s # <<>> /\ Text(r) \in Texts /\ Text(e.path) = Under(Text(r), s)
      BY <1>0, <2>2, <3>1, TextOf DEF Paths
    <3>3. Len(s) \in Nat \ {0} /\ Len(Text(r)) \in Nat
      BY <3>2 DEF Texts
    <3>4. Len(Text(e.path)) \in Len(Text(r)) + 2..Len(Text(e.path))
          /\ Text(e.path)[Len(Text(e.path))] # "/"
      BY <3>2, <3>3, UnderAt
    <3>5. Len(Text(e.path)) \in 1..Len(Text(e.path))
      BY <1>1, <3>3, <3>4
    <3>6. prefix[Len(prefix)] = Text(e.path)[Len(Text(e.path))]
      BY <1>1, <3>5
    <3> QED
      BY <3>4, <3>6
  <2> QED
    BY <2>1, <2>2
<1>4. WithoutTrailingSlashes(Written(e)) = prefix
  BY <1>0, <1>1, <1>3, Stripped DEF Written, prefix
<1>5. Admits(e, q) <=> Text(q) = prefix \/ IsPrefix(prefix \o <<"/">>, Text(q))
  BY <1>4 DEF Admits
<1>6. CASE e.lead = <<>>
  <2>1. prefix = Text(e.path)
    BY <1>0, <1>6, ConcatEmptySeq DEF Texts, prefix
  <2> QED
    BY <1>0, <1>5, <1>6, <2>1, Segmentwise
<1>7. CASE e.lead # <<>>
  <2>0. Len(e.lead) \in Nat \ {0} /\ 1 \in 1..Len(e.lead)
    BY <1>0, <1>7
  <2>1. prefix[1] # "/" /\ Len(prefix) \in Nat \ {0}
    <3>1. prefix[1] = e.lead[1] /\ e.lead[1] # "/"
      BY <1>1, <1>2, <2>0
    <3>2. Len(prefix) \in Nat \ {0}
      <4>1. Len(prefix) = Len(e.lead) + Len(Text(e.path)) /\ Len(Text(e.path)) \in Nat
        BY <1>1
      <4>2. \A x \in Nat \ {0}, y \in Nat : x + y \in Nat \ {0}
        OBVIOUS
      <4> HIDE DEF prefix
      <4> QED
        BY <2>0, <4>1, <4>2
    <3> QED
      BY <3>1, <3>2
  <2>2. Text(q) # prefix
    <3>1. prefix # <<>>
      BY <2>1
    <3> QED
      BY <2>1, <3>1, TextStarts
  <2>3. ASSUME IsPrefix(prefix \o <<"/">>, Text(q))
        PROVE  FALSE
    <3> DEFINE a == prefix \o <<"/">>
    <3>0. 1 \in 1..Len(prefix)
      BY <2>1
    <3>1. a \in Texts /\ Len(a) = Len(prefix) + 1 /\ a[1] = prefix[1]
      BY <1>1, <3>0, Slash, Concat
    <3> HIDE DEF a
    <3>2. Len(a) <= Len(Text(q)) /\ a[1] = Text(q)[1]
      <4>1. Len(a) <= Len(Text(q)) /\ \A i \in 1..Len(a) : a[i] = Text(q)[i]
        BY <1>0, <2>3, <3>1, TextPrefix DEF a
      <4>2. 1 \in 1..Len(a)
        BY <2>1, <3>1
      <4> QED
        BY <4>1, <4>2
    <3>3. Text(q) # <<>>
      BY <2>1, <3>1, <3>2
    <3> QED
      BY <2>1, <3>1, <3>2, <3>3, TextStarts
  <2> QED
    BY <1>5, <1>7, <2>2, <2>3
<1> QED
  BY <1>6, <1>7

(* The endpoint restriction of a key lets exactly the paths within it pass. *)
LEMMA AllowedIsWithin ==
  ASSUME NEW c \in Calls, c.token \in Tokens
  PROVE  EndpointAllowed(c) <=> Within(c)
  BY AdmitsIs, CallsOK DEF EndpointAllowed, Within, Paths

-----------------------------------------------------------------------------
(* Routes *)

(* The posts that change nothing, and the roots of the proxies.             *)
ReadPosts == {<<<<"votebot">>, <<"chat">>>>, <<<<"votebot">>, <<"chat">>, <<"stream">>>>,
              <<<<"get_tokens">>>>, <<<<"get_events">>>>}

Roots == {<<<<"sync">>>>, <<<<"trigger">>>>, <<<<"openstates">>>>, <<<<"broker">>>>}

(* The routes declared before those of OpenStates, and all of them.         *)
Earlier == {VoatzRoutes[i] : i \in 1..3} \cup {VotebotRoutes[i] : i \in 1..3} \cup {SyncRoutes[i] : i \in 1..4}
Declared == Earlier \cup {OpenstatesRoutes[i] : i \in 1..3} \cup {BrokerRoutes[i] : i \in 1..2}

LEMMA Lists ==
  ASSUME NEW S
  PROVE  /\ \A a, b \in S : <<a, b>> \in Seq(S) /\ Len(<<a, b>>) = 2
         /\ \A a, b, c \in S : <<a, b, c>> \in Seq(S) /\ Len(<<a, b, c>>) = 3
         /\ \A a, b, c, d \in S : <<a, b, c, d>> \in Seq(S) /\ Len(<<a, b, c, d>>) = 4
  OBVIOUS

LEMMA Parts ==
  /\ VoatzRoutes \in Seq(Earlier) /\ Len(VoatzRoutes) = 3
  /\ VotebotRoutes \in Seq(Earlier) /\ Len(VotebotRoutes) = 3
  /\ SyncRoutes \in Seq(Earlier) /\ Len(SyncRoutes) = 4
  /\ OpenstatesRoutes \in Seq(Declared) /\ Len(OpenstatesRoutes) = 3
  /\ BrokerRoutes \in Seq(Declared) /\ Len(BrokerRoutes) = 2
<1>1. VoatzRoutes \in Seq(Earlier) /\ Len(VoatzRoutes) = 3
  <2>1. VoatzRoutes[1] \in Earlier /\ VoatzRoutes[2] \in Earlier /\ VoatzRoutes[3] \in Earlier
    BY DEF Earlier
  <2> QED
    BY <2>1, Lists DEF VoatzRoutes
<1>2. VotebotRoutes \in Seq(Earlier) /\ Len(VotebotRoutes) = 3
  <2>1. VotebotRoutes[1] \in Earlier /\ VotebotRoutes[2] \in Earlier /\ VotebotRoutes[3] \in Earlier
    BY DEF Earlier
  <2> QED
    BY <2>1, Lists DEF VotebotRoutes
<1>3. SyncRoutes \in Seq(Earlier) /\ Len(SyncRoutes) = 4
  <2>1. SyncRoutes[1] \in Earlier /\ SyncRoutes[2] \in Earlier /\ SyncRoutes[3] \in Earlier /\ SyncRoutes[4] \in Earlier
    BY DEF Earlier
  <2> QED
    BY <2>1, Lists DEF SyncRoutes
<1>4. OpenstatesRoutes \in Seq(Declared) /\ Len(OpenstatesRoutes) = 3
  <2>1. OpenstatesRoutes[1] \in Declared /\ OpenstatesRoutes[2] \in Declared /\ OpenstatesRoutes[3] \in Declared
    BY DEF Declared
  <2> QED
    BY <2>1, Lists DEF OpenstatesRoutes
<1>5. BrokerRoutes \in Seq(Declared) /\ Len(BrokerRoutes) = 2
  <2>1. BrokerRoutes[1] \in Declared /\ BrokerRoutes[2] \in Declared
    BY DEF Declared
  <2> QED
    BY <2>1, Lists DEF BrokerRoutes
<1> QED
  BY <1>1, <1>2, <1>3, <1>4, <1>5

LEMMA Chained ==
  ASSUME NEW s \in Seq(Declared), NEW t \in Seq(Declared)
  PROVE  /\ s \o t \in Seq(Declared) /\ Len(s \o t) = Len(s) + Len(t)
         /\ \A i \in 1..Len(s) : (s \o t)[i] = s[i]
         /\ \A i \in 1..Len(t) : (s \o t)[Len(s) + i] = t[i]
<1>0. Len(s) \in Nat /\ Len(t) \in Nat
  OBVIOUS
<1>1. /\ s \o t \in Seq(Declared) /\ Len(s \o t) = Len(s) + Len(t)
      /\ \A i \in 1..Len(s) + Len(t) : (s \o t)[i] = IF i <= Len(s) THEN s[i] ELSE t[i - Len(s)]
  BY ConcatProperties
<1>2. ASSUME NEW i \in 1..Len(t)
      PROVE  (s \o t)[Len(s) + i] = t[i]
  <2>1. Len(s) + i \in 1..Len(s) + Len(t) /\ ~(Len(s) + i <= Len(s)) /\ Len(s) + i - Len(s) = i
    BY <1>0
  <2> QED
    BY <1>1, <2>1
<1> QED
  BY <1>0, <1>1, <1>2

LEMMA ChainedEarlier ==
  ASSUME NEW s \in Seq(Earlier), NEW t \in Seq(Earlier)
  PROVE  s \o t \in Seq(Earlier) /\ Len(s \o t) = Len(s) + Len(t)
  BY ConcatProperties

(* The probe is the eleventh; the ten before it are no route of OpenStates. *)
LEMMA RoutesAre ==
  /\ DOMAIN Routes = 1..15
  /\ \A i \in 1..15 : Routes[i] \in Declared
  /\ \A i \in 1..10 : Routes[i] \in Earlier
  /\ Routes[11] = OpenstatesRoutes[1]
<1> DEFINE a == VoatzRoutes \o VotebotRoutes
           b == a \o SyncRoutes
           c == b \o OpenstatesRoutes
<1>1. a \in Seq(Earlier) /\ Len(a) = 6
  <2>1. VoatzRoutes \in Seq(Earlier) /\ VotebotRoutes \in Seq(Earlier)
    BY Parts
  <2>2. VoatzRoutes \o VotebotRoutes \in Seq(Earlier)
    BY <2>1, ChainedEarlier
  <2>3. Len(VoatzRoutes \o VotebotRoutes) = Len(VoatzRoutes) + Len(VotebotRoutes)
    BY <2>1, ChainedEarlier
  <2> QED
    BY <2>2, <2>3, Parts
<1> HIDE DEF a
<1>2. b \in Seq(Earlier) /\ Len(b) = 10
  <2>1. SyncRoutes \in Seq(Earlier) /\ Len(SyncRoutes) = 4
    BY Parts
  <2>2. a \o SyncRoutes \in Seq(Earlier)
    BY <1>1, <2>1, ChainedEarlier
  <2>3. Len(a \o SyncRoutes) = Len(a) + Len(SyncRoutes)
    BY <1>1, <2>1, ChainedEarlier
  <2> QED
    BY <1>1, <2>1, <2>2, <2>3
<1> HIDE DEF b
<1>3. b \in Seq(Declared)
  BY <1>2, SeqMonotonic DEF Declared
<1>4. c \in Seq(Declared) /\ Len(c) = 13 /\ c[10 + 1] = OpenstatesRoutes[1]
      /\ \A i \in 1..10 : c[i] = b[i]
  <2>1. OpenstatesRoutes \in Seq(Declared) /\ Len(OpenstatesRoutes) = 3
    BY Parts
  <2>2. /\ c \in Seq(Declared) /\ Len(c) = Len(b) + Len(OpenstatesRoutes)
        /\ \A i \in 1..Len(b) : c[i] = b[i]
        /\ \A i \in 1..Len(OpenstatesRoutes) : c[Len(b) + i] = OpenstatesRoutes[i]
    BY <1>3, <2>1, Chained
  <2> HIDE DEF c
  <2>3. 1 \in 1..Len(OpenstatesRoutes)
    BY <2>1
  <2>4. c[Len(b) + 1] = OpenstatesRoutes[1]
    BY <2>2, <2>3
  <2> QED
    BY <1>2, <2>1, <2>2, <2>4
<1> HIDE DEF c
<1>5. Routes = c \o BrokerRoutes
  BY DEF Routes, a, b, c
<1>6. Routes \in Seq(Declared) /\ Len(Routes) = 15
      /\ \A i \in 1..13 : Routes[i] = c[i]
  <2>1. BrokerRoutes \in Seq(Declared) /\ Len(BrokerRoutes) = 2
    BY Parts
  <2>2. /\ c \o BrokerRoutes \in Seq(Declared) /\ Len(c \o BrokerRoutes) = Len(c) + Len(BrokerRoutes)
        /\ \A i \in 1..Len(c) : (c \o BrokerRoutes)[i] = c[i]
    BY <1>4, <2>1, Chained
  <2>3. Routes \in Seq(Declared) /\ Len(Routes) = Len(c) + Len(BrokerRoutes)
        /\ \A i \in 1..Len(c) : Routes[i] = c[i]
    BY <1>5, <2>2
  <2>4. Len(c) = 13 /\ Len(BrokerRoutes) = 2
    BY <1>4, <2>1
  <2> QED
    BY <2>3, <2>4
<1>7. DOMAIN Routes = 1..15 /\ \A i \in 1..15 : Routes[i] \in Declared
  <2> HIDE DEF Declared
  <2>1. \A i \in 1..Len(Routes) : Routes[i] \in Declared
    BY <1>6, ElementOfSeq
  <2>2. DOMAIN Routes = 1..Len(Routes)
    BY <1>6
  <2> QED
    BY <1>6, <2>1, <2>2
<1>8. \A i \in 1..10 : Routes[i] \in Earlier
  <2>1. \A i \in 1..Len(b) : b[i] \in Earlier
    BY <1>2, ElementOfSeq
  <2>2. \A i \in 1..10 : Routes[i] = b[i]
    BY <1>4, <1>6
  <2> QED
    BY <1>2, <2>1, <2>2
<1>9. Routes[11] = OpenstatesRoutes[1]
  BY <1>4, <1>6
<1> QED
  BY <1>7, <1>8, <1>9

Probed == Route({"GET"}, <<<<"openstates">>, <<"healthz">>>>, FALSE, "open", "openstates")

LEMMA Kinds ==
  /\ OpenstatesRoutes[1] = Probed
  /\ \A rt \in Earlier : IF rt.rest THEN rt.head \in {<<<<"sync">>>>, <<<<"trigger">>>>}
                                     ELSE rt.head # Probed.head
  /\ \A rt \in Declared :
         \/ rt = Probed
         \/ rt.auth = "read" /\ rt.rest /\ rt.methods = {"GET"} /\ rt.head \in Roots
         \/ rt.auth = "read" /\ ~rt.rest /\ rt.methods = {"POST"} /\ rt.head \in ReadPosts
         \/ rt.auth = "write" /\ rt.rest /\ rt.methods \subseteq Writes /\ rt.head \in Roots
         \/ /\ rt.auth = "write" /\ ~rt.rest /\ rt.methods = {"POST"}
            /\ rt.head \in {<<<<"votebot">>, <<"feedback">>>>, <<<<"create_event">>>>}
<1> DEFINE Kind(rt) ==
         \/ rt = Probed
         \/ rt.auth = "read" /\ rt.rest /\ rt.methods = {"GET"} /\ rt.head \in Roots
         \/ rt.auth = "read" /\ ~rt.rest /\ rt.methods = {"POST"} /\ rt.head \in ReadPosts
         \/ rt.auth = "write" /\ rt.rest /\ rt.methods \subseteq Writes /\ rt.head \in Roots
         \/ /\ rt.auth = "write" /\ ~rt.rest /\ rt.methods = {"POST"}
            /\ rt.head \in {<<<<"votebot">>, <<"feedback">>>>, <<<<"create_event">>>>}
<1>1. Kind(VoatzRoutes[1]) /\ Kind(VoatzRoutes[2]) /\ Kind(VoatzRoutes[3])
  BY DEF VoatzRoutes, Route, Probed, Roots, ReadPosts, Writes
<1>2. Kind(VotebotRoutes[1]) /\ Kind(VotebotRoutes[2]) /\ Kind(VotebotRoutes[3])
  BY DEF VotebotRoutes, Route, Probed, Roots, ReadPosts, Writes
<1>3. Kind(SyncRoutes[1]) /\ Kind(SyncRoutes[2]) /\ Kind(SyncRoutes[3]) /\ Kind(SyncRoutes[4])
  BY DEF SyncRoutes, Route, Probed, Roots, ReadPosts, Writes
<1>4. Kind(OpenstatesRoutes[1]) /\ Kind(OpenstatesRoutes[2]) /\ Kind(OpenstatesRoutes[3])
  BY DEF OpenstatesRoutes, Route, Probed, Roots, ReadPosts, Writes
<1>5. Kind(BrokerRoutes[1]) /\ Kind(BrokerRoutes[2])
  BY DEF BrokerRoutes, Route, Probed, Roots, ReadPosts, Writes
<1> HIDE DEF Kind
<1>6. \A rt \in Declared : Kind(rt)
  BY <1>1, <1>2, <1>3, <1>4, <1>5 DEF Declared, Earlier
<1>7. OpenstatesRoutes[1] = Probed
  BY DEF OpenstatesRoutes, Probed
<1>8. \A rt \in Earlier : IF rt.rest THEN rt.head \in {<<<<"sync">>>>, <<<<"trigger">>>>}
                                     ELSE rt.head # Probed.head
  BY DEF Earlier, VoatzRoutes, VotebotRoutes, SyncRoutes, Route, Probed
<1> QED
  BY <1>6, <1>7, <1>8 DEF Kind

-----------------------------------------------------------------------------
(* Authentication *)

(* Starlette takes the first declared route that fits.                      *)
LEMMA RoutedIs ==
  ASSUME NEW c \in Calls
  PROVE  \/ /\ Routed[c] = Unrouted
            /\ \A i \in 1..15 : ~Fits(Routes[i], c)
         \/ \E i \in 1..15 : /\ Routed[c] = Routes[i] /\ Fits(Routes[i], c)
                              /\ \A j \in 1..15 : Fits(Routes[j], c) => i <= j
<1> DEFINE fitting == {i \in DOMAIN Routes : Fits(Routes[i], c)}
           first == CHOOSE i \in fitting : \A j \in fitting : i <= j
<1>1. Routed[c] = IF fitting = {} THEN Unrouted ELSE Routes[Min(fitting)]
  BY DEF Routed
<1>2. fitting \subseteq 1..15 /\ \A i \in 1..15 : i \in fitting <=> Fits(Routes[i], c)
  BY RoutesAre
<1> HIDE DEF fitting
<1>3. CASE fitting # {}
  <2>1. fitting \subseteq Nat
    BY <1>2
  <2>2. \E i \in fitting : \A j \in fitting : i <= j
    BY <2>1, <1>3, LeastNat
  <2>3. first \in fitting /\ \A j \in fitting : first <= j
    BY <2>2
  <2> HIDE DEF first
  <2>4. Min(fitting) = first
    BY DEF Min, first
  <2> QED
    BY <1>1, <1>2, <1>3, <2>3, <2>4
<1>4. CASE fitting = {}
  BY <1>1, <1>2, <1>4
<1> QED
  BY <1>3, <1>4

LEMMA BeginsWith ==
  ASSUME NEW S, NEW t \in Seq(S), NEW x, IsPrefix(<<x>>, t)
  PROVE  t[1] = x
<1>1. Len(t) >= 1 /\ SubSeq(<<x>>, 1, 1) = SubSeq(t, 1, 1)
  BY DEF IsPrefix
<1>2. SubSeq(<<x>>, 1, 1)[1] = x
  OBVIOUS
<1>3. SubSeq(t, 1, 1)[1] = t[1]
  BY <1>1
<1> QED
  BY <1>1, <1>2, <1>3

LEMMA FitsAt ==
  ASSUME NEW c \in Calls, NEW rt, Fits(rt, c)
  PROVE  /\ c.method \in rt.methods
         /\ rt.rest /\ rt.head \in Roots =>
              c.path[1] \in {<<"sync">>, <<"trigger">>, <<"openstates">>, <<"broker">>} /\ rt.head = <<c.path[1]>>
         /\ ~rt.rest => c.path = rt.head
<1>1. c.path \in Seq(Seq(Pieces))
  BY CallsOK
<1>2. ASSUME rt.rest, NEW x, rt.head = <<x>>
      PROVE  c.path[1] = x
  BY <1>1, <1>2, BeginsWith DEF Fits, IsStrictPrefix
<1> QED
  BY <1>2 DEF Fits, Roots

LEMMA ProbeIsOpen ==
  ASSUME NEW c \in Calls
  PROVE  Routed[c].auth = "open" <=> Probe(c)
<1>0. Fits(Probed, c) <=> Probe(c)
  BY DEF Fits, Probed, Probe, Route
<1>1. Unrouted.auth # "open" /\ Probed.auth = "open"
  BY DEF Unrouted, Route, Probed
<1>2. ASSUME Routed[c].auth = "open"
      PROVE  Probe(c)
  BY <1>0, <1>1, <1>2, RoutedIs, RoutesAre, Kinds
<1>3. ASSUME Probe(c)
      PROVE  Routed[c].auth = "open"
  <2>1. Routes[11] = Probed /\ Fits(Routes[11], c)
    BY <1>0, <1>3, RoutesAre, Kinds
  <2>2. PICK i \in 1..15 : Routed[c] = Routes[i] /\ Fits(Routes[i], c) /\ i <= 11
    BY <2>1, RoutedIs
  <2>3. CASE i = 11
    BY <1>1, <2>1, <2>2, <2>3
  <2>4. CASE i <= 10
    <3> DEFINE rt == Routes[i]
    <3>1. IF rt.rest THEN rt.head \in {<<<<"sync">>>>, <<<<"trigger">>>>} ELSE rt.head # Probed.head
      BY <2>4, RoutesAre, Kinds
    <3>2. c.path = Probed.head /\ c.path[1] = <<"openstates">>
      BY <1>3 DEF Probe, Probed, Route
    <3> HIDE DEF rt
    <3>3. Fits(rt, c)
      BY <2>2 DEF rt
    <3>4. rt.rest => rt.head \in Roots /\ rt.head # <<c.path[1]>>
      BY <3>1, <3>2 DEF Roots
    <3> QED
      BY <3>1, <3>2, <3>3, <3>4, FitsAt
  <2> QED
    BY <2>2, <2>3, <2>4
<1> QED
  BY <1>2, <1>3

LEMMA ScopeOfRoute ==
  ASSUME NEW c \in Calls, Routed[c].auth \notin {"unrouted", "open"}
  PROVE  /\ Routed[c].auth \in {"read", "write"}
         /\ Routed[c].auth = "read" <=> c.method = "GET" \/ ReadOnlyPost(c)
<1>1. PICK rt \in Declared : Routed[c] = rt /\ Fits(rt, c)
  BY RoutedIs, RoutesAre DEF Unrouted, Route
<1>2. rt.auth # "open"
  BY <1>1
<1>3. CASE rt.auth = "read" /\ rt.rest /\ rt.methods = {"GET"} /\ rt.head \in Roots
  BY <1>1, <1>3, FitsAt
<1>4. CASE rt.auth = "read" /\ ~rt.rest /\ rt.methods = {"POST"} /\ rt.head \in ReadPosts
  BY <1>1, <1>4, FitsAt DEF ReadOnlyPost, ReadPosts
<1>5. CASE rt.auth = "write" /\ rt.rest /\ rt.methods \subseteq Writes /\ rt.head \in Roots
  <2>1. c.method # "GET"
    BY <1>1, <1>5, FitsAt DEF Writes
  <2>2. c.path[1] \in {<<"sync">>, <<"trigger">>, <<"openstates">>, <<"broker">>}
    BY <1>1, <1>5, FitsAt
  <2>3. ReadOnlyPost(c) => c.path[1] \in {<<"votebot">>, <<"get_tokens">>, <<"get_events">>}
    BY DEF ReadOnlyPost
  <2> QED
    BY <1>1, <1>5, <2>1, <2>2, <2>3
<1>6. CASE /\ rt.auth = "write" /\ ~rt.rest /\ rt.methods = {"POST"}
           /\ rt.head \in {<<<<"votebot">>, <<"feedback">>>>, <<<<"create_event">>>>}
  <2>1. c.method # "GET"
    BY <1>1, <1>6, FitsAt
  <2>2. c.path \in {<<<<"votebot">>, <<"feedback">>>>, <<<<"create_event">>>>}
    BY <1>1, <1>6, FitsAt
  <2>3. ~ReadOnlyPost(c)
    BY <2>2 DEF ReadOnlyPost
  <2> QED
    BY <1>1, <1>6, <2>1, <2>3
<1>7. rt = Probed => rt.auth = "open"
  BY DEF Probed, Route
<1> QED
  BY <1>2, <1>3, <1>4, <1>5, <1>6, <1>7, Kinds

(* The authentication lets pass only what is entitled ...                   *)
LEMMA PassIsEntitled ==
  ASSUME NEW c \in Calls, Verdict(Routed[c].auth, c) = "pass"
  PROVE  Entitled(c)
<1>1. CASE Routed[c].auth = "open"
  BY <1>1, ProbeIsOpen DEF Entitled
<1>2. CASE Routed[c].auth # "open"
  <2>1. /\ Routed[c].auth # "unrouted" /\ c.token \in Tokens
        /\ keyState[c.token] = "live" /\ c.token \notin Undated
        /\ ScopeAllowed(Routed[c].auth, c) /\ EndpointAllowed(c)
    BY <1>2 DEF Verdict
  <2> QED
    BY <1>2, <2>1, ScopeOfRoute, AllowedIsWithin DEF Entitled, ScopeAllowed
<1> QED
  BY <1>1, <1>2

(* ... and refuses it only when its key has lapsed.                         *)
LEMMA RefusalHasCause ==
  ASSUME NEW c \in Calls, Verdict(Routed[c].auth, c) \in {"401", "403", "error"}
  PROVE  /\ ~Probe(c)
         /\ c.token \in Tokens => keyState[c.token] # "live" \/ ~Entitled(c)
<1>1. Routed[c].auth \notin {"unrouted", "open"}
  BY DEF Verdict
<1>2. ~Probe(c)
  BY <1>1, ProbeIsOpen
<1>3. ASSUME c.token \in Tokens, keyState[c.token] = "live", Entitled(c)
      PROVE  FALSE
  <2>1. c.token \notin Undated /\ Within(c)
    BY <1>2, <1>3 DEF Entitled
  <2>2. ~(ScopeAllowed(Routed[c].auth, c) /\ EndpointAllowed(c))
    BY <1>1, <1>3, <2>1 DEF Verdict
  <2>3. EndpointAllowed(c)
    BY <1>3, <2>1, AllowedIsWithin
  <2>4. ScopeAllowed(Routed[c].auth, c)
    BY <1>1, <1>2, <1>3, ScopeOfRoute DEF Entitled, ScopeAllowed
  <2> QED
    BY <2>2, <2>3, <2>4
<1> QED
  BY <1>2, <1>3

-----------------------------------------------------------------------------
(* The pieces a step is built from *)

LEMMA Turned ==
  ASSUME NEW auth, NEW c
  PROVE  Verdict(auth, c) \in {"pass", "unrouted", "error", "401", "403"}
  BY DEF Verdict

(* A handler that fails either waits for its one retry, and then because    *)
(* the connection was refused, or answers; only a refused connection is     *)
(* answered as unavailable.                                                 *)
LEMMA Failing ==
  ASSUME NEW r \in Requests, NEW failure, tries[r] \in {1, 2}, Fail(r, failure)
  PROVE  \/ /\ failure = "refused" /\ tries[r] = 1
            /\ phase' = [phase EXCEPT ![r] = "backoff"] /\ answer' = answer
         \/ \E what \in {"unavailable", "timeout", "failed"} :
              Finish(r, what) /\ (what = "unavailable" => failure = "refused")
<1>1. CASE Retried(r, failure)
  BY <1>1 DEF Fail, Retried, MaxAttempts
<1>2. CASE ~Retried(r, failure)
  BY <1>2 DEF Fail, Outcome
<1> QED
  BY <1>1, <1>2

LEMMA Initially == Init => IInv
  BY DEF Init, IInv, TypeOK, Accounted, Standing, Counted, Truthful, TurnedAway, Before

-----------------------------------------------------------------------------
(* Every step keeps the invariant *)

(* The steps of one request: nothing of another one is touched.             *)
OnlyOf(r) ==
  \A q \in Requests \ {r} :
    /\ phase'[q] = phase[q] /\ tries'[q] = tries[q] /\ work'[q] = work[q] /\ answer'[q] = answer[q]
    /\ q \in inbox' <=> q \in inbox

LEMMA Apart ==
  ASSUME IInv, NEW r \in Requests, OnlyOf(r), Standing(r)', Counted(r)', Truthful(r)'
  PROVE  Accounted'
<1> SUFFICES ASSUME NEW q \in Requests
             PROVE  (Standing(q) /\ Counted(q) /\ Truthful(q))'
  BY DEF Accounted
<1>1. CASE q = r
  BY <1>1
<1>2. CASE q # r
  BY <1>2 DEF IInv, Accounted, OnlyOf, Standing, Counted, Truthful
<1> QED
  BY <1>1, <1>2

LEMMA HandleStep ==
  ASSUME IInv, NEW r \in Requests, Handle(r)
  PROVE  IInv'
<1> USE DEF Phases, Answers
<1>0. /\ phase \in [Requests -> Phases] /\ answer \in [Requests -> Answers]
      /\ tries \in [Requests -> 0..2] /\ work \in [Requests -> Nat] /\ inbox \subseteq Requests
      /\ keyState \in [Tokens -> {"live", "expired", "revoked"}] /\ up \in [Services -> BOOLEAN]
      /\ outages \in 0..MaxOutages /\ call \in [Requests -> Calls]
      /\ route = [q \in Requests |-> Routed[call[q]]]
      /\ Standing(r) /\ Counted(r) /\ Truthful(r)
  BY DEF IInv, TypeOK, Accounted
<1>1. CASE Arrive(r)
  <2>1. TypeOK' /\ OnlyOf(r)
    BY <1>0, <1>1, Turned DEF Arrive, Finish, TypeOK, OnlyOf
  <2>2. (Standing(r) /\ Counted(r) /\ Truthful(r))'
    BY <1>0, <1>1, Turned DEF Arrive, Finish, Standing, Counted, Truthful, TurnedAway, Before
  <2> QED
    BY <2>1, <2>2, Apart DEF IInv
<1>2. CASE Deliver(r)
  <2>1. TypeOK' /\ OnlyOf(r)
    BY <1>0, <1>2 DEF Deliver, TypeOK, OnlyOf
  <2>2. (Standing(r) /\ Counted(r) /\ Truthful(r))'
    BY <1>0, <1>2 DEF Deliver, Standing, Counted, Truthful, TurnedAway, Before
  <2> QED
    BY <2>1, <2>2, Apart DEF IInv
<1>3. ASSUME NEW failure, Fail(r, failure),
             phase[r] \in {"connecting", "waiting", "answered", "broken"},
             failure = "refused" => phase[r] = "connecting",
             UNCHANGED <<keyState, up, outages, call, route, tries, inbox, work>>
      PROVE  IInv'
  <2>1. tries[r] \in {1, 2}
    BY <1>0, <1>3 DEF Counted
  <2>2. CASE /\ failure = "refused" /\ tries[r] = 1
             /\ phase' = [phase EXCEPT ![r] = "backoff"] /\ answer' = answer
    <3>1. TypeOK' /\ OnlyOf(r)
      BY <1>0, <1>3, <2>2 DEF TypeOK, OnlyOf
    <3>2. (Standing(r) /\ Counted(r) /\ Truthful(r))'
      BY <1>0, <1>3, <2>2 DEF Standing, Counted, Truthful, TurnedAway, Before
    <3> QED
      BY <3>1, <3>2, Apart DEF IInv
  <2>3. ASSUME NEW what \in {"unavailable", "timeout", "failed"}, Finish(r, what),
               what = "unavailable" => failure = "refused"
        PROVE  IInv'
    <3>1. TypeOK' /\ OnlyOf(r)
      BY <1>0, <1>3, <2>3 DEF Finish, TypeOK, OnlyOf
    <3>2. (Standing(r) /\ Counted(r) /\ Truthful(r))'
      BY <1>0, <1>3, <2>3 DEF Finish, Standing, Counted, Truthful, TurnedAway, Before
    <3> QED
      BY <3>1, <3>2, Apart DEF IInv
  <2> QED
    BY <1>3, <2>1, <2>2, <2>3, Failing
<1>4. CASE Refuse(r) \/ Strand(r) \/ TimeOut(r) \/ Break(r)
  BY <1>3, <1>4 DEF Refuse, Strand, TimeOut, Break
<1>5. CASE Wake(r)
  <2>1. TypeOK' /\ OnlyOf(r)
    BY <1>0, <1>5 DEF Wake, TypeOK, OnlyOf, Counted
  <2>2. (Standing(r) /\ Counted(r) /\ Truthful(r))'
    BY <1>0, <1>5 DEF Wake, Standing, Counted, Truthful, TurnedAway, Before
  <2> QED
    BY <2>1, <2>2, Apart DEF IInv
<1>6. CASE Reply(r)
  <2>1. TypeOK' /\ OnlyOf(r)
    BY <1>0, <1>6 DEF Reply, Finish, TypeOK, OnlyOf
  <2>2. (Standing(r) /\ Counted(r) /\ Truthful(r))'
    BY <1>0, <1>6 DEF Reply, Finish, Standing, Counted, Truthful, TurnedAway, Before
  <2> QED
    BY <2>1, <2>2, Apart DEF IInv
<1> QED
  BY <1>1, <1>2, <1>4, <1>5, <1>6 DEF Handle

LEMMA PerformStep ==
  ASSUME IInv, NEW r \in Requests, Perform(r)
  PROVE  IInv'
<1>1. TypeOK' /\ OnlyOf(r)
  BY DEF Perform, IInv, TypeOK, OnlyOf
<1>2. (Standing(r) /\ Counted(r) /\ Truthful(r))'
  BY DEF Perform, IInv, Accounted, TypeOK, Standing, Counted, Truthful, TurnedAway, Before
<1> QED
  BY <1>1, <1>2, Apart DEF IInv

(* An outage breaks the requests whose service it is, and only they lose    *)
(* their place in its inbox.                                                *)
LEMMA DownStep ==
  ASSUME IInv, NEW s \in Services, Down(s)
  PROVE  IInv'
<1>1. PICK gone \in SUBSET {r \in inbox : Service(r) = s} : inbox' = inbox \ gone
  BY DEF Down
<1>2. TypeOK'
  BY DEF Down, IInv, TypeOK
<1>3. ASSUME NEW q \in Requests
      PROVE  (Standing(q) /\ Counted(q) /\ Truthful(q))'
  <2>0. Standing(q) /\ Counted(q) /\ Truthful(q) /\ phase[q] \in Phases
    BY DEF IInv, Accounted, TypeOK, Phases
  <2>1. CASE phase[q] \in {"waiting", "answered"} /\ Service(q) = s
    BY <1>1, <2>0, <2>1 DEF Down, Standing, Counted, Truthful, TurnedAway, Before
  <2>2. CASE ~(phase[q] \in {"waiting", "answered"} /\ Service(q) = s)
    BY <1>1, <2>0, <2>2 DEF Down, Standing, Counted, Truthful, TurnedAway, Before
  <2> QED
    BY <2>1, <2>2
<1> QED
  BY <1>2, <1>3 DEF IInv, Accounted

LEMMA QuietStep ==
  ASSUME IInv,
         \/ \E s \in Services : Up(s)
         \/ \E t \in Managed : Lapse(t)
         \/ UNCHANGED vars
  PROVE  IInv'
<1>1. UNCHANGED <<phase, tries, inbox, work, answer, call>>
  BY DEF Up, Lapse, vars
<1>2. TypeOK'
  BY <1>1 DEF Up, Lapse, vars, IInv, TypeOK
<1> QED
  BY <1>1, <1>2 DEF IInv, Accounted, Standing, Counted, Truthful

LEMMA Inductive == Spec => []IInv
<1>1. ASSUME IInv, [Next]_vars
      PROVE  IInv'
  BY <1>1, HandleStep, PerformStep, DownStep, QuietStep DEF Next
<1> QED
  BY <1>1, Initially, PTL DEF Spec

-----------------------------------------------------------------------------
(* Who is let in, and who is refused *)

(* Whatever has come past the authentication, and whatever it left behind   *)
(* at a service, is entitled.                                               *)
Admitted ==
  \A r \in Requests :
    phase[r] \notin {"new", "done"} \/ work[r] > 0 \/ r \in inbox => Entitled(call[r])

(* A step of the rest of the world touches neither calls nor answers, wakes *)
(* no request and finds none that was not delivered.                        *)
LEMMA WorldStep ==
  ASSUME IInv, NEW r \in Requests,
         \/ \E q \in Requests : Perform(q)
         \/ \E s \in Services : Down(s) \/ Up(s)
         \/ \E t \in Managed : Lapse(t)
         \/ UNCHANGED vars
  PROVE  /\ call' = call /\ answer' = answer
         /\ phase'[r] \in {"new", "done"} <=> phase[r] \in {"new", "done"}
         /\ work'[r] > 0 \/ r \in inbox' => work[r] > 0 \/ r \in inbox
         /\ \A t \in Tokens : keyState'[t] = "live" => keyState[t] = "live"
<1>1. ASSUME NEW q \in Requests, Perform(q)
      PROVE  work'[r] > 0 \/ r \in inbox' => work[r] > 0 \/ r \in inbox
  BY <1>1 DEF Perform, IInv, TypeOK
<1> QED
  BY <1>1 DEF Perform, Down, Up, Lapse, vars, IInv, TypeOK

(* A handler enters its request, or turns it away, as the authentication    *)
(* decides; no later answer is a refusal of the authentication.             *)
LEMMA HandlerStep ==
  ASSUME IInv, NEW r \in Requests, Handle(r)
  PROVE  /\ UNCHANGED <<call, keyState, work>> /\ phase[r] # "done"
         /\ \A q \in Requests \ {r} :
              phase'[q] = phase[q] /\ answer'[q] = answer[q] /\ (q \in inbox' <=> q \in inbox)
         /\ phase[r] = "new" => /\ inbox' = inbox
                                /\ phase'[r] = "done" \/ Verdict(Routed[call[r]].auth, call[r]) = "pass"
         /\ answer'[r] \in {"401", "403", "error"} /\ answer'[r] # answer[r]
              => Verdict(Routed[call[r]].auth, call[r]) = answer'[r]
<1>0. /\ phase \in [Requests -> Phases] /\ answer \in [Requests -> Answers] /\ inbox \subseteq Requests
      /\ route[r] = Routed[call[r]] /\ tries \in [Requests -> 0..2]
  BY DEF IInv, TypeOK, Phases, Answers
<1>1. CASE Arrive(r)
  BY <1>0, <1>1 DEF Arrive, Finish
<1>2. CASE Deliver(r) \/ Wake(r)
  BY <1>0, <1>2 DEF Deliver, Wake
<1>3. CASE Reply(r)
  BY <1>0, <1>3 DEF Reply, Finish
<1>4. ASSUME NEW failure, Fail(r, failure), phase[r] \notin {"new", "done"}
      PROVE  /\ \A q \in Requests \ {r} : phase'[q] = phase[q] /\ answer'[q] = answer[q]
             /\ answer'[r] \notin {"401", "403", "error"} \/ answer'[r] = answer[r]
  BY <1>0, <1>4 DEF Fail, Finish, Outcome
<1>5. CASE Refuse(r) \/ Strand(r) \/ TimeOut(r) \/ Break(r)
  <2>1. /\ UNCHANGED <<keyState, up, outages, call, route, tries, inbox, work>>
        /\ phase[r] \in {"connecting", "waiting", "answered", "broken"}
        /\ \E failure : Fail(r, failure)
    BY <1>5 DEF Refuse, Strand, TimeOut, Break
  <2> QED
    BY <1>4, <2>1
<1> QED
  BY <1>1, <1>2, <1>3, <1>5 DEF Handle

LEMMA AdmittedKept ==
  ASSUME IInv, Admitted, [Next]_vars
  PROVE  Admitted'
<1> SUFFICES ASSUME NEW q \in Requests,
                    phase'[q] \notin {"new", "done"} \/ work'[q] > 0 \/ q \in inbox'
             PROVE  Entitled(call'[q])
  BY DEF Admitted, Entitled, Probe, ReadOnlyPost, Within
<1>0. call[q] \in Calls
  BY DEF IInv, TypeOK
<1>1. ASSUME NEW r \in Requests, Handle(r)
      PROVE  Entitled(call'[q])
  <2>1. CASE q # r
    BY <1>1, <2>1, HandlerStep DEF Admitted
  <2>2. CASE q = r /\ phase[q] # "new"
    BY <1>1, <2>2, HandlerStep DEF Admitted
  <2>3. CASE q = r /\ phase[q] = "new"
    <3>1. work'[q] = 0 /\ q \notin inbox' /\ call'[q] = call[q]
      BY <1>1, <2>3, HandlerStep DEF IInv, Accounted, Standing, Before
    <3>2. Verdict(Routed[call[q]].auth, call[q]) = "pass"
      BY <1>1, <2>3, <3>1, HandlerStep
    <3> QED
      BY <1>0, <3>1, <3>2, PassIsEntitled
  <2> QED
    BY <2>1, <2>2, <2>3
<1>2. ASSUME \/ \E r \in Requests : Perform(r)
             \/ \E s \in Services : Down(s) \/ Up(s)
             \/ \E t \in Managed : Lapse(t)
             \/ UNCHANGED vars
      PROVE  Entitled(call'[q])
  BY <1>2, WorldStep DEF Admitted
<1> QED
  BY <1>1, <1>2 DEF Next

LEMMA CauseKept ==
  ASSUME IInv, RefusedForCause, [Next]_vars
  PROVE  RefusedForCause'
<1> SUFFICES ASSUME NEW q \in Requests, answer'[q] \in {"401", "403", "error"}
             PROVE  /\ ~Probe(call'[q])
                    /\ call'[q].token \in Tokens => keyState'[call'[q].token] # "live" \/ ~Entitled(call'[q])
  BY DEF RefusedForCause, Entitled, Probe, ReadOnlyPost, Within
<1>0. call[q] \in Calls
  BY DEF IInv, TypeOK
<1>1. ASSUME NEW r \in Requests, Handle(r)
      PROVE  /\ ~Probe(call'[q])
             /\ call'[q].token \in Tokens => keyState'[call'[q].token] # "live" \/ ~Entitled(call'[q])
  <2>0. call' = call /\ keyState' = keyState
    BY <1>1, HandlerStep
  <2>1. CASE answer'[q] = answer[q]
    BY <2>0, <2>1 DEF RefusedForCause
  <2>2. CASE answer'[q] # answer[q]
    <3>1. Verdict(Routed[call[q]].auth, call[q]) \in {"401", "403", "error"}
      BY <1>1, <2>2, HandlerStep
    <3> QED
      BY <1>0, <2>0, <3>1, RefusalHasCause
  <2> QED
    BY <2>1, <2>2
<1>2. ASSUME \/ \E r \in Requests : Perform(r)
             \/ \E s \in Services : Down(s) \/ Up(s)
             \/ \E t \in Managed : Lapse(t)
             \/ UNCHANGED vars
      PROVE  /\ ~Probe(call'[q])
             /\ call'[q].token \in Tokens => keyState'[call'[q].token] # "live" \/ ~Entitled(call'[q])
  BY <1>2, WorldStep DEF RefusedForCause
<1> QED
  BY <1>1, <1>2 DEF Next

-----------------------------------------------------------------------------
(* The theorems *)

(* Every variable keeps its shape, and no request is tried more than twice. *)
THEOREM TypeCorrect == Spec => []TypeOK
  BY Inductive, PTL DEF IInv

(* No request is worked on twice, however many are in flight, whatever is   *)
(* refused, lost, late or retried (_forward of the proxies).                *)
THEOREM WorkedOnOnce == Spec => []AtMostOnce
<1>1. IInv => AtMostOnce
  BY DEF IInv, Accounted, Standing, AtMostOnce
<1> QED
  BY <1>1, Inductive, PTL

(* A refusal means the work was not and will not be done, a success that it *)
(* was (the status codes the proxies map failures to).                      *)
THEOREM AnswersTrue == Spec => []AnswersTruthful
<1>1. IInv => AnswersTruthful
  BY DEF IInv, Accounted, Truthful, AnswersTruthful
<1> QED
  BY <1>1, Inductive, PTL

(* Nothing reaches a service that is not the probe or sent with a known key *)
(* whose scope and endpoint restriction cover it, whatever text the         *)
(* restrictions are typed as (write_auth, read_auth and                     *)
(* _check_endpoint_access, behind the routers).                             *)
THEOREM OnlyTheEntitled == Spec => []OnlyEntitled
<1>1. Init => Admitted
  BY DEF Init, Admitted
<1>2. Admitted => OnlyEntitled
  BY DEF Admitted, OnlyEntitled
<1> QED
  BY <1>1, <1>2, AdmittedKept, Inductive, PTL DEF Spec

(* Nobody is refused whose current key covers the request.                  *)
THEOREM RefusalsHaveCause == Spec => []RefusedForCause
<1>1. Init => RefusedForCause
  BY DEF Init, RefusedForCause
<1> QED
  BY <1>1, CauseKept, Inductive, PTL DEF Spec

-----------------------------------------------------------------------------
(* The gateway implements UpstreamCall *)

LEMMA ToldOf ==
  ASSUME IInv, NEW r \in Requests
  PROVE  /\ Told(answer[r]) = "nothing" <=> answer[r] = "none"
         /\ Told(answer[r]) \in {"nothing", "refused", "done", "unknown"}
         /\ r \in inbox => Told(answer[r]) \in {"nothing", "unknown"}
  BY DEF IInv, Accounted, Standing, Truthful, TypeOK, Told, TurnedAway

LEMMA MapsInit == Init => Promise!Init
  BY DEF Init, Promise!Init, Told

(* The service doing the work is the abstract Perform: it was not done, and *)
(* nobody was told that it would not be.                                    *)
LEMMA MapsPerform ==
  ASSUME IInv, NEW r \in Requests, Perform(r)
  PROVE  Promise!Perform(r)
<1>1. work[r] = 0
  BY DEF Perform, IInv, Accounted, Standing
<1>2. Told(answer[r]) \in {"nothing", "unknown"}
  BY ToldOf DEF Perform
<1> QED
  BY <1>1, <1>2 DEF Perform, Promise!Perform, IInv, TypeOK

(* An answer tells the caller something that the work bears out; every other*)
(* step of a handler is a stutter.                                          *)
LEMMA MapsHandle ==
  ASSUME IInv, IInv', NEW r \in Requests, Handle(r)
  PROVE  \/ Promise!Refuse(r) \/ Promise!Succeed(r) \/ Promise!GiveUp(r)
         \/ UNCHANGED Promise!vars
<1>1. work' = work
  BY DEF Handle, Arrive, Deliver, Refuse, Strand, Wake, Reply, TimeOut, Break
<1>2. answer' = answer \/ \E what : Finish(r, what)
  BY DEF Handle, Arrive, Deliver, Refuse, Strand, Wake, Reply, TimeOut, Break, Fail
<1>3. CASE answer' = answer
  BY <1>1, <1>3 DEF Promise!vars
<1>4. ASSUME NEW what, Finish(r, what), answer' # answer
      PROVE  Promise!Refuse(r) \/ Promise!Succeed(r) \/ Promise!GiveUp(r)
  <2>1. phase[r] # "done" /\ answer[r] = "none"
    <3>1. phase[r] # "done"
      BY DEF Handle, Arrive, Deliver, Refuse, Strand, Wake, Reply, TimeOut, Break
    <3> QED
      BY <3>1 DEF IInv, Accounted, Truthful
  <2>2. answer' = [answer EXCEPT ![r] = what] /\ answer'[r] = what /\ what # "none"
    BY <1>4, <2>1 DEF Finish, IInv, TypeOK
  <2>3. Told(answer[r]) = "nothing"
    BY <2>1 DEF Told
  <2>4. [q \in Requests |-> Told(answer'[q])]
          = [[q \in Requests |-> Told(answer[q])] EXCEPT ![r] = Told(what)]
    BY <2>2 DEF IInv, TypeOK
  <2>5. /\ what \in TurnedAway => work[r] = 0
        /\ what \in {"upstream", "500"} => work[r] = 1
    BY <1>1, <2>2 DEF IInv, Accounted, Truthful
  <2>6. \/ Told(what) = "refused" /\ what \in TurnedAway
        \/ Told(what) = "done" /\ what \in {"upstream", "500"}
        \/ Told(what) = "unknown"
    BY <2>2 DEF Told
  <2> QED
    BY <1>1, <2>3, <2>4, <2>5, <2>6 DEF Promise!Refuse, Promise!Succeed, Promise!GiveUp, Promise!Tell
<1> QED
  BY <1>2, <1>3, <1>4

LEMMA MapsNext ==
  ASSUME IInv, IInv', [Next]_vars
  PROVE  [Promise!Next]_Promise!vars
<1>1. ASSUME NEW r \in Requests, Handle(r) \/ Perform(r)
      PROVE  [Promise!Next]_Promise!vars
  BY <1>1, MapsHandle, MapsPerform DEF Promise!Next
<1>2. ASSUME \/ \E s \in Services : Down(s) \/ Up(s)
             \/ \E t \in Managed : Lapse(t)
             \/ UNCHANGED vars
      PROVE  UNCHANGED Promise!vars
  BY <1>2 DEF Down, Up, Lapse, vars, Promise!vars
<1> QED
  BY <1>1, <1>2 DEF Next

(* The gateway, its retries and its failures keep what UpstreamCall promises*)
(* a caller: at most one execution, and an answer that fits it.             *)
THEOREM GatewayImplementsUpstreamCall == Spec => ImplementsUpstreamCall
  BY MapsInit, MapsNext, Inductive, PTL DEF Spec, ImplementsUpstreamCall, Promise!Spec
=============================================================================
