------------------------- MODULE BrevoSegmentProofs -------------------------
(* Proofs about BrevoSegment, for any segment, any sizes of pages and       *)
(* chunks, any number of retries and any changes by others: the report adds *)
(* up, and a segment that nobody changes is updated whole.                  *)
EXTENDS BrevoSegment, SequenceTheorems, FiniteSetTheorems, WellFoundedInduction, TLAPS

USE SizesOK

-----------------------------------------------------------------------------
(* Induction, stated with sets                                              *)

(* What holds of zero and of the successor of what it holds of, holds of    *)
(* every natural number: else there is a least one of which it does not.    *)
LEMMA Induction ==
  ASSUME NEW S, 0 \in S, \A n \in Nat : n \in S => n + 1 \in S
  PROVE  Nat \subseteq S
<1> DEFINE less == {ss \in Nat \X Nat : ss[1] < ss[2]}
<1> SUFFICES ASSUME Nat \ S # {} PROVE FALSE
  OBVIOUS
<1>1. IsWellFoundedOn(less, Nat)
  BY NatLessThanWellFounded DEF OpToRel
<1>2. PICK x \in Nat \ S : \A y \in Nat \ S : ~(<<y, x>> \in less)
  <2> HIDE DEF less
  <2> QED
    BY <1>1, WFMin
<1>3. x # 0 /\ x - 1 \in Nat /\ x - 1 < x
  BY <1>2
<1>4. x - 1 \in Nat \ S
  BY <1>2, <1>3
<1> QED
  BY <1>2, <1>3, <1>4

-----------------------------------------------------------------------------
(* The list of addressed contacts *)

(* The loop that builds it, for the first k contacts of s.                  *)
Builds(f, s, k) ==
  f = [n \in 0..k |-> IF n = 0 THEN <<>>
                      ELSE IF s[n] \in HasEmail THEN Append(f[n - 1], s[n]) ELSE f[n - 1]]

LEMMA Buildable ==
  ASSUME NEW s, NEW m \in Nat
  PROVE  \E f : Builds(f, s, m)
<1> DEFINE D == {k \in Nat : \E f : Builds(f, s, k)}
<1>1. 0 \in D
  <2> DEFINE f == [n \in 0..0 |-> <<>>]
  <2>1. Builds(f, s, 0)
    BY DEF Builds
  <2> HIDE DEF f
  <2> QED
    BY <2>1
<1>2. ASSUME NEW k \in Nat, k \in D
      PROVE  k + 1 \in D
  <2>1. PICK f : Builds(f, s, k)
    BY <1>2, Zenon
  <2> DEFINE next == IF s[k + 1] \in HasEmail THEN Append(f[k], s[k + 1]) ELSE f[k]
             g == [n \in 0..k + 1 |-> IF n = k + 1 THEN next ELSE f[n]]
  <2>2. ASSUME NEW n \in 0..k + 1
        PROVE  g[n] = IF n = 0 THEN <<>>
                      ELSE IF s[n] \in HasEmail THEN Append(g[n - 1], s[n]) ELSE g[n - 1]
    <3>1. CASE n = k + 1
      <4>1. n # 0 /\ n - 1 = k /\ g[n - 1] = f[k] /\ g[n] = next
        BY <3>1
      <4> QED
        BY <3>1, <4>1
    <3>2. CASE n # k + 1
      <4>1. n \in 0..k
        BY <3>2
      <4>2. f[n] = IF n = 0 THEN <<>>
                   ELSE IF s[n] \in HasEmail THEN Append(f[n - 1], s[n]) ELSE f[n - 1]
        BY <2>1, <4>1 DEF Builds
      <4>3. g[n] = f[n] /\ (n # 0 => g[n - 1] = f[n - 1])
        BY <3>2, <4>1
      <4> QED
        BY <4>2, <4>3
    <3> QED
      BY <3>1, <3>2
  <2>3. g = [n \in 0..k + 1 |-> g[n]]
    OBVIOUS
  <2>4. Builds(g, s, k + 1)
    <3> HIDE DEF g
    <3> QED
      BY <2>2, <2>3 DEF Builds
  <2> HIDE DEF g
  <2> QED
    BY <2>4
<1> HIDE DEF D
<1>3. m \in D
  BY <1>1, <1>2, Induction
<1> QED
  BY <1>3 DEF D

(* It is the contacts that have an address, all of them and in the type of  *)
(* the others.                                                              *)
LEMMA Addressed ==
  ASSUME NEW S, contacts \in Seq(S)
  PROVE  /\ contacts_json \in Seq(S)
         /\ ToSet(contacts) \cap HasEmail \subseteq ToSet(contacts_json)
<1> DEFINE m == Len(contacts)
           f == CHOOSE f : Builds(f, contacts, m)
<1>1. m \in Nat
  OBVIOUS
<1>2. Builds(f, contacts, m)
  <2>1. \E g : Builds(g, contacts, m)
    BY <1>1, Buildable
  <2> QED
    BY <2>1
<1>3. contacts_json = f[m]
  BY DEF contacts_json, Builds
<1> HIDE DEF f
<1>4. f[0] = <<>>
  BY <1>1, <1>2 DEF Builds
<1>5. ASSUME NEW n \in Nat, n + 1 <= m
      PROVE  f[n + 1] = IF contacts[n + 1] \in HasEmail THEN Append(f[n], contacts[n + 1]) ELSE f[n]
  <2> HIDE DEF m
  <2>1. n + 1 \in 0..m /\ n + 1 # 0 /\ (n + 1) - 1 = n
    BY <1>1, <1>5
  <2> QED
    BY <1>2, <2>1 DEF Builds
<1> DEFINE Good(n) ==
      /\ f[n] \in Seq(S)
      /\ \A j \in 1..n : contacts[j] \in HasEmail => contacts[j] \in ToSet(f[n])
           D == {n \in Nat : n <= m => Good(n)}
<1>6. 0 \in D
  <2>1. Good(0)
    BY <1>4
  <2> QED
    BY <2>1
<1>7. ASSUME NEW n \in Nat, n \in D
      PROVE  n + 1 \in D
  <2> SUFFICES ASSUME n + 1 <= m PROVE Good(n + 1)
    OBVIOUS
  <2>1. Good(n)
    BY <1>1, <1>7
  <2>2. contacts[n + 1] \in S
    BY <1>1
  <2>3. CASE contacts[n + 1] \in HasEmail
    <3>1. f[n + 1] = Append(f[n], contacts[n + 1])
      BY <1>5, <2>3
    <3>2. /\ f[n + 1] \in Seq(S) /\ Len(f[n + 1]) = Len(f[n]) + 1
          /\ \A i \in 1..Len(f[n]) : f[n + 1][i] = f[n][i]
          /\ f[n + 1][Len(f[n]) + 1] = contacts[n + 1]
      BY <2>1, <2>2, <3>1, AppendProperties
    <3> DEFINE old == f[n]
               new == f[n + 1]
    <3>3. ToSet(old) \subseteq ToSet(new) /\ contacts[n + 1] \in ToSet(new)
      <4>1. /\ old \in Seq(S) /\ new \in Seq(S) /\ Len(new) = Len(old) + 1 /\ new[Len(old) + 1] = contacts[n + 1]
            /\ \A i \in 1..Len(old) : new[i] = old[i]
        BY <2>1, <3>2
      <4> HIDE DEF old, new
      <4>2. DOMAIN old = 1..Len(old) /\ DOMAIN new = 1..Len(new) /\ Len(old) \in Nat
        BY <4>1
      <4>3. ASSUME NEW i \in DOMAIN old PROVE i \in DOMAIN new /\ new[i] = old[i]
        BY <4>1, <4>2
      <4>4. Len(old) + 1 \in DOMAIN new
        BY <4>1, <4>2
      <4> QED
        BY <4>1, <4>3, <4>4 DEF ToSet
    <3> QED
      BY <2>1, <3>2, <3>3
  <2>4. CASE contacts[n + 1] \notin HasEmail
    <3>1. f[n + 1] = f[n]
      BY <1>5, <2>4
    <3> QED
      BY <2>1, <2>4, <3>1
  <2> QED
    BY <2>3, <2>4
<1>8. Good(m)
  <2> HIDE DEF D
  <2>1. m \in D
    BY <1>1, <1>6, <1>7, Induction
  <2> QED
    BY <1>1, <2>1 DEF D
<1>9. \A c \in ToSet(contacts) : \E j \in 1..m : c = contacts[j]
  BY DEF ToSet
<1> QED
  BY <1>3, <1>8, <1>9
-----------------------------------------------------------------------------
(* Types *)

TypeOK ==
  /\ segment \in Seq(Contacts) /\ contacts \in Seq(Contacts)
  /\ changes \in Nat /\ offset \in Nat /\ start \in Nat /\ updated \in Nat
  /\ pc \in {"fetching", "importing", "done"}
  /\ failures \subseteq Nat

SliceEnd(s, from, size) == IF from + size < Len(s) THEN from + size ELSE Len(s)

(* A slice: the elements past `from`, up to `size` of them.                 *)
LEMMA SliceIs ==
  ASSUME NEW S, NEW s \in Seq(S), NEW from \in Nat, NEW size \in Nat
  PROVE  /\ Slice(s, from, size) \in Seq(S)
         /\ Len(Slice(s, from, size)) =
              IF from < SliceEnd(s, from, size) THEN SliceEnd(s, from, size) - from ELSE 0
         /\ \A x : x \in ToSet(Slice(s, from, size)) <=>
                    \E j \in from + 1..SliceEnd(s, from, size) : x = s[j]
<1> DEFINE end == SliceEnd(s, from, size)
           slice == Slice(s, from, size)
<1>1. Len(s) \in Nat /\ end \in Nat /\ end <= Len(s) /\ \A j \in 1..Len(s) : s[j] \in S
  BY LenProperties, ElementOfSeq DEF SliceEnd
<1>2. slice = SubSeq(s, from + 1, end)
  BY DEF Slice, SliceEnd
<1> HIDE DEF end
<1>3. from + 1 \in Int /\ end \in Int /\ \A j \in from + 1..end : s[j] \in S
  BY <1>1
<1>4. /\ SubSeq(s, from + 1, end) \in Seq(S)
      /\ Len(SubSeq(s, from + 1, end)) = IF from + 1 <= end THEN end - (from + 1) + 1 ELSE 0
      /\ \A i \in 1..end - (from + 1) + 1 : SubSeq(s, from + 1, end)[i] = s[from + 1 + i - 1]
  BY ONLY <1>3, SubSeqProperties
<1> HIDE DEF slice
<1>5. slice \in Seq(S) /\ Len(slice) = IF from < end THEN end - from ELSE 0
  BY <1>1, <1>2, <1>4
<1>6. \A i \in 1..end - from : slice[i] = s[from + i]
  BY <1>1, <1>2, <1>4
<1>7. DOMAIN slice = 1..end - from
  <2>1. DOMAIN slice = 1..Len(slice)
    BY <1>5
  <2> QED
    BY <1>1, <1>5, <2>1
<1>8. ToSet(slice) \subseteq {s[j] : j \in from + 1..end}
  <2>1. ASSUME NEW i \in 1..end - from PROVE from + i \in from + 1..end /\ slice[i] = s[from + i]
    BY <1>1, <1>6
  <2> QED
    BY <1>7, <2>1 DEF ToSet
<1>9. {s[j] : j \in from + 1..end} \subseteq ToSet(slice)
  <2>1. ASSUME NEW j \in from + 1..end PROVE j - from \in 1..end - from /\ slice[j - from] = s[j]
    <3>1. j - from \in 1..end - from
      BY <1>1
    <3>2. slice[j - from] = s[from + (j - from)]
      BY <1>6, <3>1
    <3>3. from + (j - from) = j
      BY <1>1
    <3> QED
      BY <3>1, <3>2, <3>3
  <2> QED
    BY <1>7, <2>1 DEF ToSet
<1> QED
  BY <1>5, <1>8, <1>9 DEF slice, end

LEMMA TypeStep == TypeOK /\ [Next]_vars => TypeOK'
<1> SUFFICES ASSUME TypeOK, [Next]_vars
             PROVE  TypeOK'
  OBVIOUS
<1>0. PageSize \in Nat /\ ChunkSize \in Nat
  OBVIOUS
<1>1. CASE GetPage
  <2>1. Slice(segment, offset, PageSize) \in Seq(Contacts)
    BY <1>0, SliceIs DEF TypeOK
  <2>2. contacts \o Slice(segment, offset, PageSize) \in Seq(Contacts)
    BY <2>1, ConcatProperties DEF TypeOK
  <2>a. contacts \in Seq(Contacts) /\ offset \in Nat /\ pc \in {"fetching", "importing", "done"}
    BY DEF TypeOK
  <2>b. \/ pc' = "importing" /\ contacts' = contacts /\ offset' = offset
        \/ contacts' = contacts \o Slice(segment, offset, PageSize) /\ offset' = offset + PageSize /\ pc' = pc
    BY <1>1 DEF GetPage
  <2>3. contacts' \in Seq(Contacts) /\ offset' \in Nat /\ pc' \in {"fetching", "importing", "done"}
    <3>1. offset + PageSize \in Nat
      BY <1>0, <2>a
    <3> QED
      BY <2>2, <2>a, <2>b, <3>1
  <2>4. UNCHANGED <<segment, changes, start, updated, failures>>
    BY <1>1 DEF GetPage, brevo
  <2> QED
    BY <2>3, <2>4 DEF TypeOK
<1>2. CASE GetPageFails \/ ImportRaises \/ Report
  BY <1>2 DEF GetPageFails, ImportRaises, Report, Answer, TypeOK, brevo
<1>3. CASE Import
  <2>1. Len(Chunk) \in Nat
    <3>1. contacts_json \in Seq(Contacts)
      BY Addressed DEF TypeOK
    <3>2. Chunk \in Seq(Contacts)
      BY <1>0, <3>1, SliceIs DEF TypeOK, Chunk
    <3> QED
      BY <3>2
  <2> QED
    BY <1>0, <1>3, <2>1 DEF Import, NextChunk, TypeOK, brevo
<1>4. CASE ImportFails
  <2>a. start \in Nat /\ failures \subseteq Nat
    BY DEF TypeOK
  <2>b. \/ UNCHANGED <<start, failures>>
        \/ start' = start + ChunkSize /\ failures' = failures \cup {start}
    BY <1>4 DEF ImportFails, NextChunk
  <2>1. start' \in Nat /\ failures' \subseteq Nat
    <3>1. start + ChunkSize \in Nat
      BY <1>0, <2>a
    <3> QED
      BY <2>a, <2>b, <3>1
  <2>2. UNCHANGED <<segment, contacts, changes, offset, updated, pc>>
    BY <1>4 DEF ImportFails, brevo
  <2> QED
    BY <2>1, <2>2 DEF TypeOK
<1>5. CASE Leave
  <2>1. PICK i \in DOMAIN segment : segment' = RemoveAt(segment, i)
    BY <1>5 DEF Leave
  <2>2. segment' \in Seq(Contacts)
    <3>1. segment \in Seq(Contacts) /\ i \in Int /\ Len(segment) \in Int /\ 1 <= i /\ i <= Len(segment)
      BY <2>1 DEF TypeOK
    <3>2. SubSeq(segment, 1, i - 1) \in Seq(Contacts)
      BY <3>1, ElementOfSeq, SubSeqProperties
    <3>3. SubSeq(segment, i + 1, Len(segment)) \in Seq(Contacts)
      BY <3>1, ElementOfSeq, SubSeqProperties
    <3> QED
      BY <2>1, <3>2, <3>3, ConcatProperties DEF RemoveAt
  <2> QED
    BY <1>5, <2>2 DEF Leave, TypeOK
<1>6. CASE Join
  <2>1. PICK c \in Contacts, i \in 1..Len(segment) + 1 : segment' = InsertAt(segment, i, c)
    BY <1>6 DEF Join
  <2>2. segment' \in Seq(Contacts)
    <3>1. segment \in Seq(Contacts) /\ i \in Int /\ Len(segment) \in Int /\ 1 <= i /\ i - 1 <= Len(segment)
      BY <2>1 DEF TypeOK
    <3>2. SubSeq(segment, 1, i - 1) \in Seq(Contacts) /\ <<c>> \in Seq(Contacts)
      BY <3>1, ElementOfSeq, SubSeqProperties
    <3>3. SubSeq(segment, i, Len(segment)) \in Seq(Contacts)
      BY <3>1, ElementOfSeq, SubSeqProperties
    <3>4. SubSeq(segment, 1, i - 1) \o <<c>> \in Seq(Contacts)
      BY <3>2, ConcatProperties
    <3> QED
      BY <2>1, <3>3, <3>4, ConcatProperties DEF InsertAt
  <2> QED
    BY <1>6, <2>2 DEF Join, TypeOK
<1>7. CASE UNCHANGED vars
  BY <1>7 DEF vars, TypeOK
<1> QED
  BY <1>1, <1>2, <1>3, <1>4, <1>5, <1>6, <1>7 DEF Next, Calls
-----------------------------------------------------------------------------
(* The report *)

(* The contacts before `start` of whom the report says they were updated,   *)
(* for other values of `start` and `failures`.                              *)
PassedBy(upto, failed) ==
  {j \in 1..total : j <= upto /\ ~\E from \in failed : from < j /\ j <= from + ChunkSize}

LEMMA PassedIs == Passed = PassedBy(start, failures)
  BY DEF Passed, PassedBy, Reported

(* One chunk further, none of it reported: the chunk is added, and it is    *)
(* counted.                                                                 *)
LEMMA ChunkPasses ==
  ASSUME TypeOK, LoopInv, start < total
  PROVE  LET more == PassedBy(start + ChunkSize, failures) IN
         /\ Cardinality(more) = Cardinality(Passed) + Len(Chunk)
         /\ \A j \in more : j \in Passed \/ contacts_json[j] \in ToSet(Chunk)
<1> DEFINE more == PassedBy(start + ChunkSize, failures)
           end == IF start + ChunkSize < total THEN start + ChunkSize ELSE total
           now == start + 1..end
<1>0. start \in Nat /\ ChunkSize \in Nat \ {0} /\ total \in Nat /\ failures \subseteq Nat
      /\ contacts_json \in Seq(Contacts)
  BY Addressed, LenProperties DEF TypeOK, total
<1>1. Len(Chunk) = end - start /\ \A x : x \in ToSet(Chunk) <=> \E j \in now : x = contacts_json[j]
  <2>1. end = SliceEnd(contacts_json, start, ChunkSize) /\ ChunkSize \in Nat
    BY DEF total, SliceEnd
  <2> HIDE DEF end
  <2>2. Len(Chunk) = IF start < end THEN end - start ELSE 0
    BY <1>0, <2>1, SliceIs DEF Chunk
  <2>4. \A x : x \in ToSet(Chunk) <=> \E j \in start + 1..end : x = contacts_json[j]
    <3>1. \A x : x \in ToSet(Slice(contacts_json, start, ChunkSize)) <=>
                   \E j \in start + 1..SliceEnd(contacts_json, start, ChunkSize) : x = contacts_json[j]
      BY <1>0, <2>1, SliceIs, Zenon
    <3> QED
      BY <2>1, <3>1 DEF Chunk
  <2>3. start < end
    BY <1>0 DEF end
  <2> QED
    BY <2>2, <2>3, <2>4
<1>2. Cardinality(now) = end - start /\ IsFiniteSet(now)
  <2>1. start + 1 \in Int /\ end \in Int /\ start < end
    BY <1>0
  <2> HIDE DEF end
  <2>2. /\ IsFiniteSet(start + 1..end)
        /\ Cardinality(start + 1..end) = IF start + 1 > end THEN 0 ELSE end - (start + 1) + 1
    BY <2>1, FS_Interval, Zenon
  <2>3. ~(start + 1 > end) /\ end - (start + 1) + 1 = end - start
    BY <1>0, <2>1
  <2> QED
    BY <2>2, <2>3
<1>3. IsFiniteSet(Passed) /\ Passed \cap now = {}
  <2>1. Passed \subseteq 1..total
    BY DEF Passed
  <2>2. IsFiniteSet(1..total)
    <3>1. 1 \in Int /\ total \in Int
      BY <1>0
    <3> QED
      BY <3>1, FS_Interval, Zenon
  <2>3. IsFiniteSet(Passed)
    BY <2>1, <2>2, FS_Subset
  <2> QED
    BY <1>0, <2>3 DEF Passed
<1>4. more = Passed \cup now
  <2>1. ASSUME NEW j \in now PROVE j \in more
    <3>1. j \in Nat /\ start < j /\ j <= start + ChunkSize /\ j \in 1..total
      BY <1>0
    <3>2. \A from \in failures : ~(from < j /\ j <= from + ChunkSize)
      BY <1>0, <3>1 DEF LoopInv
    <3> QED
      BY <3>1, <3>2 DEF PassedBy
  <2>2. ASSUME NEW j \in Passed PROVE j \in more
    BY <1>0 DEF Passed, PassedBy, Reported
  <2>3. ASSUME NEW j \in more PROVE j \in Passed \/ j \in now
    BY <1>0 DEF Passed, PassedBy, Reported
  <2> HIDE DEF more, now
  <2> QED
    BY <2>1, <2>2, <2>3
<1>5. Cardinality(more) = Cardinality(Passed) + Len(Chunk)
  <2>1. Cardinality(Passed \cup now) = Cardinality(Passed) + Cardinality(now) - Cardinality({})
    <3> HIDE DEF now
    <3> QED
      BY <1>2, <1>3, FS_Union
  <2>2. Cardinality({}) = 0 /\ Cardinality(Passed) \in Nat
    BY <1>3, FS_EmptySet, FS_CardinalityType
  <2>3. end - start \in Int
    BY <1>0
  <2> HIDE DEF more, now, end
  <2> QED
    BY <1>1, <1>2, <1>4, <2>1, <2>2, <2>3
<1>6. \A j \in more : j \in Passed \/ contacts_json[j] \in ToSet(Chunk)
  <2> HIDE DEF now, more
  <2> QED
    BY <1>1, <1>4
<1> QED
  BY <1>5, <1>6

(* One chunk further that is reported: nobody is added.                     *)
LEMMA ChunkReported ==
  ASSUME TypeOK
  PROVE  PassedBy(start + ChunkSize, failures \cup {start}) = Passed
<1>1. start \in Nat /\ ChunkSize \in Nat \ {0} /\ total \in Nat /\ failures \subseteq Nat
  BY Addressed, LenProperties DEF TypeOK, total
<1>2. ASSUME NEW j \in 1..total
      PROVE  j \in PassedBy(start + ChunkSize, failures \cup {start}) <=> j \in Passed
  <2>1. start < j /\ j <= start + ChunkSize <=> ~(j <= start) /\ j <= start + ChunkSize
    BY <1>1
  <2>2. j <= start => j <= start + ChunkSize
    BY <1>1
  <2> QED
    BY <2>1, <2>2 DEF Passed, PassedBy, Reported
<1> QED
  BY <1>2 DEF Passed, PassedBy

LEMMA LoopStep == TypeOK /\ LoopInv /\ [Next]_vars => LoopInv'
<1> SUFFICES ASSUME TypeOK, LoopInv, [Next]_vars
             PROVE  LoopInv'
  OBVIOUS
<1>0. start \in Nat /\ ChunkSize \in Nat \ {0} /\ total \in Nat /\ failures \subseteq Nat
  BY Addressed, LenProperties DEF TypeOK, total
<1>j. contacts' = contacts => contacts_json' = contacts_json /\ total' = total
  BY DEF contacts_json, total
<1>p. contacts' = contacts => Passed' = PassedBy(start', failures')
  BY <1>j DEF Passed, PassedBy, Reported
<1>1. CASE GetPage
  <2>1. pc = "fetching" /\ UNCHANGED <<start, updated, failures, holds, resp>>
        /\ (pc' # "fetching" => contacts' = contacts /\ pc' = "importing")
    BY <1>1 DEF GetPage
  <2>2. Passed' = {}
    <3>1. start' = 0
      BY <2>1 DEF LoopInv
    <3> QED
      BY <3>1 DEF Passed
  <2>3. updated' = Cardinality(Passed') /\ \A j \in Passed' : contacts_json'[j] \in holds'
    BY <2>1, <2>2, FS_EmptySet DEF LoopInv
  <2> QED
    BY <2>1, <2>3 DEF LoopInv
<1>2. CASE GetPageFails
  <2>1. pc = "fetching" /\ UNCHANGED <<contacts, start, updated, failures, holds>> /\ resp' # "success"
        /\ (pc' # "done" => resp' = resp)
    BY <1>2 DEF GetPageFails, Answer, LoopInv
  <2>2. Passed' = {}
    <3>1. start' = 0
      BY <2>1 DEF LoopInv
    <3> QED
      BY <3>1 DEF Passed
  <2>3. updated' = Cardinality(Passed') /\ \A j \in Passed' : contacts_json'[j] \in holds'
    BY <2>1, <2>2, FS_EmptySet DEF LoopInv
  <2> QED
    BY <2>1, <2>3 DEF LoopInv
<1>3. CASE Import
  <2>1. /\ pc = "importing" /\ start < total /\ start' = start + ChunkSize
        /\ holds' = holds \cup ToSet(Chunk) /\ updated' = updated + Len(Chunk)
        /\ UNCHANGED <<pc, contacts, failures, resp>>
    BY <1>3 DEF Import, Importing, NextChunk
  <2>2. resp = "none" /\ updated = Cardinality(Passed) /\ \A j \in Passed : contacts_json[j] \in holds
    BY <2>1 DEF LoopInv
  <2>3. Passed' = PassedBy(start + ChunkSize, failures)
    BY <1>p, <2>1
  <2>4. /\ Cardinality(Passed') = Cardinality(Passed) + Len(Chunk)
        /\ \A j \in Passed' : j \in Passed \/ contacts_json[j] \in ToSet(Chunk)
    BY <2>1, <2>3, ChunkPasses
  <2>5. updated' = Cardinality(Passed') /\ \A j \in Passed' : contacts_json'[j] \in holds'
    BY <1>j, <2>1, <2>2, <2>4
  <2>6. \A from \in failures' : from + ChunkSize <= start'
    BY <1>0, <2>1 DEF LoopInv
  <2> QED
    BY <2>1, <2>2, <2>5, <2>6 DEF LoopInv
<1>4. CASE ImportFails
  <2>1. pc = "importing" /\ start < total /\ UNCHANGED <<pc, contacts, updated, holds, resp>>
    BY <1>4 DEF ImportFails, Importing
  <2>2. resp = "none" /\ updated = Cardinality(Passed) /\ \A j \in Passed : contacts_json[j] \in holds
    BY <2>1 DEF LoopInv
  <2>3. CASE UNCHANGED <<start, failures>>
    <3>1. Passed' = Passed
      BY <1>p, <2>1, <2>3, PassedIs
    <3> QED
      BY <1>j, <2>1, <2>2, <2>3, <3>1 DEF LoopInv
  <2>4. CASE NextChunk /\ failures' = failures \cup {start}
    <3>1. Passed' = Passed
      BY <1>p, <2>1, <2>4, ChunkReported DEF NextChunk
    <3>2. \A from \in failures' : from + ChunkSize <= start'
      BY <1>0, <2>4 DEF LoopInv, NextChunk
    <3> QED
      BY <1>j, <2>1, <2>2, <3>1, <3>2 DEF LoopInv
  <2> QED
    BY <1>4, <2>3, <2>4 DEF ImportFails
<1>5. CASE ImportRaises
  <2>1. pc = "importing" /\ pc' = "done" /\ resp' = "500" /\ holds \subseteq holds'
        /\ UNCHANGED <<contacts, start, updated, failures>>
    BY <1>5 DEF ImportRaises, Importing, Answer
  <2>2. Passed' = Passed
    BY <1>p, <2>1, PassedIs
  <2> QED
    BY <1>j, <2>1, <2>2 DEF LoopInv
<1>6. CASE Report
  <2>1. pc = "importing" /\ pc' = "done" /\ resp' = "success" /\ start >= total
        /\ UNCHANGED <<contacts, start, updated, failures, holds>>
    BY <1>6 DEF Report, Answer
  <2>2. Passed' = Passed
    BY <1>p, <2>1, PassedIs
  <2> QED
    BY <1>j, <2>1, <2>2 DEF LoopInv
<1>7. CASE Leave \/ Join \/ UNCHANGED vars
  <2>1. UNCHANGED <<pc, contacts, start, updated, failures, holds, resp>>
    BY <1>7 DEF Leave, Join, vars
  <2>2. Passed' = Passed
    BY <1>p, <2>1, PassedIs
  <2> QED
    BY <1>j, <2>1, <2>2 DEF LoopInv
<1> QED
  BY <1>1, <1>2, <1>3, <1>4, <1>5, <1>6, <1>7 DEF Next, Calls
-----------------------------------------------------------------------------
(* A segment that nobody changes *)

LEMMA SteadyStep == TypeOK /\ LoopInv /\ SteadyInv /\ [Next]_vars => SteadyInv'
<1> SUFFICES ASSUME TypeOK, LoopInv, SteadyInv, [Next]_vars, changes' = 0
             PROVE  /\ segment' = Segment0 /\ stayed' = ToSet(Segment0)
                    /\ pc' = "fetching" =>
                         \A i \in DOMAIN segment' : i <= offset' => segment'[i] \in ToSet(contacts')
                    /\ pc' = "importing" \/ resp' = "success" => ToSet(segment') \subseteq ToSet(contacts')
  BY DEF SteadyInv
<1>0. PageSize \in Nat \ {0} /\ offset \in Nat /\ segment \in Seq(Contacts) /\ contacts \in Seq(Contacts)
  BY DEF TypeOK
<1>1. UNCHANGED brevo /\ changes = 0
  <2>1. CASE Leave \/ Join
    BY <2>1 DEF Leave, Join, TypeOK
  <2>2. CASE ~(Leave \/ Join)
    BY <2>2 DEF Next, Calls, GetPage, GetPageFails, Import, ImportFails, ImportRaises, Report, vars, brevo
  <2> QED
    BY <2>1, <2>2
<1>2. segment' = Segment0 /\ stayed' = ToSet(Segment0) /\ segment' = segment
  BY <1>1 DEF SteadyInv, brevo
<1>3. CASE GetPage
  <2> DEFINE page == Slice(segment, offset, PageSize)
             end == IF offset + PageSize < Len(segment) THEN offset + PageSize ELSE Len(segment)
  <2>0. pc = "fetching" /\ resp' = resp /\ resp = "none"
    BY <1>3 DEF GetPage, LoopInv
  <2>1. \A i \in DOMAIN segment : i <= offset => segment[i] \in ToSet(contacts)
    BY <1>1, <2>0 DEF SteadyInv
  <2>2. DOMAIN segment = 1..Len(segment) /\ Len(segment) \in Nat
    BY <1>0, LenProperties
  <2>3. /\ page \in Seq(Contacts) /\ Len(page) = (IF offset < end THEN end - offset ELSE 0)
        /\ \A x : x \in ToSet(page) <=> \E j \in offset + 1..end : x = segment[j]
    <3>1. PageSize \in Nat
      OBVIOUS
    <3>2. end = SliceEnd(segment, offset, PageSize)
      BY DEF SliceEnd
    <3> HIDE DEF end
    <3>3. \A x : x \in ToSet(page) <=>
                   \E j \in offset + 1..SliceEnd(segment, offset, PageSize) : x = segment[j]
      BY <1>0, <3>1, SliceIs, Zenon
    <3>4. page \in Seq(Contacts) /\ Len(page) = (IF offset < end THEN end - offset ELSE 0)
      BY <1>0, <3>1, <3>2, SliceIs
    <3> QED
      BY <3>2, <3>3, <3>4
  <2>4. CASE page = <<>>
    <3>1. pc' = "importing" /\ contacts' = contacts
      BY <1>3, <2>4 DEF GetPage
    <3>2. Len(page) = 0
      BY <2>4
    <3>3. Len(segment) <= offset
      <4> SUFFICES ASSUME offset < Len(segment) PROVE FALSE
        BY <1>0, <2>2
      <4>1. offset < end /\ end \in Nat
        BY <1>0, <2>2
      <4>2. Len(page) = end - offset
        BY <2>3, <4>1
      <4> HIDE DEF page, end
      <4> QED
        BY <1>0, <3>2, <4>1, <4>2
    <3>4. ToSet(segment) \subseteq ToSet(contacts)
      <4>1. \A i \in DOMAIN segment : i <= offset
        BY <1>0, <2>2, <3>3
      <4> QED
        BY <2>1, <4>1 DEF ToSet
    <3> QED
      BY <1>2, <3>1, <3>4
  <2>5. CASE page # <<>>
    <3>1. contacts' = contacts \o page /\ offset' = offset + PageSize /\ pc' = "fetching"
      BY <1>3, <2>0, <2>5 DEF GetPage
    <3> HIDE DEF page
    <3>2. ToSet(contacts) \subseteq ToSet(contacts') /\ ToSet(page) \subseteq ToSet(contacts')
      <4>1. /\ contacts' \in Seq(Contacts) /\ Len(contacts') = Len(contacts) + Len(page)
            /\ \A i \in 1..Len(contacts) + Len(page) :
                 contacts'[i] = IF i <= Len(contacts) THEN contacts[i] ELSE page[i - Len(contacts)]
        BY <1>0, <2>3, <3>1, ConcatProperties
      <4>2. /\ DOMAIN contacts = 1..Len(contacts) /\ Len(contacts) \in Nat
            /\ DOMAIN page = 1..Len(page) /\ Len(page) \in Nat
            /\ DOMAIN contacts' = 1..Len(contacts')
        BY <1>0, <2>3, <4>1, LenProperties
      <4>3. ASSUME NEW i \in DOMAIN contacts PROVE i \in DOMAIN contacts' /\ contacts'[i] = contacts[i]
        BY <4>1, <4>2
      <4>4. ASSUME NEW i \in DOMAIN page
            PROVE  Len(contacts) + i \in DOMAIN contacts' /\ contacts'[Len(contacts) + i] = page[i]
        <5>1. Len(contacts) + i \in 1..Len(contacts) + Len(page) /\ ~(Len(contacts) + i <= Len(contacts))
              /\ (Len(contacts) + i) - Len(contacts) = i
          BY <4>2
        <5> QED
          BY <4>1, <4>2, <5>1
      <4> QED
        BY <4>3, <4>4 DEF ToSet
    <3>3. ASSUME NEW i \in DOMAIN segment, i <= offset + PageSize
          PROVE  segment[i] \in ToSet(contacts')
      <4>1. CASE i <= offset
        BY <2>1, <3>2, <4>1
      <4>2. CASE ~(i <= offset)
        <5>1. i \in offset + 1..end
          BY <1>0, <2>2, <3>3, <4>2
        <5>2. segment[i] \in ToSet(page)
          BY <2>3, <5>1
        <5> QED
          BY <3>2, <5>2
      <4> QED
        BY <4>1, <4>2
    <3> QED
      BY <1>2, <2>0, <3>1, <3>3
  <2> QED
    BY <2>4, <2>5
<1>4. CASE GetPageFails
  <2>1. UNCHANGED <<offset, contacts>> /\ pc = "fetching" /\ resp = "none"
    BY <1>4 DEF GetPageFails, LoopInv
  <2>2. CASE UNCHANGED <<pc, resp>>
    BY <1>1, <1>2, <2>1, <2>2 DEF SteadyInv
  <2>3. CASE Answer("error") \/ Answer("500")
    BY <1>1, <1>2, <2>1, <2>3 DEF SteadyInv, Answer
  <2> QED
    BY <1>4, <2>2, <2>3 DEF GetPageFails
<1>5. CASE Import \/ ImportFails \/ ImportRaises \/ Report
  <2>1. pc = "importing" /\ pc' # "fetching" /\ contacts' = contacts
    BY <1>5 DEF Import, ImportFails, ImportRaises, Report, Importing, Answer
  <2> QED
    BY <1>1, <1>2, <2>1 DEF SteadyInv
<1>6. CASE Leave \/ Join \/ UNCHANGED vars
  <2>1. UNCHANGED <<pc, offset, contacts, resp>>
    BY <1>6 DEF Leave, Join, vars
  <2> QED
    BY <1>1, <1>2, <2>1 DEF SteadyInv
<1> QED
  BY <1>3, <1>4, <1>5, <1>6 DEF Next, Calls

(* A success without failures passed every contact that was fetched. *)
LEMMA SteadyMeansEvery ==
  ASSUME TypeOK, LoopInv, SteadyInv
  PROVE  EveryContactOfSteady
<1> SUFFICES ASSUME changes = 0, resp = "success", failures = {}, NEW c \in stayed \cap HasEmail
             PROVE  c \in holds
  BY DEF EveryContactOfSteady, EveryContact
<1>1. c \in ToSet(contacts_json) /\ contacts_json \in Seq(Contacts)
  BY Addressed DEF SteadyInv, TypeOK
<1>2. PICK j \in DOMAIN contacts_json : c = contacts_json[j]
  BY <1>1 DEF ToSet
<1>3. j \in 1..total /\ total \in Nat
  BY <1>1, LenProperties DEF total
<1>4. j \in Passed
  <2>1. start \in Nat /\ start >= total
    BY DEF TypeOK, LoopInv
  <2>2. j <= start
    BY <1>3, <2>1
  <2> QED
    BY <1>3, <2>2 DEF Passed, Reported
<1>5. pc # "fetching"
  BY DEF LoopInv
<1> QED
  BY <1>2, <1>4, <1>5 DEF LoopInv

LEMMA LoopMeansTrue ==
  ASSUME TypeOK, LoopInv
  PROVE  ReportTrue
<1> SUFFICES ASSUME resp = "success"
             PROVE  LET passed == {j \in 1..total : ~Reported(j)}
                    IN  updated = Cardinality(passed) /\ \A j \in passed : contacts_json[j] \in holds
  BY DEF ReportTrue, LoopInv
<1>1. start \in Nat /\ total \in Nat /\ start >= total
  BY Addressed, LenProperties DEF TypeOK, LoopInv, total
<1>2. Passed = {j \in 1..total : ~Reported(j)}
  <2>1. \A j \in 1..total : j <= start
    BY <1>1
  <2> QED
    BY <2>1 DEF Passed
<1>3. pc # "fetching"
  BY DEF LoopInv
<1> QED
  BY <1>2, <1>3 DEF LoopInv

-----------------------------------------------------------------------------
(* The theorems *)

LEMMA Initially == Init => TypeOK /\ LoopInv /\ SteadyInv
<1> SUFFICES ASSUME Init PROVE TypeOK /\ LoopInv /\ SteadyInv
  OBVIOUS
<1>1. TypeOK
  BY DEF Init, TypeOK
<1>2. LoopInv
  BY DEF Init, LoopInv
<1>3. SteadyInv
  <2>1. \A i \in DOMAIN Segment0 : ~(i <= 0)
    BY LenProperties
  <2> QED
    BY <2>1 DEF Init, SteadyInv
<1> QED
  BY <1>1, <1>2, <1>3

LEMMA Inductive == Spec => [](TypeOK /\ LoopInv /\ SteadyInv)
  BY Initially, TypeStep, LoopStep, SteadyStep, PTL DEF Spec

(* The answer of update_segment_attribute adds up, whatever becomes of each *)
(* page and chunk and however often they are tried: it counts exactly those *)
(* who were updated, and names the chunk of everybody else; "Failed to      *)
(* fetch contacts" is answered before anything was changed.                 *)
THEOREM ReportAddsUp == Spec => []ReportTrue
  BY Inductive, LoopMeansTrue, PTL

(* While nobody changes the segment, a success without failures means that  *)
(* every contact with an address has the attribute, for any sizes of pages  *)
(* and chunks.                                                              *)
THEOREM SteadySegmentIsUpdated == Spec => []EveryContactOfSteady
  BY Inductive, SteadyMeansEvery, PTL
=============================================================================
