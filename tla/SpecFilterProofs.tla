-------------------------- MODULE SpecFilterProofs --------------------------
(* The filter of OpenAPI schemas is correct for every document.             *)
EXTENDS SpecFilter, References, TLAPS

(* Every variable keeps its shape. *)
THEOREM FilterTypes == Spec => []TypeOK
<1>1. Init => TypeOK
  BY DEF Init, TypeOK
<1>2. TypeOK /\ [Next]_vars => TypeOK'
  BY DEF TypeOK, Next, Collect, Prune, vars
<1>3. QED
  BY <1>1, <1>2, PTL DEF Spec

(* Everything needed is either pending or fully collected, and lies in      *)
(* every closed set that has the roots.                                     *)
THEOREM FilterCollects == Spec => []Collecting
<1>1. Init => Collecting
  BY DEF Init, Collecting
<1>2. TypeOK /\ Collecting /\ [Next]_vars => Collecting'
  <2> SUFFICES ASSUME TypeOK, Collecting, [Next]_vars
               PROVE  Collecting'
    OBVIOUS
  <2>1. CASE Collect
    <3>1. PICK name \in pending :
            /\ pending' = (pending \ {name}) \cup (refs[name] \ needed)
            /\ needed' = needed \cup refs[name]
      BY <2>1 DEF Collect
    <3>2. UNCHANGED <<roots, refs, schemas, phase>> /\ phase = "collecting"
      BY <2>1 DEF Collect
    <3>3. roots' \subseteq needed' /\ pending' \subseteq needed'
      BY <3>1, <3>2 DEF Collecting
    <3>4. ASSUME NEW n \in needed' \ pending' PROVE refs'[n] \subseteq needed'
      BY <3>1, <3>2 DEF Collecting
    <3>5. ASSUME NEW S \in SUBSET Names, roots' \subseteq S, ClosedUnderRefs(S)'
          PROVE  needed' \subseteq S
      <4>1. needed \subseteq S
        BY <3>2, <3>5 DEF Collecting, ClosedUnderRefs
      <4>2. refs[name] \subseteq S
        BY <3>1, <3>2, <3>5, <4>1 DEF Collecting, ClosedUnderRefs
      <4>3. QED
        BY <3>1, <4>1, <4>2
    <3>6. QED
      BY <3>2, <3>3, <3>4, <3>5 DEF Collecting
  <2>2. CASE Prune
    BY <2>2 DEF Prune, Collecting, ClosedUnderRefs
  <2>3. CASE UNCHANGED vars
    BY <2>3 DEF vars, Collecting, ClosedUnderRefs
  <2>4. QED
    BY <2>1, <2>2, <2>3 DEF Next
<1>3. QED
  BY <1>1, <1>2, FilterTypes, PTL DEF Spec

(* No schema that the kept paths do not reach is left in the document. *)
THEOREM FilterPrunes == Spec => []NothingUnused
<1>1. TypeOK /\ Collecting => NothingUnused
  BY DEF TypeOK, Collecting, NothingUnused, ClosedUnderRefs
<1>2. QED
  BY <1>1, FilterTypes, FilterCollects, PTL

(* No reference that resolved before the filter is left dangling by it. *)
THEOREM FilterKeepsRefs == Spec => RefsKept
<1> DEFINE Kept == phase' = "pruned" =>
             \A n \in schemas : (n \in roots \/ \E m \in schemas' : n \in refs[m]) => n \in schemas'
<1>1. TypeOK /\ Collecting /\ [Next]_vars => [Kept]_vars
  <2> SUFFICES ASSUME TypeOK, Collecting, Next, phase' = "pruned"
               PROVE  Kept
    BY DEF vars
  <2>1. CASE Collect
    BY <2>1 DEF Collect
  <2>2. CASE Prune
    BY <2>2 DEF Prune, Collecting, TypeOK
  <2>3. QED
    BY <2>1, <2>2 DEF Next
<1>2. QED
  BY <1>1, FilterTypes, FilterCollects, PTL DEF Spec, RefsKept

(* What is left is what the kept paths reach, in closed form: the loop of   *)
(* filter_paths computes Reached, with which DownstreamDocs models its calls.*)
LeavesReached ==
  [][ phase = "collecting" /\ phase' = "pruned" =>
        schemas' = Reached(roots, [n \in schemas |-> refs[n]]) ]_vars

Bare == phase = "collecting" => \A n \in Names \ schemas : refs[n] = {}

LEMMA PrunedIsReached ==
  ASSUME TypeOK, Collecting, Bare, Prune
  PROVE  schemas' = Reached(roots, [n \in schemas |-> refs[n]])
<1> DEFINE defs == [n \in schemas |-> refs[n]]
<1>1. /\ phase = "collecting" /\ pending = {} /\ schemas' = schemas \cap needed
      /\ schemas \subseteq Names /\ needed \subseteq Names /\ roots \subseteq needed
  BY DEF Prune, TypeOK, Collecting
<1>2. DOMAIN defs = schemas /\ \A n \in schemas : defs[n] = refs[n]
  OBVIOUS
<1>3. ASSUME NEW n \in schemas \cap needed, NEW S \in SUBSET schemas,
             roots \cap schemas \subseteq S, \A m \in S : refs[m] \cap schemas \subseteq S
      PROVE  n \in S
  <2> DEFINE T == S \cup (Names \ schemas)
  <2>1. T \in SUBSET Names /\ roots \subseteq T
    BY <1>1, <1>3
  <2>2. ASSUME NEW m \in T PROVE refs[m] \subseteq T
    BY <1>1, <1>3, <2>2 DEF Bare, TypeOK
  <2>3. needed \subseteq T
    BY <2>1, <2>2 DEF Collecting, ClosedUnderRefs
  <2> QED
    BY <2>3
<1>4. ASSUME NEW n \in Reached(roots, defs) PROVE n \in schemas \cap needed
  <2> DEFINE S == schemas \cap needed
  <2>1. S \in SUBSET schemas /\ roots \cap schemas \subseteq S
    BY <1>1
  <2>2. \A m \in S : refs[m] \cap schemas \subseteq S
    BY <1>1 DEF Collecting
  <2> HIDE DEF defs, S
  <2>3. n \in S
    BY <1>2, <1>4, <2>1, <2>2 DEF Reached, S
  <2> QED
    BY <2>3 DEF S
<1>5. ASSUME NEW n \in schemas \cap needed PROVE n \in Reached(roots, defs)
  <2> HIDE DEF defs
  <2> QED
    BY <1>2, <1>3 DEF Reached
<1> QED
  BY <1>1, <1>4, <1>5

(* What filter_paths leaves of the schemas is what the kept paths reach.    *)
THEOREM FilterReaches == Spec => LeavesReached
<1> DEFINE Step == phase = "collecting" /\ phase' = "pruned" =>
                     schemas' = Reached(roots, [n \in schemas |-> refs[n]])
<1>1. Init => Bare
  BY DEF Init, Bare
<1>2. Bare /\ [Next]_vars => Bare'
  BY DEF Bare, Next, Collect, Prune, vars
<1>3. TypeOK /\ Collecting /\ Bare /\ [Next]_vars => [Step]_vars
  <2> SUFFICES ASSUME TypeOK, Collecting, Bare, Next PROVE Step
    BY DEF vars
  <2>1. CASE Collect
    BY <2>1 DEF Collect
  <2>2. CASE Prune
    BY <2>2, PrunedIsReached
  <2> QED
    BY <2>1, <2>2 DEF Next
<1> QED
  BY <1>1, <1>2, <1>3, FilterTypes, FilterCollects, PTL DEF Spec, LeavesReached

(* Each pass of the loop brings its end nearer, circular references or not: *)
(* a name more is needed, or none and a name less is pending.               *)
Progress ==
  [][ phase' = "collecting" =>
        \/ needed \subseteq needed' /\ needed' # needed
        \/ needed' = needed /\ pending' \subseteq pending /\ pending' # pending ]_vars

(* filter_paths never queues a name twice, so that its `while pending` ends *)
(* for every document of finitely many names.                               *)
THEOREM FilterProgresses == Spec => Progress
<1> DEFINE Step == phase' = "collecting" =>
             \/ needed \subseteq needed' /\ needed' # needed
             \/ needed' = needed /\ pending' \subseteq pending /\ pending' # pending
<1>1. TypeOK /\ Collecting /\ [Next]_vars => [Step]_vars
  <2> SUFFICES ASSUME TypeOK, Collecting, Next PROVE Step
    BY DEF vars
  <2>1. CASE Collect
    <3>1. PICK name \in pending :
            /\ pending' = (pending \ {name}) \cup (refs[name] \ needed)
            /\ needed' = needed \cup refs[name]
      BY <2>1 DEF Collect
    <3>2. name \in needed
      BY DEF Collecting
    <3>3. CASE refs[name] \subseteq needed
      <4>1. needed' = needed /\ pending' = pending \ {name}
        BY <3>1, <3>3
      <4> QED
        BY <4>1, <3>1
    <3>4. CASE ~(refs[name] \subseteq needed)
      BY <3>1, <3>4
    <3> QED
      BY <3>3, <3>4
  <2>2. CASE Prune
    BY <2>2 DEF Prune
  <2> QED
    BY <2>1, <2>2 DEF Next
<1> QED
  BY <1>1, FilterTypes, FilterCollects, PTL DEF Spec, Progress
=============================================================================
