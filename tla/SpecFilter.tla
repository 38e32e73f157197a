----------------------------- MODULE SpecFilter -----------------------------
(* filter_paths (app/services/spec_filter.py): which component schemas an   *)
(* OpenAPI document keeps once some of its paths are gone.  The worklist is *)
(* one step per pass of its loop; its input is any document.                *)

CONSTANT Names                \* schema names, defined or only referred to

VARIABLES
  roots,       \* what the kept paths refer to
  refs,        \* what each defined schema refers to, {} for the others
  schemas,     \* the defined schemas; at the end, those that are left
  needed, pending,
  phase        \* "collecting", then "pruned"

vars == <<roots, refs, schemas, needed, pending, phase>>

Init ==
  /\ roots \in SUBSET Names /\ schemas \in SUBSET Names
  /\ refs \in [Names -> SUBSET Names] /\ \A n \in Names \ schemas : refs[n] = {}
  /\ needed = roots /\ pending = roots
  /\ phase = "collecting"

(* Mutation: everything found is queued again. *)
Collect_NoVisited ==
  /\ phase = "collecting"
  /\ \E name \in pending :
       /\ pending' = (pending \ {name}) \cup refs[name]
       /\ needed' = needed \cup refs[name]
  /\ UNCHANGED <<roots, refs, schemas, phase>>

(* Mutation: needed grows before the difference is taken. *)
Collect_GrowsFirst ==
  /\ phase = "collecting"
  /\ \E name \in pending :
       /\ needed' = needed \cup refs[name]
       /\ pending' = (pending \ {name}) \cup (refs[name] \ needed')
  /\ UNCHANGED <<roots, refs, schemas, phase>>

(* while pending: which name is popped depends on the order of a set. *)
Collect ==
  /\ phase = "collecting"
  /\ \E name \in pending :
       /\ pending' = (pending \ {name}) \cup (refs[name] \ needed)
       /\ needed' = needed \cup refs[name]
  /\ UNCHANGED <<roots, refs, schemas, phase>>

(* Mutation: nothing is deleted. *)
Prune_KeepsAll ==
  /\ phase = "collecting" /\ pending = {}
  /\ UNCHANGED schemas
  /\ phase' = "pruned"
  /\ UNCHANGED <<roots, refs, needed, pending>>

(* for name in set(schemas) - needed: del schemas[name] *)
Prune ==
  /\ phase = "collecting" /\ pending = {}
  /\ schemas' = schemas \cap needed
  /\ phase' = "pruned"
  /\ UNCHANGED <<roots, refs, needed, pending>>

Next == Collect \/ Prune

Spec == Init /\ [][Next]_vars

(* The loop runs to its end, without an await. *)
FairSpec == Spec /\ WF_vars(Next)

-----------------------------------------------------------------------------
TypeOK ==
  /\ roots \subseteq Names /\ schemas \subseteq Names
  /\ refs \in [Names -> SUBSET Names]
  /\ needed \subseteq Names /\ pending \subseteq Names
  /\ phase \in {"collecting", "pruned"}

ClosedUnderRefs(S) == \A n \in S : refs[n] \subseteq S

(* The inductive invariant: what is needed and not pending has had its      *)
(* references collected, and nothing is collected without a reason.         *)
Collecting ==
  /\ roots \subseteq needed /\ pending \subseteq needed
  /\ \A n \in needed \ pending : refs[n] \subseteq needed
  /\ \A S \in SUBSET Names : roots \subseteq S /\ ClosedUnderRefs(S) => needed \subseteq S
  /\ phase = "pruned" => schemas \subseteq needed

(* Every reference that resolved still does: from the kept paths and from   *)
(* each other, the schemas left lack only what was never defined.           *)
RefsKept ==
  [][ phase' = "pruned" =>
        \A n \in schemas : (n \in roots \/ \E m \in schemas' : n \in refs[m]) => n \in schemas' ]_vars

(* No other document's model shows up: a schema that is left is reached     *)
(* from the kept paths, through any set that has them and is closed.        *)
NothingUnused ==
  phase = "pruned" =>
    \A S \in SUBSET Names : roots \subseteq S /\ ClosedUnderRefs(S) => schemas \subseteq S

(* A document whose schemas refer to each other in a circle is filtered too.*)
Terminates == <>(phase = "pruned")
=============================================================================
