----------------------------- MODULE References -----------------------------
(* Which component schemas of an OpenAPI document are reached from its      *)
(* paths, in closed form: what filter_paths (app/services/spec_filter.py)   *)
(* computes with a worklist.                                                *)

(* The least set of defined schemas that has the roots and is closed.       *)
(* `defs` is a function from the names of the schemas to what each refers to.*)
Reached(from, defs) ==
  {n \in DOMAIN defs :
     \A S \in SUBSET DOMAIN defs :
       (from \cap DOMAIN defs) \subseteq S /\ (\A m \in S : defs[m] \cap DOMAIN defs \subseteq S)
         => n \in S}
=============================================================================
