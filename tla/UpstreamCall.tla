---------------------------- MODULE UpstreamCall ----------------------------
(* What a caller of the gateway may rely on, per request: the upstream does *)
(* the work at most once; a refusal means it never does it, a success that  *)
(* it did; after any other answer the work may still be done, later.        *)
EXTENDS Naturals

CONSTANT Requests

VARIABLES work, told

vars == <<work, told>>

Init == work = [r \in Requests |-> 0] /\ told = [r \in Requests |-> "nothing"]

Perform(r) ==
  /\ work[r] = 0 /\ told[r] \in {"nothing", "unknown"}
  /\ work' = [work EXCEPT ![r] = 1]
  /\ UNCHANGED told

Tell(r, what) ==
  /\ told[r] = "nothing"
  /\ told' = [told EXCEPT ![r] = what]
  /\ UNCHANGED work

Refuse(r) == work[r] = 0 /\ Tell(r, "refused")
Succeed(r) == work[r] = 1 /\ Tell(r, "done")
GiveUp(r) == Tell(r, "unknown")

Next == \E r \in Requests : Perform(r) \/ Refuse(r) \/ Succeed(r) \/ GiveUp(r)

Spec == Init /\ [][Next]_vars
=============================================================================
