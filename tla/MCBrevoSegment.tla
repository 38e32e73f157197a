--------------------------- MODULE MCBrevoSegment ---------------------------
(* Instances of BrevoSegment for TLC. *)
EXTENDS BrevoSegment

SixContacts == {"c1", "c2", "c3", "c4", "c5", "c6"}
Listed == <<"c1", "c2", "c3", "c4", "c5">>
FourListed == <<"c1", "c2", "c3", "c4">>
Addressed == SixContacts \ {"c2"}
=============================================================================
