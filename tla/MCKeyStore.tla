----------------------------- MODULE MCKeyStore -----------------------------
(* Small instances of KeyStore for TLC.  The identities of keys and the     *)
(* processes are interchangeable.                                           *)
EXTENDS KeyStore, TLC

MCGraceWindows == {1}
MCIssueExpiries == {Never}

KeySymmetry == Permutations(Keys)
AllSymmetry == Permutations(Keys) \cup Permutations(Instances)
=============================================================================
