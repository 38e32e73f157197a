---------------------------- MODULE KeyRegistry ----------------------------
(* What the API key store promises to the rest of the gateway: every key   *)
(* has one life.  It is unborn, then an entry of the registry, then gone;  *)
(* one step concerns one key, and no step loses or resurrects another.     *)
(* KeyStore implements this with a read-modify-write of a whole document.  *)
EXTENDS Naturals

CONSTANTS
  Keys,     \* identities of keys (an id and its hash, drawn together)
  Never,    \* a timestamp that is not set (None in the source)
  Unborn,   \* no key of this identity was ever in the registry
  Gone      \* the identity was used up: revoked, or its issue failed

VARIABLE reg

Time == Nat \cup {Never}
Entry == [expires : Time, used : Time]
Status == Entry \cup {Unborn, Gone}

Init == reg \in [Keys -> Entry \cup {Unborn}]

(* A fresh key enters the registry; it has never been used. *)
Issue(k) ==
  /\ reg[k] = Unborn
  /\ reg'[k] \in Entry /\ reg'[k].used = Never
  /\ reg' = [reg EXCEPT ![k] = reg'[k]]

(* An issue that failed for good: its random identity is never drawn again. *)
Abandon(k) ==
  /\ reg[k] = Unborn
  /\ reg' = [reg EXCEPT ![k] = Gone]

Revoke(k) ==
  /\ reg[k] \in Entry
  /\ reg' = [reg EXCEPT ![k] = Gone]

(* A rotation gives the old key the end of its grace window. *)
SetExpiry(k) ==
  /\ reg[k] \in Entry
  /\ reg'[k] \in Entry /\ reg'[k].expires \in Nat
  /\ reg' = [reg EXCEPT ![k].expires = reg'[k].expires]

(* A shutdown writes back when keys were last used, of any number of keys  *)
(* at once, and touches nothing else.                                      *)
FlushUsed ==
  /\ reg' \in [Keys -> Status]
  /\ \A k \in Keys :
       \/ reg'[k] = reg[k]
       \/ /\ reg[k] \in Entry /\ reg'[k] \in Entry
          /\ reg'[k].expires = reg[k].expires
          /\ reg'[k].used \in Nat

Next ==
  \/ \E k \in Keys : Issue(k) \/ Abandon(k) \/ Revoke(k) \/ SetExpiry(k)
  \/ FlushUsed

Spec == Init /\ [][Next]_reg
=============================================================================
