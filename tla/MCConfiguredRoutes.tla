------------------------- MODULE MCConfiguredRoutes -------------------------
(* An instance of ConfiguredRoutes for TLC.  The comparisons do not read    *)
(* the configuration; they have fetched the users before they read the      *)
(* list; and the keys are loaded apart from what the other routes read.  So *)
(* a behaviour varies one of the four and keeps the rest still.             *)
EXTENDS ConfiguredRoutes

VARIABLE varying           \* users, list, config or keys

Kinds == {c \in Contact : IF c.vid = None THEN ~c.banned ELSE c.email}

(* Every list of up to two contacts, the empty one and two of one VOATZ_ID  *)
(* included, and a third contact that others may put on it.                 *)
ShortLists == {l \in UNION {[1..n -> Kinds] : n \in 0..2} : \A i \in DOMAIN l : l[i].id = 10 + i}
MCOthers == {c \in Kinds : c.id = 13 /\ ~c.banned}

(* Two complete documents of different organizations, one that lacks what   *)
(* the other has or leaves it empty, and one that is refused.               *)
DocA == [organizations |-> {1}, webflow |-> [token |-> "A", bills |-> "A", orgs |-> "A"]]
DocB == [organizations |-> {1, 2}, webflow |-> [token |-> "B", bills |-> Empty]]
DocNone == [organizations |-> {}, webflow |-> [token |-> "C"]]
FileDoc == [organizations |-> {2}, webflow |-> [bills |-> "F"]]
MCDocuments == {DocA, DocB, DocNone, FileDoc}

MCEnv == [token |-> "E", bills |-> "E", orgs |-> Empty]

Still == [u \in Ids |-> "plain"]

MCInit ==
  /\ Init
  /\ \/ varying = "users" /\ secret = NoDoc /\ voatz[3] # "unverified" /\ Len(list) < 2
     \/ varying = "list" /\ secret = NoDoc /\ \A u \in Ids : voatz[u] # "unverified"
     \/ varying \in {"config", "keys"} /\ list = <<>> /\ voatz = Still

(* A change of the list while nobody reads it makes another list to start   *)
(* from, no more.                                                           *)
UsersVary ==
  /\ AskDirect \/ Work \/ Dismiss \/ Crash \/ World
  /\ voatz'[3] # "unverified"
  /\ mode' \in {"get_users", "diff_only"} => list = <<>>
  /\ UNCHANGED <<configVars, moves>>

ListVaries ==
  /\ AskDirect \/ Work \/ Dismiss \/ World
  /\ mode' \in {"none", "user_updates"}
  /\ moves' # moves => pc \notin {"idle", "users"}
  /\ UNCHANGED <<configVars, voatz>>

ConfigVaries ==
  /\ AskWrapped \/ AskWebflow \/ AdminReload \/ Work \/ Dismiss \/ Crash \/ World
  /\ UNCHANGED <<voatz, moves, changes>>

KeysVary ==
  /\ AdminReload \/ Dismiss \/ Crash \/ World
  /\ UNCHANGED <<voatz, moves>>

MCNext ==
  /\ UNCHANGED varying
  /\ \/ varying = "users" /\ UsersVary
     \/ varying = "list" /\ ListVaries
     \/ varying = "config" /\ ConfigVaries
     \/ varying = "keys" /\ KeysVary

MCSpec == MCInit /\ [][MCNext]_<<vars, varying>> /\ WF_vars(ServeUsers)
=============================================================================
