----------------------------- MODULE VoatzFetch -----------------------------
(* fetch_users (app/services/voatz.py): all users of an organization, page  *)
(* by page, while users register, leave and are verified.  Voatz is         *)
(* external: it answers users above minId in order, and the last of the     *)
(* page as the next minId.  The component is driven by its callers.         *)
EXTENDS Naturals, Sequences, SequencesExt, FiniteSets, FiniteSetsExt

CONSTANTS
  Ids,          \* customer ids, positive numbers
  Limit,        \* users per page
  NoMinId       \* a missing minId

ASSUME IdsOK == Ids \subseteq Nat \ {0} /\ Limit \in Nat \ {0} /\ NoMinId \notin Nat

VARIABLES
  voatz,              \* of each id: absent, plain, banned (its voter is on the caller's blacklist) or
                      \* unverified (it has no voter)
  stayed,             \* history: who has been registered since the fetch began
  min_id, users,      \* the loop's variables; a user is [id, state]
  resp                \* none, the list, 502, or raised: a page that is no JSON

voatzVars == <<voatz, stayed>>
fetchVars == <<min_id, users, resp>>

States == {"absent", "plain", "banned", "unverified"}
registered == {u \in Ids : voatz[u] # "absent"}

FetchInit ==
  /\ voatz \in [Ids -> States] /\ stayed = {}
  /\ min_id = NoMinId /\ users = <<>> /\ resp = "none"

StartFetch ==
  /\ stayed' = registered
  /\ min_id' = NoMinId /\ users' = <<>> /\ resp' = "none"
  /\ UNCHANGED voatz

(* fetch_users has returned and its caller is done with the list. *)
EndFetch ==
  /\ stayed' = {}
  /\ min_id' = NoMinId /\ users' = <<>> /\ resp' = "none"
  /\ UNCHANGED voatz

Above(id) == IF id = NoMinId THEN registered ELSE {u \in registered : u > id}

(* The pages Voatz may answer with: the next users, in order and none left  *)
(* out, and none only if there is none.                                     *)
UserPages(id) ==
  {page \in BoundedSeq({[id |-> u, state |-> voatz[u]] : u \in Above(id)}, Limit) :
     /\ \A i, j \in DOMAIN page : i < j => page[i].id < page[j].id
     /\ \A j \in DOMAIN page : \A u \in Above(id) :
          u < page[j].id => \E i \in DOMAIN page : page[i].id = u
     /\ page = <<>> => Above(id) = {}}

(* Mutation: the cursor is the number of users fetched. *)
Asked_Count == IF users = <<>> THEN NoMinId ELSE Len(users)

Asked == min_id

(* Mutation: the end of the list starts the fetch over. *)
FetchUserPage_StartsOver ==
  /\ resp = "none"
  /\ \E page \in UserPages(Asked) :
       IF page = <<>>
       THEN users' = <<>> /\ min_id' = NoMinId
       ELSE users' = users \o page /\ min_id' = Last(page).id
  /\ UNCHANGED <<voatzVars, resp>>

FetchUserPage ==
  /\ resp = "none"
  /\ \E page \in UserPages(Asked) :
       IF page = <<>>
       THEN resp' = "list" /\ UNCHANGED <<users, min_id>>
       ELSE users' = users \o page /\ min_id' = Last(page).id /\ UNCHANGED resp
  /\ UNCHANGED voatzVars

FetchUsersFails ==
  /\ resp = "none" /\ resp' \in {"502", "raised"}
  /\ UNCHANGED <<voatzVars, min_id, users>>

(* A user registers, leaves, or is verified as another voter. *)
UserChanges ==
  /\ \E u \in Ids, state \in States :
       /\ voatz[u] # state
       /\ voatz' = [voatz EXCEPT ![u] = state]
       /\ stayed' = IF state = "absent" THEN stayed \ {u} ELSE stayed
  /\ UNCHANGED fetchVars

-----------------------------------------------------------------------------
(* The invariant of the loop: the users so far are in order, the cursor is  *)
(* at the last, and whoever stayed is among them or above the cursor.       *)
Ordered == \A i, j \in DOMAIN users : i < j => users[i].id < users[j].id

CursorAtLast == min_id = IF users = <<>> THEN NoMinId ELSE Last(users).id

StayedFound ==
  /\ stayed \subseteq registered
  /\ \A u \in stayed :
       \/ \E i \in DOMAIN users : users[i].id = u
       \/ resp # "list" /\ u \in Above(min_id)

FetchInv == Ordered /\ CursorAtLast /\ StayedFound

(* Whoever was registered all along is in the list, and nobody twice, even  *)
(* when others register and leave between two pages of fetch_users.         *)
NobodySkipped ==
  /\ resp = "list" => \A u \in stayed : \E i \in DOMAIN users : users[i].id = u
  /\ \A i, j \in DOMAIN users : i # j => users[i].id # users[j].id
=============================================================================
