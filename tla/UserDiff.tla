------------------------------ MODULE UserDiff ------------------------------
(* The routes that answer with the users of a Voatz organization, fetched   *)
(* by VoatzFetch: POST /get_users as they are or, in diff_only mode, against*)
(* the caller's voter ids (app/routes/voatz.py), and POST /user_updates     *)
(* against the contacts of a Brevo list, read page by page while others put *)
(* contacts on it and take them off (compare_users, app/routes/brevo.py).   *)
(* What a caller does with a report is external: it takes the contacts that *)
(* are reported removed off the list, and puts the users reported added on. *)
EXTENDS VoatzFetch

CONSTANTS
  None,             \* a contact without a VOATZ_ID
  ContactIds,       \* what tells contacts apart; a user who is added is a contact of his id
  Lists,            \* the Brevo lists to start from: sequences of contacts
  Others,           \* the contacts that others may put on the list
  MaxMoves,         \* bound on what others do to the list
  PageSize          \* limit of the list's pages

Contact == [id : ContactIds, vid : Ids \cup {None}, banned : BOOLEAN, email : BOOLEAN]

ASSUME PageSizeOK == PageSize \in Nat \ {0} /\ MaxMoves \in Nat
ASSUME ContactsOK ==
  None \notin Ids /\ Ids \subseteq ContactIds /\ Lists \subseteq Seq(Contact) /\ Others \subseteq Contact

VARIABLES
  list,                      \* the Brevo list
  moves,                     \* what others did to it so far
  left, joined,              \* history: during this request, whether a contact left it, and which joined
  pc,                        \* where the process is: idle, users, paging, compared, answered, ...
  mode,                      \* the request: user_updates, get_users, diff_only, ...
  answer,                    \* none, a status, or error: a "200" that tells of a failure
  offset,
  brevo_ids,                 \* brevo_customer_ids, or the caller's ids in diff_only mode
  brevo_details,             \* brevo_details_by_id: one contact of each VOATZ_ID
  brevo_no_voatz_id_users,
  report                     \* added_users, the ids removed and, of a list, removed_users

listVars == <<list, moves, left, joined>>
pageVars == <<offset, brevo_ids, brevo_details, brevo_no_voatz_id_users>>
diffVars == <<listVars, pc, mode, answer, pageVars, report>>

Nothing == [added |-> {}, removed |-> {}, contacts |-> {}]

DiffInit ==
  /\ FetchInit /\ list \in Lists
  /\ moves = 0 /\ left = FALSE /\ joined = {}
  /\ pc = "idle" /\ mode = "none" /\ answer = "none"
  /\ offset = 0 /\ brevo_ids = {} /\ brevo_details = {} /\ brevo_no_voatz_id_users = {}
  /\ report = Nothing

(* No request is worked on, and nothing of the last one is kept. *)
Clear ==
  /\ EndFetch
  /\ left' = FALSE /\ joined' = {}
  /\ pc' = "idle" /\ mode' = "none" /\ answer' = "none"
  /\ offset' = 0 /\ brevo_ids' = {} /\ brevo_details' = {} /\ brevo_no_voatz_id_users' = {}
  /\ report' = Nothing
  /\ UNCHANGED moves

Answer(a) == pc' = "answered" /\ answer' = a

(* The three requests, and what their callers give with them. *)
Ask ==
  /\ pc = "idle" /\ pc' = "users"
  /\ mode' \in {"user_updates", "get_users", "diff_only"}
  /\ brevo_ids' \in IF mode' = "diff_only" THEN SUBSET Ids ELSE {{}}
  /\ StartFetch
  /\ UNCHANGED <<listVars, answer, offset, brevo_details, brevo_no_voatz_id_users, report>>

Fetched ==
  IF mode \in {"user_updates", "diff_only"}
  THEN pc' = (IF mode = "diff_only" THEN "compared" ELSE "paging") /\ UNCHANGED answer
  ELSE Answer("200")

(* fetch_users, whose HTTPException becomes a 200 with status error in      *)
(* get_users and is left to FastAPI elsewhere; any other exception is a 500.*)
FetchUsers ==
  /\ pc = "users"
  /\ FetchUserPage \/ FetchUsersFails
  /\ IF resp' = "list" THEN Fetched
     ELSE IF resp' = "502" THEN Answer(IF mode \in {"get_users", "diff_only"} THEN "error" ELSE "502")
     ELSE IF resp' = "raised" THEN Answer("500")
     ELSE UNCHANGED <<pc, answer>>
  /\ UNCHANGED <<listVars, mode, pageVars, report>>

(* Who counts as a Voatz user: diff_only knows them by their voter.         *)
Counts(u) == u.state # "banned" /\ (mode = "diff_only" => u.state # "unverified")

voatz_ids == {u.id : u \in {v \in ToSet(users) : Counts(v)}}

(* The positions of the page asked for, in the list as it is now. *)
Page == {j \in DOMAIN list : offset < j /\ j <= offset + PageSize}

(* Mutation: a page that is full but for one is taken for a full one. *)
Short_OffByOne == Len(list) <= offset + PageSize + 1

(* len(contacts) < limit *)
Short == Len(list) < offset + PageSize

(* Mutation: the blacklist is applied to the users only. *)
Counted_Blacklisted == {j \in Page : list[j].vid # None}

Counted == {j \in Page : list[j].vid # None /\ ~list[j].banned}

(* Of the contacts of one VOATZ_ID, the last overwrites the others. *)
LastOfId == {j \in Counted : \A k \in Counted : list[k].vid = list[j].vid => k <= j}

FetchPage ==
  /\ pc = "paging"
  /\ brevo_ids' = brevo_ids \cup {list[j].vid : j \in Counted}
  /\ brevo_details' = {c \in brevo_details : \A j \in Counted : list[j].vid # c.vid}
                       \cup {list[j] : j \in LastOfId}
  /\ brevo_no_voatz_id_users' =
       brevo_no_voatz_id_users \cup {list[j] : j \in {k \in Page : list[k].vid = None /\ list[k].email}}
  /\ \/ Short /\ pc' = "compared" /\ UNCHANGED offset
     \/ ~Short /\ offset' = offset + PageSize /\ UNCHANGED pc
  /\ UNCHANGED <<voatzVars, fetchVars, listVars, mode, answer, report>>

(* A request for a page raises, is refused by Brevo, or is answered with    *)
(* something that is no JSON: no report.                                    *)
FetchFails ==
  /\ pc = "paging"
  /\ Answer("502") \/ Answer("error") \/ Answer("500")
  /\ UNCHANGED <<voatzVars, fetchVars, listVars, mode, pageVars, report>>

Difference ==
  [added    |-> voatz_ids \ brevo_ids,
   removed  |-> brevo_ids \ voatz_ids,
   contacts |-> {c \in brevo_details : c.vid \notin voatz_ids} \cup brevo_no_voatz_id_users]

Compare ==
  /\ pc = "compared"
  /\ report' = Difference
  /\ Answer("200")
  /\ UNCHANGED <<voatzVars, fetchVars, listVars, mode, pageVars>>

(* What becomes of the list in the hands of a caller who applies a report:  *)
(* the contacts that stay and the new ones, in whatever order; no contact   *)
(* is on a list twice.                                                      *)
Kept == ToSet(list) \ report.contacts
NewContact(u) == [id |-> u, vid |-> u, banned |-> FALSE, email |-> TRUE]
Entries == Kept \cup {NewContact(u) : u \in report.added}

Applied == SetToSeq(Entries)

(* The caller has the answer, and the process is free. *)
Return ==
  /\ pc = "answered" /\ Clear
  /\ list' = IF mode = "user_updates" /\ answer = "200" THEN Applied ELSE list

(* Others take a contact off the list, or put one on it, at any time. *)
ListChanges ==
  /\ moves < MaxMoves /\ moves' = moves + 1
  /\ \/ (\E i \in DOMAIN list : list' = RemoveAt(list, i)) /\ left' = (pc # "idle") /\ UNCHANGED joined
     \/ \E c \in Others \ ToSet(list), i \in 1..(Len(list) + 1) :
          /\ list' = InsertAt(list, i, c)
          /\ joined' = (IF pc = "idle" THEN {} ELSE joined \cup {c})
          /\ UNCHANGED left
  /\ UNCHANGED <<voatzVars, fetchVars, pc, mode, answer, pageVars, report>>

UsersChange == UserChanges /\ UNCHANGED diffVars

Serve == FetchUsers \/ FetchPage \/ FetchFails \/ Compare

-----------------------------------------------------------------------------
(* Who a list holds, in the comparison's own terms: blacklisted voters are  *)
(* left out on both sides.                                                  *)
IsListed(c) == c.vid # None /\ ~c.banned
Anonymous(c) == c.vid = None /\ c.email
Listed(l) == {l[i].vid : i \in {j \in DOMAIN l : IsListed(l[j])}}

Comparing == mode \in {"user_updates", "diff_only"}

(* The invariant of the comparison.  Whatever others do, what was read are  *)
(* contacts of their kinds, one for each VOATZ_ID.  Unless a contact left,  *)
(* they are still on the list, and whoever is on it up to the offset was    *)
(* read or has joined since.                                                *)
ReadRight ==
  /\ brevo_details \subseteq Contact /\ brevo_no_voatz_id_users \subseteq Contact
  /\ \A c \in brevo_details : IsListed(c)
  /\ \A c \in brevo_no_voatz_id_users : Anonymous(c)
  /\ mode = "user_updates" => brevo_ids = {c.vid : c \in brevo_details}
  /\ ~left => brevo_details \cup brevo_no_voatz_id_users \subseteq ToSet(list)

WasRead(c) ==
  /\ IsListed(c) => c.vid \in brevo_ids
  /\ Anonymous(c) => c \in brevo_no_voatz_id_users

ReadUpTo(n) == \A j \in DOMAIN list : j <= n => list[j] \in joined \/ WasRead(list[j])

DiffInv ==
  /\ list \in Seq(Contact) /\ offset \in Nat /\ ReadRight
  /\ pc = "idle" \/ (pc = "users" /\ mode = "user_updates") => offset = 0
  /\ pc = "idle" => brevo_ids = {} /\ brevo_details = {} /\ brevo_no_voatz_id_users = {}
  /\ pc = "paging" => mode = "user_updates"
  /\ mode = "user_updates" /\ ~left => ReadUpTo(offset)
  /\ pc = "compared" => Comparing
  /\ mode = "user_updates" /\ ~left /\ (pc = "compared" \/ (pc = "answered" /\ answer = "200"))
       => ReadUpTo(Len(list))
  /\ pc = "webflow" => mode = "webflow"
  /\ report = IF pc = "answered" /\ answer = "200" /\ Comparing THEN Difference ELSE Nothing

(* What applying a report does.  Whatever others do to the list meanwhile,  *)
(* nobody who was fetched, and no blacklisted voter with a VOATZ_ID, is     *)
(* taken off it.  If no contact left while the pages were read by offset,   *)
(* all who were fetched are then on the list, and who should not be has     *)
(* only just joined, or is one of several contacts of a VOATZ_ID of which   *)
(* the report names the last and has rid the list.  (A contact that leaves  *)
(* moves the ones after it up, and one of them may never be read.)          *)
Settled ==
  pc = "answered" /\ pc' = "idle" /\ mode = "user_updates" /\ answer = "200" =>
    LET gone == ToSet(list) \ ToSet(list') IN
    /\ \A c \in gone : c.vid \notin voatz_ids /\ ~(c.vid # None /\ c.banned)
    /\ ~left =>
         /\ voatz_ids \subseteq Listed(list')
         /\ \A c \in ToSet(list') \ joined :
              /\ ~Anonymous(c)
              /\ IsListed(c) /\ c.vid \notin voatz_ids => \E d \in gone : d.vid = c.vid

(* The voter ids of diff_only come out as those of the verified users that  *)
(* are not blacklisted, and a request that fails half way reports nothing.  *)
AppliesOrNot ==
  pc = "answered" /\ pc' = "idle" =>
    /\ mode = "diff_only" /\ answer = "200" => (brevo_ids \ report.removed) \cup report.added = voatz_ids
    /\ ~(Comparing /\ answer = "200") => list' = list /\ report = Nothing

ReportSettles == [][Settled /\ AppliesOrNot]_<<voatzVars, fetchVars, diffVars>>

(* Every comparison ends, however often users register meanwhile: each page *)
(* moves minId, or the offset, past what it held, unless the process dies.  *)
Ends == pc = "users" ~> pc \in {"answered", "idle"}
=============================================================================
