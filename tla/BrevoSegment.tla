---------------------------- MODULE BrevoSegment ----------------------------
(* POST /update_segment_attribute (app/routes/brevo.py): the contacts of a  *)
(* Brevo segment are fetched page by page and their attribute is imported   *)
(* chunk by chunk, each call with its retries, while others may change the  *)
(* segment.  Brevo itself is external.                                      *)
EXTENDS Naturals, Sequences, SequencesExt, FiniteSets

CONSTANTS
  Contacts,
  Segment0,       \* the segment at first, in the order Brevo lists it
  HasEmail,       \* contacts that have an e-mail address
  PageSize, ChunkSize,
  MAX_RETRIES,
  Outcomes,       \* of a call: ok, error (a status), 429, raised.  The mounted
                  \* Retry turns a lasting 429 into an exception; the tests
                  \* patch the session and do return it
  MaxChanges      \* bound: changes of the segment by others

ASSUME SizesOK ==
  /\ {PageSize, ChunkSize} \subseteq Nat \ {0} /\ {MAX_RETRIES, MaxChanges} \subseteq Nat
  /\ Segment0 \in Seq(Contacts)

VARIABLES
  segment, stayed,   \* the segment, and who has been in it from the start
  changes,
  pc,                \* fetching, importing or done
  offset, contacts,  \* the page loop
  start,             \* the chunk loop: index of the next chunk
  tries,             \* 429s answered to the present call
  updated, failures, \* the report: a count, and the failed chunks' starts
  holds,             \* contacts that have the new attribute
  resp

vars == <<segment, stayed, changes, pc, offset, contacts, start, tries, updated, failures, holds, resp>>
brevo == <<segment, stayed, changes>>

Init ==
  /\ segment = Segment0 /\ stayed = ToSet(Segment0) /\ changes = 0
  /\ pc = "fetching" /\ offset = 0 /\ contacts = <<>>
  /\ start = 0 /\ tries = 0 /\ updated = 0 /\ failures = {}
  /\ holds = {} /\ resp = "none"

Answer(r) == pc' = "done" /\ resp' = r

(* The slice s[from : from + size]. *)
Slice(s, from, size) ==
  SubSeq(s, from + 1, IF from + size < Len(s) THEN from + size ELSE Len(s))

-----------------------------------------------------------------------------
(* The page loop *)

(* Mutation: the loop stops at the first page that is not full. *)
GetPage_StopsShort ==
  LET page == Slice(segment, offset, PageSize) IN
  /\ pc = "fetching" /\ "ok" \in Outcomes
  /\ IF Len(page) < PageSize
     THEN pc' = "importing" /\ UNCHANGED <<contacts, offset>>
     ELSE contacts' = contacts \o page /\ offset' = offset + PageSize /\ UNCHANGED pc
  /\ tries' = 0
  /\ UNCHANGED <<brevo, start, updated, failures, holds, resp>>

GetPage ==
  LET page == Slice(segment, offset, PageSize) IN
  /\ pc = "fetching" /\ "ok" \in Outcomes
  /\ IF page = <<>>
     THEN pc' = "importing" /\ UNCHANGED <<contacts, offset>>
     ELSE contacts' = contacts \o page /\ offset' = offset + PageSize /\ UNCHANGED pc
  /\ tries' = 0
  /\ UNCHANGED <<brevo, start, updated, failures, holds, resp>>

GetPageFails ==
  /\ pc = "fetching"
  /\ \/ "429" \in Outcomes /\ tries < MAX_RETRIES /\ tries' = tries + 1 /\ UNCHANGED <<pc, resp>>
     \/ "429" \in Outcomes /\ tries = MAX_RETRIES /\ Answer("error") /\ UNCHANGED tries
     \/ "error" \in Outcomes /\ Answer("error") /\ UNCHANGED tries
     \/ "raised" \in Outcomes /\ Answer("500") /\ UNCHANGED tries
  /\ UNCHANGED <<brevo, offset, contacts, start, updated, failures, holds>>

-----------------------------------------------------------------------------
(* The chunk loop *)

contacts_json ==
  LET first[n \in 0..Len(contacts)] ==
        IF n = 0 THEN <<>>
        ELSE IF contacts[n] \in HasEmail THEN Append(first[n - 1], contacts[n]) ELSE first[n - 1]
  IN  first[Len(contacts)]

total == Len(contacts_json)
Chunk == Slice(contacts_json, start, ChunkSize)

Importing == pc = "importing" /\ start < total
NextChunk == start' = start + ChunkSize /\ tries' = 0

Import ==
  /\ Importing /\ "ok" \in Outcomes
  /\ holds' = holds \cup ToSet(Chunk)
  /\ updated' = updated + Len(Chunk)
  /\ NextChunk
  /\ UNCHANGED <<brevo, pc, offset, contacts, failures, resp>>

(* Mutation: `r` is not cleared before the retries of a chunk, so the last  *)
(* chunk's answer stands for this one's.                                    *)
ImportFails_StaleAnswer ==
  /\ Importing
  /\ \/ "429" \in Outcomes /\ tries < MAX_RETRIES /\ tries' = tries + 1
        /\ UNCHANGED <<start, updated, failures>>
     \/ /\ "429" \in Outcomes /\ tries = MAX_RETRIES /\ NextChunk
        /\ IF start > 0 /\ start - ChunkSize \notin failures
           THEN updated' = updated + Len(Chunk) /\ UNCHANGED failures
           ELSE failures' = failures \cup {start} /\ UNCHANGED updated
  /\ UNCHANGED <<brevo, pc, offset, contacts, holds, resp>>

(* Mutation: a rate-limited chunk is tried until it passes. *)
ImportFails_Forever ==
  /\ Importing /\ "429" \in Outcomes
  /\ tries' = 1 - tries
  /\ UNCHANGED <<brevo, pc, offset, contacts, start, updated, failures, holds, resp>>

(* Mutation: a chunk that fails is answered like a page that fails. *)
ImportFails_Answers ==
  /\ Importing
  /\ \/ "429" \in Outcomes /\ tries < MAX_RETRIES /\ tries' = tries + 1 /\ UNCHANGED <<pc, resp>>
     \/ "429" \in Outcomes /\ tries = MAX_RETRIES /\ Answer("error") /\ UNCHANGED tries
     \/ "error" \in Outcomes /\ Answer("error") /\ UNCHANGED tries
  /\ UNCHANGED <<brevo, start, failures, offset, contacts, updated, holds>>

(* A chunk that fails is reported and skipped.                              *)
ImportFails ==
  /\ Importing
  /\ \/ "429" \in Outcomes /\ tries < MAX_RETRIES /\ tries' = tries + 1 /\ UNCHANGED <<start, failures>>
     \/ "429" \in Outcomes /\ tries = MAX_RETRIES /\ NextChunk /\ failures' = failures \cup {start}
     \/ "error" \in Outcomes /\ NextChunk /\ failures' = failures \cup {start}
  /\ UNCHANGED <<brevo, pc, offset, contacts, updated, holds, resp>>

(* An exception of the call ends the request, done or undone as it is.      *)
ImportRaises ==
  /\ Importing /\ "raised" \in Outcomes
  /\ holds' \in {holds, holds \cup ToSet(Chunk)}
  /\ Answer("500")
  /\ UNCHANGED <<brevo, offset, contacts, start, tries, updated, failures>>

Report ==
  /\ pc = "importing" /\ start >= total
  /\ Answer("success")
  /\ UNCHANGED <<brevo, offset, contacts, start, tries, updated, failures, holds>>

-----------------------------------------------------------------------------
(* Others *)

Leave ==
  /\ changes < MaxChanges /\ changes' = changes + 1
  /\ \E i \in DOMAIN segment : segment' = RemoveAt(segment, i) /\ stayed' = stayed \ {segment[i]}
  /\ UNCHANGED <<pc, offset, contacts, start, tries, updated, failures, holds, resp>>

Join ==
  /\ changes < MaxChanges /\ changes' = changes + 1
  /\ \E c \in Contacts \ ToSet(segment), i \in 1..(Len(segment) + 1) : segment' = InsertAt(segment, i, c)
  /\ UNCHANGED <<stayed, pc, offset, contacts, start, tries, updated, failures, holds, resp>>

Calls == GetPage \/ GetPageFails \/ Import \/ ImportFails \/ ImportRaises \/ Report
Next == Calls \/ Leave \/ Join

Spec == Init /\ [][Next]_vars

(* Every call of requests has a timeout: it returns or raises.              *)
FairSpec == Spec /\ WF_vars(Calls)

-----------------------------------------------------------------------------
(* Properties *)

(* The contact lies in a chunk that the report names. *)
Reported(j) == \E from \in failures : from < j /\ j <= from + ChunkSize

(* The report adds up: what is counted as updated was, and every contact    *)
(* that was not lies in a chunk the report names.  "Failed to fetch         *)
(* contacts" is answered before anything was changed.                       *)
ReportTrue ==
  /\ resp = "success" =>
       LET passed == {j \in 1..total : ~Reported(j)}
       IN  updated = Cardinality(passed) /\ \A j \in passed : contacts_json[j] \in holds
  /\ resp = "error" => holds = {}

(* The invariant of the chunk loop: up to `start`, every contact was updated*)
(* and counted, or lies in a chunk that is reported.                        *)
Passed == {j \in 1..total : j <= start /\ ~Reported(j)}

LoopInv ==
  /\ \A from \in failures : from + ChunkSize <= start
  /\ pc = "fetching" => start = 0 /\ updated = 0 /\ holds = {}
  /\ pc # "fetching" => updated = Cardinality(Passed) /\ \A j \in Passed : contacts_json[j] \in holds
  /\ pc # "done" => resp = "none"
  /\ resp = "success" => start >= total
  /\ resp = "error" => holds = {}

(* The invariant of the page loop, while nobody changes the segment.        *)
SteadyInv ==
  changes = 0 =>
    /\ segment = Segment0 /\ stayed = ToSet(Segment0)
    /\ pc = "fetching" => \A i \in DOMAIN segment : i <= offset => segment[i] \in ToSet(contacts)
    /\ pc = "importing" \/ resp = "success" => ToSet(segment) \subseteq ToSet(contacts)

(* "Bulk update an attribute for every contact in a Brevo segment": a       *)
(* success without failures means every contact that was in the segment all *)
(* along, and has an address, has the attribute.                            *)
EveryContact == resp = "success" /\ failures = {} => stayed \cap HasEmail \subseteq holds

(* That much is so when nobody changes the segment meanwhile. *)
EveryContactOfSteady == changes = 0 => EveryContact

(* The request ends, however Brevo answers. *)
Ends == <>(pc = "done")
=============================================================================
