--------------------------- MODULE DownstreamDocs ---------------------------
(* GET /openapi.json and GET /admin/openapi.json: the gateway's own routes, *)
(* filtered, with the specs of the proxied services spliced in from a cache *)
(* that each document build refreshes as it goes.                           *)
(*                                                                          *)
(* An operation is [root, leaf, method, refs, inputs, notes, marked]: the   *)
(* first segment of its path, the rest of it, the schemas it refers to,     *)
(* what it takes, and what was added to it: an example, a default or a      *)
(* warning.  Of its inputs only those that something is added to are told:  *)
(* a request body, media types in it, and a parameter dry_run of its own.   *)
(* A schema name is <<namespace, name>>.  Titles and texts are left out.    *)
EXTENDS Naturals, Sequences, SequencesExt, FiniteSets, References

CONSTANTS
  Requests,      \* document builds
  Order,         \* the services, in the order public_openapi merges them
  Published,     \* [service -> what it may publish: specs [ops, schemas], Garbled]
  TTL,           \* _CACHE_TTL_SECONDS
  FetchTime,     \* bound on a fetch: httpx gives up after 5 seconds
  MaxTime,       \* bound on the clock
  Failed,        \* a fetch that raised
  Garbled,       \* a body that is JSON but no object
  NoEntry, Unread

ASSUME TimesOK == {TTL, FetchTime, MaxTime} \subseteq Nat /\ FetchTime < TTL

ASSUME OrderOK ==
  /\ Order \in Seq({"sync", "openstates", "broker"})
  /\ \A i, j \in DOMAIN Order : i # j => Order[i] # Order[j]

Services == {Order[i] : i \in DOMAIN Order}

VARIABLES
  now,
  world,         \* what each service publishes now
  lastSeen,      \* history: when each service last published, or failed to deliver, each thing
  cache,         \* _cache: [at, spec] per service
  stage,         \* of each build: new, the service it awaits, done or error
  fetch,         \* its fetch: [started, got]
  doc,           \* the document so far: [ops, schemas]
  age            \* history: how old the oldest thing merged into it was

vars == <<now, world, lastSeen, cache, stage, fetch, doc, age>>

Outcomes(s) == Published[s] \cup {Failed}

-----------------------------------------------------------------------------
(* The gateway's own document *)

Own(n) == <<"", n>>
Op(root, leaf, method, refs) ==
  [root |-> root, leaf |-> leaf, method |-> method, refs |-> refs,
   inputs |-> {}, notes |-> {}, marked |-> FALSE]

(* POST routes behind read_auth, and the other local ones. *)
ReadPosts ==
  { <<"", "get_tokens">>, <<"", "get_users">>, <<"", "get_events">>, <<"", "user_updates">>,
    <<"votebot", "chat">>, <<"votebot", "chat/stream">>,
    <<"webflow", "check/org-missing-fields">>, <<"webflow", "check/duplicates">> }

WritePosts ==
  { <<"", "create_event">>, <<"", "update_segment_attribute">>, <<"votebot", "feedback">>,
    <<"webflow", "fill/gov-url">>, <<"webflow", "fill/session-code">>, <<"webflow", "fill/map-url">>,
    <<"webflow", "sync/bill-org">>, <<"webflow", "sync/org-about-fields">>,
    <<"webflow", "resolve/duplicate-group">> }

LocalOps ==
  {Op(p[1], p[2], "post", {Own("Body"), Own("HTTPValidationError")}) : p \in ReadPosts \cup WritePosts}
  \cup { Op("webflow", "items/{item_id}", "delete", {Own("HTTPValidationError")}),
         Op("voatz", "users/{org_id}", "get", {Own("HTTPValidationError")}),
         Op("voatz", "events/{org_id}", "get", {Own("HTTPValidationError")}),
         Op("", "", "get", {}), Op("", "health", "get", {}) }

AdminOps ==
  { Op("admin", "keys", "post", {Own("IssueKeyRequest"), Own("HTTPValidationError")}),
    Op("admin", "keys", "get", {Own("ListKeysResponse")}),
    Op("admin", "keys/{key_id}", "delete", {Own("HTTPValidationError")}),
    Op("admin", "keys/{key_id}/rotate", "post", {Own("HTTPValidationError")}),
    Op("admin", "reload", "post", {}) }

CatchAll(root) == {Op(root, "{path}", m, {}) : m \in IF root = "broker" \/ root = "sync"
                     THEN {"get", "post", "put", "delete"} ELSE {"get", "post"}}

ProxyOps ==
  (UNION {CatchAll(root) : root \in {"sync", "trigger", "openstates", "broker"}})
  \cup {Op("openstates", "healthz", "get", {})}

OwnSchemas ==
  [n \in {Own("Body"), Own("HTTPValidationError"), Own("ValidationError"), Own("IssueKeyRequest"),
          Own("Restrictions"), Own("ListKeysResponse"), Own("KeyInfo")} |->
     IF n = Own("HTTPValidationError") THEN {Own("ValidationError")}
     ELSE IF n = Own("IssueKeyRequest") THEN {Own("Restrictions")}
     ELSE IF n = Own("ListKeysResponse") THEN {Own("KeyInfo")}
     ELSE {}]

OwnDoc == [ops |-> LocalOps \cup AdminOps \cup ProxyOps, schemas |-> OwnSchemas]

RefsOf(ops) == UNION {op.refs : op \in ops}

(* Mutation: the schemas are left as they are. *)
Filtered_PathsOnly(d, admin) == [d EXCEPT !.ops = {op \in @ : (op.root = "admin") = admin}]

(* filter_paths *)
Filtered(d, admin) ==
  LET ops == {op \in d.ops : (op.root = "admin") = admin}
      kept == Reached(RefsOf(ops), d.schemas)
  IN  [ops |-> ops, schemas |-> [n \in kept |-> d.schemas[n]]]

-----------------------------------------------------------------------------
(* Merging a downstream spec *)

Renamed(s, spec, n) == IF n \in DOMAIN spec.schemas THEN <<s, n>> ELSE Own(n)
RenamedAll(s, spec, names) == {Renamed(s, spec, n) : n \in names}

(* _BODY_EXAMPLES, _PARAM_DEFAULTS and _JOB_STARTERS, all of them POSTs,    *)
(* named by their public paths.                                             *)
BodyExamples ==
  {<<"sync", "unified">>}
  \cup {<<"trigger", leaf>> : leaf \in
          {"bill-artifact-generation", "legbot-analyze-bill-full", "legbot-analyze-bill"}}
  \cup {<<"broker", leaf>> : leaf \in
          {"api/bill-artifacts/", "api/bill-versions/", "api/bills/ensure/", "api/bill-promotion-requests/",
           "api/concept-statement-sets/", "api/concept-votes/", "api/flags/", "api/bill-organization-positions/",
           "api/openstates-bill-events/check/", "api/bill-organization-research-runs/"}}

ParamDefaults == {<<"sync", "unified/all">>, <<"trigger", "legislator-bio-sync">>}

JobStarters ==
  {<<"trigger", leaf>> : leaf \in
     {"user-sync", "full-sync", "bill-version-check", "bill-status-sync", "votebot-eval",
      "grantbot-scrape-funders"}}
  \cup {<<"openstates", "ddp/search/refresh">>}

(* path_map: what the proxy does not reach is skipped. *)
Reachable(s, op) == s = "sync" => op.root \in {"sync", "trigger"}
Mounted(s, op) == IF s = "sync" THEN op.root ELSE s

In(table, s, op) == op.method = "post" /\ <<Mounted(s, op), op.leaf>> \in table

(* A route with an example that declares no body is given one. *)
Inputs(s, op) ==
  op.inputs \cup (IF In(BodyExamples, s, op) /\ "body" \notin op.inputs THEN {"body", "media"} ELSE {})

(* Mutation: the tables are asked for the path the service publishes. *)
Annotated_OldPath(s, op) ==
  {n \in {"example", "default", "warning"} :
     /\ op.method = "post"
     /\ n = "example" => <<op.root, op.leaf>> \in BodyExamples /\ "media" \in Inputs(s, op)
     /\ n = "default" => <<op.root, op.leaf>> \in ParamDefaults /\ "dry_run" \in op.inputs
     /\ n = "warning" => <<op.root, op.leaf>> \in JobStarters}

(* _apply_examples, and the warning on what only a visitor's cookie opens.  *)
(* The example goes into each media type of the body, the default into a    *)
(* parameter of the table's name: there may be neither.                     *)
Annotated(s, op) ==
  {n \in {"example", "default", "warning", "session"} :
     /\ n = "example" => In(BodyExamples, s, op) /\ "media" \in Inputs(s, op)
     /\ n = "default" => In(ParamDefaults, s, op) /\ "dry_run" \in op.inputs
     /\ n = "warning" => In(JobStarters, s, op)
     /\ n = "session" => s = "broker" /\ op.cookie}

(* What a service publishes, if it is a document at all, refers only to     *)
(* itself, and what of it the proxy reaches is more than a health check and *)
(* nowhere a catch-all.                                                     *)
Methods == {"get", "post", "put", "patch", "delete"}

Proper(s, spec) ==
  /\ \A op \in spec.ops : op.method \in Methods /\ op.refs \subseteq DOMAIN spec.schemas
  /\ \A n \in DOMAIN spec.schemas : spec.schemas[n] \subseteq DOMAIN spec.schemas
  /\ \A op \in spec.ops : op.leaf # "{path}"
  /\ (\E op \in spec.ops : Reachable(s, op)) => \E op \in spec.ops : Reachable(s, op) /\ op.leaf # "healthz"

ASSUME PublishedOK == \A s \in Services : \A x \in Published[s] : x = Garbled \/ Proper(s, x)

(* _merge_paths: a path item replaces the one of the same path. *)
MergedOps(s, spec) ==
  {[Op(Mounted(s, op), op.leaf, op.method, RenamedAll(s, spec, op.refs))
      EXCEPT !.inputs = Inputs(s, op), !.notes = Annotated(s, op)] :
     op \in {o \in spec.ops : Reachable(s, o)}}

(* Mutation: schemas are copied as they are. *)
MergedSchemas_NotRewritten(s, spec) ==
  [n \in {<<s, m>> : m \in DOMAIN spec.schemas} |-> {Own(m) : m \in spec.schemas[n[2]]}]

(* _merge_schemas *)
MergedSchemas(s, spec) ==
  [n \in {<<s, m>> : m \in DOMAIN spec.schemas} |-> RenamedAll(s, spec, spec.schemas[n[2]])]

(* Those of a later service take the place of any of the same name. *)
Overlaid(schemas, more) ==
  [n \in DOMAIN schemas \cup DOMAIN more |-> IF n \in DOMAIN more THEN more[n] ELSE schemas[n]]

Roots(s) == IF s = "sync" THEN {"sync", "trigger"} ELSE {s}

(* Mutation: the catch-all goes whether or not anything took its place. *)
Merge_AlwaysPops(s, spec, d) ==
  IF spec = Failed THEN d
  ELSE LET ops == MergedOps(s, spec) IN
       [ops |-> {op \in d.ops \cup ops : ~(op.root \in Roots(s) /\ op.leaf = "{path}")},
        schemas |-> Overlaid(d.schemas, MergedSchemas(s, spec))]

(* merge_ddp_sync, merge_openstates, merge_broker *)
Merge(s, spec, d) ==
  IF spec = Failed THEN d
  ELSE LET ops == MergedOps(s, spec)
           left == {op \in d.ops : \A new \in ops : <<op.root, op.leaf>> # <<new.root, new.leaf>>}
       IN  [ops |-> IF ops = {} THEN d.ops
                    ELSE {op \in left \cup ops : ~(op.root \in Roots(s) /\ op.leaf = "{path}")},
            schemas |-> Overlaid(d.schemas, MergedSchemas(s, spec))]

(* Mutation: a method is forgotten. *)
Mutating_NoPatch == {"post", "put", "delete"}

Mutating == {"post", "put", "patch", "delete"}

READ_ONLY_POSTS ==
  {<<"post", <<"", leaf>>>> : leaf \in {"get_tokens", "get_users", "get_events", "user_updates"}}
  \cup {<<"post", <<"votebot", leaf>>>> : leaf \in {"chat", "chat/stream"}}
  \cup {<<"post", <<"webflow", leaf>>>> : leaf \in {"check/org-missing-fields", "check/duplicates"}}

(* mark_write_operations *)
Marked(d) ==
  [d EXCEPT !.ops = {[op EXCEPT !.marked =
      op.method \in Mutating /\ <<op.method, <<op.root, op.leaf>>>> \notin READ_ONLY_POSTS] : op \in @}]

-----------------------------------------------------------------------------
(* The cache *)

Init ==
  /\ now = 0
  /\ world \in {w \in [Services -> UNION {Outcomes(s) : s \in Services}] : \A s \in Services : w[s] \in Outcomes(s)}
  /\ lastSeen = [s \in Services |-> [x \in {world[s]} |-> 0]]
  /\ cache = [s \in Services |-> NoEntry]
  /\ stage = [r \in Requests |-> "new"]
  /\ fetch = [r \in Requests |-> [started |-> 0, got |-> Unread]]
  /\ doc = [r \in Requests |-> [ops |-> {}, schemas |-> <<>>]]
  /\ age = [r \in Requests |-> 0]

Saw(s, x) ==
  lastSeen' = [lastSeen EXCEPT ![s] = [y \in DOMAIN @ \cup {x} |-> IF y = x THEN now ELSE @[y]]]
AgeOf(s, x) == IF world[s] = x THEN 0 ELSE now - lastSeen[s][x]

(* Mutation: an entry is kept for as long as it is asked for in time. *)
Fresh_Forever(c, s) == c[s] # NoEntry

Fresh(c, s) == c[s] # NoEntry /\ now - c[s].at < TTL

Older(a, b) == IF a > b THEN a ELSE b

(* merge_...: from the cache, if its entry is fresh; else it awaits a fetch.*)
Pass(w, s, c) ==
  IF w.stage # "done" THEN w
  ELSE IF ~Fresh(c, s) THEN [w EXCEPT !.stage = s]
  ELSE IF c[s].spec = Garbled THEN [w EXCEPT !.stage = "error"]
  ELSE [stage |-> "done", doc |-> Merge(s, c[s].spec, w.doc), age |-> Older(AgeOf(s, c[s].spec), w.age)]

(* What happens without an await: merging from the cache, service by        *)
(* service past the first `at`, up to one that must be fetched, an error,   *)
(* or the end.                                                              *)
Walk(at, d, a, c) ==
  LET w[n \in at..Len(Order)] ==
        IF n = at THEN [stage |-> "done", doc |-> d, age |-> a] ELSE Pass(w[n - 1], Order[n], c)
  IN  w[Len(Order)]

(* The build goes on as far as it can: it is marked and served, fails, or   *)
(* starts a fetch, whose `now` is read before the await.                    *)
Continue(r, at, d, a, c) ==
  LET w == Walk(at, d, a, c) IN
  /\ stage' = [stage EXCEPT ![r] = w.stage]
  /\ doc' = [doc EXCEPT ![r] = IF w.stage = "done" THEN Marked(w.doc) ELSE w.doc]
  /\ age' = [age EXCEPT ![r] = w.age]
  /\ fetch' = [fetch EXCEPT ![r] = [started |-> IF w.stage \in Services THEN now ELSE 0, got |-> Unread]]

(* public_openapi, up to its first await. *)
PublicDocs(r) ==
  /\ stage[r] = "new"
  /\ Continue(r, 0, Filtered(OwnDoc, FALSE), 0, cache)
  /\ UNCHANGED <<now, world, lastSeen, cache>>

(* admin_openapi: no await, no merge. *)
AdminDocs(r) ==
  /\ stage[r] = "new"
  /\ stage' = [stage EXCEPT ![r] = "admin"]
  /\ doc' = [doc EXCEPT ![r] = Filtered(OwnDoc, TRUE)]
  /\ UNCHANGED <<now, world, lastSeen, cache, fetch, age>>

(* The service answers with what it publishes; the answer is under way. *)
ServiceAnswers(r) ==
  /\ stage[r] \in Services /\ fetch[r].got = Unread
  /\ fetch' = [fetch EXCEPT ![r].got = world[stage[r]]]
  /\ UNCHANGED <<now, world, lastSeen, cache, stage, doc, age>>

(* The fetch gives up, or the service cannot be reached. *)
FetchFails(r) ==
  /\ stage[r] \in Services /\ fetch[r].got # Failed
  /\ fetch' = [fetch EXCEPT ![r].got = Failed]
  /\ Saw(stage[r], Failed)
  /\ UNCHANGED <<now, world, cache, stage, doc, age>>

(* Mutation: the entry is dated when the answer arrives. *)
Entry_DatedLate(r) == [at |-> now, spec |-> fetch[r].got]

(* The cache entry, failures included, dated before the await. *)
Entry(r) == [at |-> fetch[r].started, spec |-> fetch[r].got]

Place(s) == CHOOSE i \in DOMAIN Order : Order[i] = s

(* _fetch_spec resumes: it overwrites whatever another build cached since. *)
FetchDone(r) ==
  LET s == stage[r]
      got == fetch[r].got
  IN
  /\ s \in Services /\ got # Unread
  /\ cache' = [cache EXCEPT ![s] = Entry(r)]
  /\ \/ /\ got = Garbled
        /\ stage' = [stage EXCEPT ![r] = "error"]
        /\ UNCHANGED <<fetch, doc, age>>
     \/ /\ got # Garbled
        /\ Continue(r, Place(s), Merge(s, got, doc[r]), Older(AgeOf(s, got), age[r]), cache)
  /\ UNCHANGED <<now, world, lastSeen>>

(* A service is deployed, or goes away. *)
Publish(s) ==
  /\ \E x \in Outcomes(s) \ {world[s]} : world' = [world EXCEPT ![s] = x]
  /\ Saw(s, world[s])
  /\ UNCHANGED <<now, cache, stage, fetch, doc, age>>

Tick ==
  /\ now < MaxTime
  /\ \A r \in Requests : stage[r] \in Services => now - fetch[r].started < FetchTime
  /\ now' = now + 1
  /\ UNCHANGED <<world, lastSeen, cache, stage, fetch, doc, age>>

Next ==
  \/ \E r \in Requests : PublicDocs(r) \/ AdminDocs(r) \/ ServiceAnswers(r) \/ FetchFails(r) \/ FetchDone(r)
  \/ \E s \in Services : Publish(s)
  \/ Tick

Spec == Init /\ [][Next]_vars

-----------------------------------------------------------------------------
(* Properties *)

TypeOK ==
  /\ now \in Nat
  /\ world \in [Services -> UNION {Outcomes(s) : s \in Services}] /\ \A s \in Services : world[s] \in Outcomes(s)
  /\ DOMAIN lastSeen = Services
  /\ \A s \in Services : \A x \in DOMAIN lastSeen[s] : lastSeen[s][x] \in 0..now
  /\ DOMAIN cache = Services
  /\ stage \in [Requests -> Services \cup {"new", "admin", "done", "error"}]
  /\ DOMAIN fetch = Requests /\ \A r \in Requests : DOMAIN fetch[r] = {"started", "got"}
  /\ DOMAIN doc = Requests /\ age \in [Requests -> Nat]

Served == {r \in Requests : stage[r] = "done"}

(* What the properties say of one document. *)
Hidden == {Own("IssueKeyRequest"), Own("KeyInfo")}
Whole(d) == RefsOf(d.ops) \cup UNION {d.schemas[n] : n \in DOMAIN d.schemas} \subseteq DOMAIN d.schemas
Shows(d, s) == \E op \in d.ops : op.root \in Roots(s) /\ op.leaf # "healthz"

Path(op) == <<op.root, op.leaf>>
Advised(op) ==
  op.method = "post" =>
    /\ Path(op) \in JobStarters => "warning" \in op.notes
    /\ Path(op) \in BodyExamples =>
         "body" \in op.inputs /\ ("media" \in op.inputs => "example" \in op.notes)
    /\ Path(op) \in ParamDefaults /\ "dry_run" \in op.inputs => "default" \in op.notes

(* The public page never shows an admin route, nor a model only they use,   *)
(* and the admin page shows nothing else: main.py's two documents.          *)
AdminApart ==
  \A r \in Requests :
    /\ r \in Served => \A op \in doc[r].ops : op.root # "admin"
    /\ r \in Served => Hidden \cap DOMAIN doc[r].schemas = {}
    /\ stage[r] = "admin" => \A op \in doc[r].ops : op.root = "admin"

(* Every schema a served document refers to is in it, through the filter,   *)
(* the renaming and whatever the services publish.                          *)
RefsResolve ==
  \A r \in Requests : stage[r] \in {"done", "admin"} => Whole(doc[r])

(* "Try it out" is off for every write that the public page shows, those    *)
(* of the services too, and on for the POSTs whose routes ask for a read    *)
(* key.  Whatever a service publishes of the routes that start a job is     *)
(* shown with the warning; those that have an example that does nothing are *)
(* shown with a body, and every media type of it with the example; a route  *)
(* of the defaults' table is shown with the default if it has the parameter.*)
WritesBlocked ==
  \A r \in Served : \A op \in doc[r].ops :
    /\ op.marked <=> op.method # "get" /\ ~(op.method = "post" /\ Path(op) \in ReadPosts)
    /\ Advised(op)

(* A service that cannot be fetched, or publishes nothing the proxy reaches,*)
(* keeps its generic entry: no proxy vanishes from the page.                *)
ProxiesShown == \A r \in Served, s \in Services : Shows(doc[r], s)

(* The invariant of a public document, from its filtering to its marking:   *)
(* it has all that the properties ask for except the marks.                 *)
Sound(d) ==
  /\ DOMAIN d = {"ops", "schemas"}
  /\ \A op \in d.ops :
       /\ DOMAIN op = {"root", "leaf", "method", "refs", "inputs", "notes", "marked"}
       /\ op.root # "admin" /\ op.method \in Methods /\ Advised(op)
  /\ Hidden \cap DOMAIN d.schemas = {} /\ Whole(d)
  /\ \A s \in Services : Shows(d, s)

Documents ==
  \A r \in Requests :
    /\ stage[r] \in Services \cup {"done"} => Sound(doc[r])
    /\ r \in Served => \A op \in doc[r].ops :
         op.marked <=> op.method \in Mutating /\ <<op.method, Path(op)>> \notin READ_ONLY_POSTS
    /\ stage[r] = "admin" => doc[r] = Filtered(OwnDoc, TRUE)

(* The thing is what the service publishes now, or was the last seen of it  *)
(* at that time or later.                                                   *)
Since(s, x, time) == world[s] = x \/ (x \in DOMAIN lastSeen[s] /\ lastSeen[s][x] >= time)

(* The invariant of the cache: whatever entry it holds and whatever answer  *)
(* is under way was there at the time the entry has, or will have; and no   *)
(* fetch takes longer than it may.                                          *)
DatedRight ==
  /\ \A s \in Services : cache[s] # NoEntry =>
       cache[s].at \in 0..now /\ cache[s].spec \in Outcomes(s) /\ Since(s, cache[s].spec, cache[s].at)
  /\ \A r \in Requests : stage[r] \in Services =>
       /\ fetch[r].started \in 0..now /\ now - fetch[r].started <= FetchTime
       /\ fetch[r].got # Unread =>
            fetch[r].got \in Outcomes(stage[r]) /\ Since(stage[r], fetch[r].got, fetch[r].started)

(* Nothing merged into a document is older than the TTL, however fetches    *)
(* overlap and overwrite each other's entries.                              *)
NothingStale == \A r \in Requests : age[r] < TTL

(* A page that cannot be built is the doing of a service that published a   *)
(* body which is no document, within the TTL: the error does not stick.     *)
GarbledLately ==
  \A r \in Requests : stage[r] # "error" /\ stage'[r] = "error" =>
    \E s \in Services :
      \/ world[s] = Garbled
      \/ Garbled \in DOMAIN lastSeen[s] /\ now - lastSeen[s][Garbled] < TTL

ErrorsPass == [][GarbledLately]_vars
=============================================================================
