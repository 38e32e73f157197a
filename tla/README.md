# ddp-api: TLA+ specifications and proofs

ddp-api is a FastAPI gateway. It authenticates callers with managed API keys,
serves some endpoints itself (Voatz users, events and list comparison, Brevo
contact synchronisation, Webflow clean-up), and proxies the rest to VoteBot,
DDP-Sync, the OpenStates API and the DDP broker. It also publishes one OpenAPI
document that merges its own routes with those of the proxied services.

This directory holds TLA+ modules translated from the code under `src/`, TLC
configurations that check them on small instances, and proofs, checked by
TLAPS, that hold for every value of the constants. `PROJECT.json` names, for
every definition that models code, the lines it stands for.

## 1. Inventory

### Components

| Component | Source | State it keeps | Operations | Status |
|---|---|---|---|---|
| API key store, admin routes, lifespan | `services/key_store.py`, `routes/admin.py`, `main.py` | one secret (or a local file) with all keys; in each process two indexes over shared `ApiKey` objects and the time they were loaded | load, refresh after 60 s, issue, revoke, rotate, list, reload, flush of `last_used_at`, start, shutdown | modelled |
| Authentication, scopes, restrictions | `middleware/auth.py` | none (stamps `last_used_at`) | `read_auth`, `write_auth`, `_check_endpoint_access`, `_check_expired` | modelled |
| HTTP proxies | `routes/ddp_sync_proxy.py`, `openstates_proxy.py`, `broker_proxy.py` | none; one upstream call per request | match, authorise, forward, retry, map errors | modelled |
| VoteBot chat, stream and feedback | `routes/votebot.py` | none | one call each, a stream of chunks | modelled |
| Voatz tokens and events | `services/voatz.py`, `routes/voatz.py` | none; the event loop, which their calls hold | one call each | modelled |
| Schema filter | `services/spec_filter.py` | local | `filter_paths` | modelled |
| Public and admin documentation | `services/downstream_openapi.py`, `docs_try_it_out.py`, `main.py` | one cached spec per service | filter, fetch, cache, merge, add examples, defaults and warnings, mark writes | modelled |
| Brevo segment update | `routes/brevo.py` | the remote segment | page loop, chunk loop, retries, report | modelled |
| Comparisons of Voatz users with a caller's list | `routes/brevo.py`, `routes/voatz.py` | none | fetch, page, compare, report | modelled |
| Voatz user fetch | `services/voatz.py` | a cursor | `fetch_users` | modelled |
| VoteBot WebSocket bridge | `routes/votebot.py` | two sockets, two coroutines | connect, relay both ways, close | modelled |
| Configuration | `config.py`, `routes/admin.py` | one cached document per process | load, fall back, validate, reload | modelled |
| Pre-authenticated Voatz wrappers | `routes/voatz.py`, `services/voatz.py` | none | check the organization, look it up, fetch | modelled |
| Webflow routes | `routes/webflow.py` | the remote CMS | resolve token and collections, fill, sync, check, resolve, delete | partly: what the library they call does is external |
| Schemas, legacy `middleware.py`, tests, deployment files | | | | not modelled |

### How they interact

- Every route but the health checks goes through authentication, which reads
  the key store's indexes and may refresh them from the secret first. So *any*
  request can change the state of the key store (a refresh, a `last_used_at`).
- The admin routes change the store by a read-modify-write of the whole
  document; several gateway processes share that document and nothing else, and
  nothing makes them take turns.
- The proxies call services that the gateway cannot observe: a request that
  timed out may still be worked on. Authorisation is decided once, before the
  call; keys may lapse meanwhile.
- A documentation build reads the cache that other builds are filling and may
  wait for a service between two reads.
- `compare_users` calls `fetch_users`, then pages a Brevo list by offset while
  others change it, and compares two snapshots taken at different times.
- Webflow routes and the Voatz wrappers ask `get_config` for what they need, up
  to three times in a request; `POST /admin/reload` replaces the document, and
  then the keys, and either may fail.
- Handlers that call `requests` or boto3 are coroutines without an await: while
  one of them waits, no other request of the process gets anywhere.

### What is hard, and what has to hold

| Where | Hard behaviour | Properties |
|---|---|---|
| key store | crash or failure between memory and store, lost acknowledgement, racing writers, caches loaded slowly and gone stale, shared objects, aged uses | `DurableKeys`, `RevokedGone`, `CacheBacked`, `RotatedExpires`, `OnlyRacesUndo`, `RevocationLatency`, `RotationTimely`, `UsedMonotone`, `OneLifePerKey` |
| request path | timeout racing late work, retry of a write, a service that vanishes with requests, overlapping routes, string prefixes, an expiry that is no date, calls that hold the event loop | `AtMostOnce`, `AnswersTruthful`, `ImplementsUpstreamCall`, `OnlyEntitled`, `RefusedForCause`, `Answered` |
| documentation | overlapping fetches that overwrite each other, cyclic and dangling references, bodies that are no document, tables keyed by public paths | `NothingStale`, `ErrorsPass`, `RefsResolve`, `AdminApart`, `WritesBlocked`, `ProxiesShown`; `RefsKept`, `NothingUnused`, `Terminates` |
| paging | lists that change while they are read, failures half way, rate limits | `EveryContactOfSteady`, `ReportTrue`, `NobodySkipped`, `ReportSettles`, `Ends` |
| configuration | an outage at a reload, half a reload, keys that load from elsewhere without a word, a deployment between two lookups of one request, what a refusal tells | `ReloadBinds`, `OneDocument`, `OrgsKeptApart` |
| WebSocket bridge | two coroutines over two sockets, either end leaving at any time, a frame that ends one coroutine only | `InOrder`, `Delivered`, `NobodyLeftHanging`, `EndsWhenNoticed` |

`PROJECT.json` lists each hazard at its line, those that no property covers with
the reason.

## 2. Modules

### `KeyRegistry`, `KeyStore` (with `MCKeyStore`)

`KeyRegistry` is what the store promises: each key is unborn, then an entry,
then gone; one step concerns one key, except a shutdown's write-back of
`last_used_at`.

`KeyStore` is the code. `cache[p]` is a process's `_by_id`, `_by_hash`, the
`ApiKey` objects both refer to (one heap) and `_loaded_at`; `secret` and `local`
are the two documents; `snap[p]` is the document that a load or
`_persist_update` has read and not yet installed or written; `pc[p]` says which
load or handler the process is inside.

A load is two steps. `Start`, `Refresh` and `Reload` read the document (or what
stands in for it when the read fails); `Installed` replaces both indexes and
dates them with the time *then*, as `_load_from_config` does. Up to `LoadTime`
passes between the two, in which other processes may revoke. A handler is two to
four steps:

1. `StartIssue`, `StartRevoke`, `StartRotate`, `Shutdown`: up to
   `_persist_update`, by a process whose cache is not stale (`Ready`).
   `StartRevoke` already takes the key out of memory, as the code does.
2. `SMGet`: the document is read.
3. `SMPut` (written), `SMFails` (the call raised), `SMAckLost` (written, but the
   call raised), `LocalPut` / `LocalFails` / `TearLocal` (the development
   fallback), each with what the handler does next: `IssueDone`, `RevokeDone`,
   `RotateNewDone` (which goes on to the second write), `RotateOldDone`,
   `FlushDone`, or `Aborted`.

`Crash` can happen between any two of them. Any number of processes interleave
at these steps. A put writes back what its own process read, so a put of another
process in between is lost; the history `overwritten` collects the keys a put
changed only for that reason. `told`, `revokedAt` and `deadline` record what the
answers said, so that the properties relate a caller's knowledge to the state,
not one internal field to another. `Deployed` is either production (the secret,
no file) or a developer's machine (the file, no secret, one process);
`GetOutcomes` and `PutOutcomes` say how calls of Secrets Manager may end.

Abstractions: an id and its hash are one identity, drawn fresh; names, scopes
and restrictions are left out (scopes are in `Gateway`); the objects of an index
and the two dicts are replaced in one step, since the process does nothing else
meanwhile.

### `UpstreamCall`, `Gateway` (with `MCGateway`)

`UpstreamCall` is what a caller may rely on: work is done at most once; after a
refusal never; after a success it was; after anything else, perhaps.

`Gateway` is one request from routing to answer. `Routes` is the sequence of
declared routes in the order `main.py` includes them; paths are sequences of
segments, and a segment a sequence of pieces of text. A restriction is any text,
given by the text before its first slash, its segments and the slashes it ends in
(`EndpointsOK`), so that the string prefix test of `_check_endpoint_access` is
done on text (`Text`, `Written`) while the property (`Within`) speaks of
segments. `route` is the route that was matched. `Arrive` is routing and authentication;
`Deliver`, `Refuse`, `Strand` are the ways a connection attempt goes; `Reply`,
`TimeOut`, `Break` those an open call ends; `Wake` is the retry that only
`openstates_proxy` has. `Perform`, `Down`, `Up` and `Lapse` are the world.
The routes of `votebot.py` and the single calls of `voatz.py` are among the
`Routes`; they differ in their scopes, in which bodies must be JSON
(`MustBeJson`) and in what they tell of a failure (`Outcome`). `LoopHeldBy` is
the event loop: while a call to Voatz is under way no other handler takes a
step, not even to time out. `Undated` are keys whose `expires_at`, an
unvalidated text, cannot be compared with the clock: authentication itself then
ends in a 500.

### `References`, `SpecFilter`, `DownstreamDocs` (with `MCDownstreamDocs`)

`SpecFilter` is the worklist of `filter_paths`, one step per pass, over any
document. `DownstreamDocs` is a documentation build: `PublicDocs` runs up to the
first fetch, `ServiceAnswers` or `FetchFails` is what comes back, `FetchDone`
resumes, writes the cache entry (dated *before* the await, as the code does) and
goes on (`Walk`, one `Pass` per service) to the next fetch or to the end. The merge of each service (`Merge`),
the renaming of its schemas (`Renamed`) and the marking of writes (`Marked`)
work on the routes of the repository. `Annotated` is what a merged operation is
given, an example, a default, a warning that it starts a job or that only a
visitor's cookie opens it, by its public path and by what it publishes: the
example goes into the media types of its body (`Inputs`: a route that declares no
body is given one), the default into a parameter of the table's name, if there
is any. `ReadPosts`, from the routers'
own dependencies, and `READ_ONLY_POSTS`, the list on which marking relies, are
two definitions, so that `WritesBlocked` can compare them. What the services publish
is theirs; `PublishedOK` says what is asked of it: a body that is a document at
all refers only to itself, has operations of the five methods, no catch-all of
its own, and, where the proxy reaches any of it, more than a health check.

`References` holds `Reached`, the schemas that some roots reach, in closed form:
what `SpecFilter` leaves of a document (theorem `FilterReaches`), and what
`DownstreamDocs` uses for a call of `filter_paths`.

### `BrevoSegment` (with `MCBrevoSegment`)

`update_segment_attribute`: `GetPage` until an empty page, then `Import` chunk by
chunk, each call with its outcomes, while `Leave` and `Join` change the segment.
`contacts_json` is the list of those with an address, built by its loop; `Reported`
says of a place in it that the report names its chunk.

### `OrgConfig`, `VoatzFetch`, `UserDiff`, `ConfiguredRoutes` (with `MCConfiguredRoutes`)

`OrgConfig` is `config.py` and `POST /admin/reload`: `GetConfig(cfg)` is a call
of `get_config` that returns `cfg` (`NoDoc` where it raises), `Reload(code)` the
admin route with its status, `Restart`, `Deploy`, `KeysChange` and `KeysExpire`
the rest. `held` and `fellBack` record where `_config` came from. Of the keys,
`changes` counts what other instances did to the secret, and `keys` how much of
it this process has, or `Fallback`: `_load_key_entries` raises nothing, so that a
load, at a reload too, may quietly end with the local file's keys or none.
`promised` is how many changes there were at the last reload answered 200.
`ConfigNext` and `ConfigSpec` are the component on its own.

`VoatzFetch` is the cursor loop of `fetch_users` while users register, leave and
are verified; `UserPages` are the pages Voatz may answer with. It has no `Next` of its
own because its callers drive it.
`UserDiff` extends it with those callers: `mode` is `user_updates`
(`compare_users`), `get_users` or `diff_only`. The two comparisons have two
rules about blacklisted and unverified users, and both are in `Counts`,
`Counted` and `Difference`. A contact is a record of its own, so that several can
have one `VOATZ_ID`, of which `brevo_details` keeps the last read (`LastOfId`).
`ListChanges` puts contacts on the list and takes them off at any time, also
between two pages; `left` and `joined` record what it did during the request. A
caller who applies a report is an external step (`Applied`), which takes off the
contacts reported, and leaves those that stay and the new ones in some order.

`ConfiguredRoutes` composes them into one process, in which one such request is
worked on at a time: `AskDirect` (the requests of `UserDiff`), `AskWrapped` (a
Voatz wrapper, up to its answer or its fetch), `AskWebflow`, `LookUp` (one call
of `get_config` on behalf of a Webflow handler) and `CallWebflow` (what its
library then does, of which only the answer is known), `AdminReload`, `Dismiss`,
`Crash`, and the world. `pc`, `mode` and `answer` are shared by all of them.

### `VoteBotBridge`

`votebot_websocket`: per side a socket, its unread messages (`wire`), what the
coroutine that reads it holds (`hand`), and what was delivered (`got`). The
client may send binary frames (`binary`): `iter_text` then raises a `KeyError`,
which the coroutine does not catch and `gather(return_exceptions=True)` keeps to
itself, so that this coroutine ends while both sockets stay open (`ReadRaises`).
VoteBot, the project's own service, is taken to send text.

## 3. Runs

| Run | Instance | What it shows |
|---|---|---|
| `keystore_prod` | one process, two keys, TTL 1, loads of up to 1, clock 0..3; in production, where Secrets Manager may fail or lose an acknowledgement at any call, or on the local file, whose rewrite may be cut short | `DurableKeys`, `RevokedGone`, `CacheBacked`, `RotatedExpires`, `UsedMonotone`, types and indexes, and that the store implements `KeyRegistry` |
| `keystore_fleet` | two processes that nothing synchronises, two keys, TTL 0, loads of up to 1, clock 0..2 | `OnlyRacesUndo`, `RevocationLatency`, `RotationTimely` |
| `keystore_within_ttl` | two processes, loads that take no time, no failures | a finding, below |
| `keystore_revoke_not_found` | one process, one key, failing writes | a finding, below |
| `gateway` | every method and credential on fourteen kinds of path (336 calls), beside a write that races it; one outage; a key that lapses, one without a usable expiry | entitlement, truthfulness, at most once, refinement of `UpstreamCall`, every request answered |
| `spec_filter` | every document over three schema names | what is kept is closed and nothing else, and the loop ends |
| `docs_content` | every combination of what three services publish or fail to | what both documents show, block, warn of and refer to |
| `docs_cache` | two builds, one service that changes | nothing older than the TTL, no error that sticks |
| `brevo_segment` | five contacts and one more, pages and chunks of two, two retries, every outcome of every call, one change | the report is true, an error before the first chunk changed nothing, the loop ends |
| `brevo_segment_changing` | four contacts, no failures, one change | a finding, below |
| `configured_routes` | two users of every state, every list of up to two contacts, pages of one, one change of the list by others; four documents, the local file, two organizations; one change of the keys | nobody skipped or listed twice, reports settle the difference, every comparison ends; reloads bind, requests work on one document, organizations are kept apart |
| `votebot_bridge` | three messages from either side, the client's text or binary | order, delivery, and how sessions end |

Each property of a passing run has a mutation of the code (the definitions
`X_...` beside `X`) under which the same run reports it violated.

### Bounds, and why they are enough

- `KeyStore`: two keys, because a rotation concerns two and every property
  relates at most two. `MaxTime` 3 with TTL 1 lets a cache be fresh, age, expire
  and be replaced, and a grace window end in between. The fleet run has TTL 0,
  loads of up to one second and clock 0..2: a cache whose document was read in
  the second of a revocation may be dated in the next, and has to be replaced in
  the one after; the theorem covers longer windows. Two processes, because a put
  is lost to one other; no holder makes a request there, since `LetsIn` asks
  whether one would be let in.
- `Gateway`: two requests, because a service's outage is the only way one
  concerns another. The second is fixed (a write to OpenStates, the one service
  with retries). `MaxOutages` 1 still lets a retry meet a service that is down,
  back up, or gone with the request delivered. Only the racing write's key
  lapses (`Managed`); keys are independent of each other.
- `DownstreamDocs`: the cache run has one service since entries of different
  services never meet, and the content run stops the clock since content does
  not depend on it.
- `SpecFilter`: three names give chains, cycles, self-references and dangling
  references; the theorems cover every size.
- `BrevoSegment`: five contacts in pages of two are three pages, the last short;
  one without an address makes chunks and pages differ.
- `ConfiguredRoutes`: ids 1 and 3 leave a gap, so that a count is not a cursor;
  only the first user is ever unverified, since one such user is enough.
  `varying` says which part of the world moves in a behaviour: the users, the
  list, the configuration or the keys. The comparisons do not read the
  configuration, they have fetched the users before they read the list, and keys
  are loaded apart from what the other routes read. Two contacts and one more in
  pages of one: a contact can leave or join before, at and behind the offset, and
  two can have one `VOATZ_ID`. The wrappers and Webflow routes meet every document
  deployed at every moment; the documents are complete, lacking a setting, with
  an empty one, and without organizations, and the environment has a token of
  its own. `get_users` and `diff_only` do not read a list and are run with an
  empty one.
- `VoteBotBridge`: with three messages one can be held, or be binary, while the
  next wait.

### Fairness

- `Gateway`: weak fairness of the handler of each request. The event loop runs
  every handler that can go on, and each wait of a handler is ended by an httpx
  timeout, or by that of `requests` where the call holds the loop. A handler
  that cannot go on because another holds the loop is not enabled; `Answered`
  shows that its turn comes. Nothing is assumed of the services: they need not
  work, answer or come back.
- `BrevoSegment`, `ConfiguredRoutes`: weak fairness of the calls: each has a
  timeout, so it returns or raises. Users and contacts may change, or not, and
  the process may die.
- `VoteBotBridge`: weak fairness of each coroutine, of connecting (`open_timeout`)
  and of the end of `gather`. Neither side has to send or to leave.
- `SpecFilter`: the loop has no await and runs to its end.
- `KeyStore`, `DownstreamDocs` state no liveness and assume no fairness.

`CHECK_DEADLOCK FALSE` is set where the system really comes to rest: all
requests answered, the document served, the session ended.

## 4. Proofs

Eight modules, each beside the module it is about, prove for all values of the
constants (any number of keys, processes, requests, schemas, users, contacts and
messages), from the assumptions named in the modules, every invariant and every
action property that a passing run checks. The runs came first: each inductive
invariant below was an invariant of its component's run before it was proved.

| Theorem | Statement |
|---|---|
| `KeyStoreProofs!TypeCorrect` | types; both indexes of a process always list the same keys |
| `KeyStoreProofs!StoreInvariant`, `!OnlyLostUpdatesUndo` | `StoreInv`; `OnlyRacesUndo`, any number of unsynchronised processes |
| `KeyStoreProofs!StoreSafe`, `!RevokedNeverReturns` | `DurableKeys`; `RevokedGone`, of one process |
| `KeyStoreProofs!StoreImplementsRegistry` | `KeyStore` implements `KeyRegistry` (`OneLifePerKey`), with one process |
| `KeyStoreTimes!RevocationIsTimely`, `!RotationIsTimely` | `RevocationLatency` and `RotationTimely`, any number of unsynchronised processes |
| `KeyStoreTimes!MemoryIsBacked`, `!RotatedKeysExpire`, `!UsesOnlyAdvance` | `CacheBacked`, `RotatedExpires`, `UsedMonotone`, of a process on its own |
| `GatewayProofs!TypeCorrect`, `!WorkedOnOnce`, `!AnswersTrue` | types and at most two attempts; `AtMostOnce`; `AnswersTruthful` |
| `GatewayProofs!OnlyTheEntitled`, `!RefusalsHaveCause` | `OnlyEntitled`; `RefusedForCause` |
| `GatewayProofs!GatewayImplementsUpstreamCall` | `Gateway` implements `UpstreamCall` |
| `SpecFilterProofs!FilterCollects`, `!FilterPrunes`, `!FilterKeepsRefs` | `Collecting`, `NothingUnused`, `RefsKept` |
| `SpecFilterProofs!FilterReaches` | what `SpecFilter` leaves is `Reached`, with which `DownstreamDocs` works |
| `SpecFilterProofs!FilterProgresses` | each pass needs a name more, or none more and has one less to visit |
| `DownstreamDocsProofs!NothingStaleIsServed`, `!ErrorsDoNotStick` | `NothingStale` (with types and `DatedRight`); `ErrorsPass` |
| `DownstreamDocsProofs!PagesAreApart`, `!ReferencesResolve`, `!WritesAreBlocked`, `!EveryProxyIsShown` | `AdminApart`, `RefsResolve`, `WritesBlocked`, `ProxiesShown` |
| `BrevoSegmentProofs!ReportAddsUp`, `!SteadySegmentIsUpdated` | `ReportTrue`; `EveryContactOfSteady` |
| `VoteBotBridgeProofs!MessagesInOrder`, `!WhoeverStaysIsTold` | `InOrder`; `NobodyLeftHanging` |
| `ConfiguredRoutesProofs!ReloadIsBinding`, `!RoutesReloadBinds` | `ReloadBinds` of `OrgConfig` on its own, and of all routes, since `ConfiguredRoutes` implements `OrgConfig` |
| `ConfiguredRoutesProofs!WebflowWorksOnOneDocument`, `!OrganizationsAreKeptApart` | `OneDocument`; `OrgsKeptApart` |
| `ConfiguredRoutesProofs!NobodyIsSkipped`, `!ReportsSettle` | `NobodySkipped`; `ReportSettles` |

**Key store.** Nothing in `key_store.py` makes two processes take turns, and
the first half of the argument assumes nothing of the kind. `StoreInv` holds for
any number of processes: identities still on their way in are in no document,
cache or snapshot (`FreshKeys`); what is about to be answered is already in the
source of truth, or was overwritten (`Prepared`); and an issued key is gone, or a
revoked one back, only if a put overwrote what it had not read
(`OnlyRacesUndo`). This is exactly the lost update that the docstring of
`key_store.py` admits, and nothing else can undo an answer. For the latency,
`LoadsDated` and `CachesDated` say that a document with a revoked key was read
no later than the revocation, and a cache with it dated at most `LoadTime` after;
a request is served from a cache of at most TTL seconds, hence the bound
TTL + `LoadTime`, for keys that no racing put brought back. A rotation starts
from the same cache, and has the same bound.

The docstring asks the deployment for one process (one uvicorn worker), and the
second half is proved of one (`OneProcess`, a premise of each theorem). `LoneInv`
adds: a document about to be written back is the current one, so that nothing is
ever overwritten (`SnapCurrent`); what is in memory is in the store, with the
announced expiry and a use no earlier (`CachesFollow`); so is the store, with
uses not in the future (`TruthDated`); and half-way through a revocation or a
rotation memory is ahead of the store in the known way (`MidWay`), which is what
a failed or a lost write leaves. `DurableKeys`, `RevokedGone`, `CacheBacked`,
`RotatedExpires` and `UsedMonotone` follow. The refinement maps a key to *unborn*
while some process may still write it for the first time, and shows that every
step changes the view of at most one key, or is a flush.

**Request path.** The invariant counts, per request, what was delivered and what
was worked on, and ties both to the phase (`Standing`, `Counted`): before a
delivery nothing was, while waiting it is exactly one of the two, and a retry
starts only from a refused connection. `Truthful` then ties the answer to the
count. `OnlyEntitled` rests on `Admitted`: what is under way was admitted. That
an admission is an entitlement is about text: `Segmentwise` shows that a text
which starts with a restriction, the next character being a slash or the end,
is a path that starts with it segment by segment, and `TextInjective` that a path
is known by its text, since no piece is a slash. `ScopeOfRoute` compares, kind by
kind, the scope a route asks for with that of the first route that matches.
Both are for any pieces of text, restrictions (`EndpointsOK`) and paths
(`CallsOK`); the routes are those of the repository.

**Documentation.** `Collecting` is the loop invariant of the filter: what is
needed and not pending has had its references collected, and every closed set
with the roots contains what is needed. This avoids a recursive definition of
reachability, and makes what is left the closed form `Reached`. `DatedRight` says
that an entry of the cache, and an answer under way, was there at the time it is
dated with, and that a fetch takes at most `FetchTime`; that a build merges
nothing older than the TTL then follows by induction over the services it walks
through without an await. `Documents` says that a document is `Sound` from its
filtering to its marking: all its references resolve, nothing of the admin page
is in it, every service still has an entry, and what needs advice has it; `Merge`
keeps it so, whatever a service publishes within `PublishedOK`.

**Brevo segment.** `LoopInv`: up to the next chunk, every contact was updated and
counted, or its chunk is reported. `SteadyInv`: while nobody changes the segment,
its first `offset` contacts were fetched. `Addressed` says what the loop behind
`contacts_json` builds.

**Configured routes.** Every step of a route is, to the configuration, a step of
`OrgConfig` or none (`RoutesAreConfigured`), and `ReloadBinds` is inductive
there, with a bound on what is counted of the keys. It says of them what the
code can promise: after a reload answered 200 a process knows every earlier
change, unless its last load fell back. `OneDocument` needs two facts more: an
idle process remembers nothing of the last request (`IdleIsClean`), and what a
Webflow request found configured is in use until its end, because only a reload,
a request of its own, replaces a document. In a request that came to an
unconfigured process the environment's settings may stand beside a document's;
settings of two documents never meet. `OrgsKeptApart` needs where a wrapper can
be (`WrappedAt`), and `IdleIsClean` again, so that a fetch starts without an
answer. `NobodySkipped` rests on `FetchInv`: users are in ascending order, the
cursor is at the last, and who stayed is among them or above it.

`ReportSettles` rests on `DiffInv`: what was read are contacts of their kinds,
one for each `VOATZ_ID`; and, if no contact left meanwhile, they are on the list,
and whoever is on it up to the offset was read or joined since. A contact that
leaves moves those behind it up, so that one may never be read: then the report
may have somebody added who is on the list already. What holds whatever
others do is that nobody who was fetched is taken off. Of several contacts of one
`VOATZ_ID` a report names one, so that the list is rid of them report by report.

**Bridge.** For each side, received, held and unread messages, put together, are
the messages sent. Lemmas on sequences say that reading, relaying and sending
keep it so. `Ending` says which sockets are open where the handler stands.
`Delivered` and `EndsWhenNoticed` say what the code gives and no more: what the
client sends from a binary frame on is lost on open sockets, and a session of
which one side has left goes on while the other is silent, since `gather` waits
for both coroutines and has no deadline.

**Recursion and induction.** The loops that the modules write as recursive
functions (`Written`, `contacts_json`, `Walk`) are `LET` functions, whose
equations hold only if a solution exists; the proofs first show that one does
(`Solvable`, `Buildable`). Induction over numbers and sequences is by the least
counterexample of a set, from the library's theorem that numbers are
well-founded.

**Only model-checked.** Liveness: `Answered`, `Terminates`, `Delivered`,
`EndsWhenNoticed` and `Ends`, which need `ENABLED` and so are out of the
prover's reach; of `Terminates`, `FilterProgresses` proves the measure. The type
invariants of `Gateway` and `DownstreamDocs` and the loop invariant `Collecting`
are proved and no longer model-checked by a run of their own.

## 5. Findings

- **A revocation that failed is answered "not found".** `revoke` takes the key
  out of memory (`key_store.py:150`) before it persists. When the write raises,
  the caller gets a 500, and asking again a 404, although the key is still in
  the secret and works again after the next refresh. The docstring says "Returns
  False if not found" (`key_store.py:148`). Run `keystore_revoke_not_found`.
- **A revocation undone by another instance.** An issue, rotation or flush reads
  the document, another instance answers a revocation, and the put brings the key
  back for good (`key_store.py:279-285`), though `DELETE /admin/keys/{id}`
  promises that "other instances pick up within 60s" (`admin.py:66`). The
  docstring of `key_store.py` (14-17) admits the lost update. Run
  `keystore_within_ttl`; `OnlyRacesUndo` shows that nothing else does it. Without
  a race the promise still misses the time of a load: a cache is dated when the
  load ends (line 83), not when the document was read (line 76).
- **A segment that shrinks while it is read.** Pages are asked for by offset
  (`brevo.py:91`): when a contact leaves between two pages, one that stays is
  never fetched and the answer is success without failures, though the route
  promises "every contact in a Brevo segment" (`brevo.py:49`). Run
  `brevo_segment_changing`; `EveryContactOfSteady` shows that it is so for a
  segment nobody changes.

## 6. Not modelled, and why

- Headers, query strings and bodies of proxied requests; titles, texts, tags
  and HTML of the documentation: passed on or laid out, no property about them.
- Security requirements of the documented operations. A merged operation is
  said to need a key, also `/openstates/healthz`, which does not
  (`downstream_openapi.py:289`).
- The single thread of the event loop beyond one module: in `KeyStore` a process
  is blocked while it persists, in `Gateway` while it calls Voatz, in
  `ConfiguredRoutes` while it does anything; a Brevo request is not put beside a
  proxied one, where it would do what a call to Voatz does.
- What Voatz's cursor, Brevo's offsets, the services and the library
  `webflow_cms` do inside: external, modelled as their callers use them. A page
  of users without `minId`, which would start `fetch_users` over
  (`services/voatz.py:75`), is not something this code tells us Voatz sends.
- Duplicates of CMS items. `check_duplicates` calls an item CORRECT if none has
  more fields and it has no random suffix (`webflow.py:284`), so that a group
  whose best item has a suffix has none; `resolve_duplicate_group` passes on
  whatever ids its caller gives (`webflow.py:328`), and the library deletes.
  Which item survives is promised nowhere in this code.
- Uses recorded in memory and dropped when a refresh replaces the objects
  (`key_store.py:76-83`): the model has it, but nothing promises that a use is
  ever stored. A torn local file has lost everything, and each property excuses it.
- What a rotation of a key with an expiry should do to it (`key_store.py:177`
  gives the replacement none): nothing in the repository says.
- Request and response schemas, which pydantic checks before a handler runs;
  `middleware.py`, which nothing imports; tests and deployment files.

## 7. Plan

Done in this order: `KeyRegistry`, `KeyStore` and its proofs; `UpstreamCall`,
`Gateway`; `SpecFilter` and its proofs; `DownstreamDocs`; `BrevoSegment`;
`VoatzFetch`, `UserDiff`; `VoteBotBridge`; the proofs about `Gateway` and
`VoteBotBridge`; the routes of VoteBot and Voatz in `Gateway`, and its event
loop; examples, defaults and warnings in `DownstreamDocs`; `OrgConfig`, the
`get_users` modes of `UserDiff`, and `ConfiguredRoutes` with its proofs; loads of
two steps and unsynchronised processes in `KeyStore`, a list that changes under
`UserDiff`, keys that fall back in `OrgConfig`, binary frames in `VoteBotBridge`.

What is left to model is listed in section 6 with its reasons. Of what the runs
check, only liveness is not proved. Next, prove the safety part of termination:
that each step of a loop brings its end nearer (the pending and unvisited names
of `SpecFilter`, the pages and chunks of `BrevoSegment`, the attempts of
`Gateway`), so that only fairness is left to the model checker.
