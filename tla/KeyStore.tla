------------------------------ MODULE KeyStore ------------------------------
(* The managed API keys of the gateway (app/services/key_store.py), the     *)
(* authentication that reads them (app/middleware/auth.py), the handlers of *)
(* /admin that change them (app/routes/admin.py) and the process lifecycle  *)
(* around them (lifespan in app/main.py).                                   *)
(*                                                                          *)
(* A process answers nobody while it loads or persists: synchronous boto3   *)
(* blocks its event loop.  Between the document being read and it being     *)
(* installed in memory or written back, though, time passes, the process    *)
(* may die, the write may fail or be lost, and other instances run: nothing *)
(* makes them take turns.                                                   *)
EXTENDS Naturals, FiniteSets

CONSTANTS
  Instances,       \* gateway processes (one, as the docstring demands, or more)
  Keys,            \* key identities; an issue draws a fresh one
  Presented,       \* those whose holders make requests
  TTL,             \* CACHE_TTL_SECONDS
  LoadTime,        \* longest a load takes, from its read of the document (boto3's timeouts)
  GraceWindows,    \* grace_hours a rotation may be asked for
  IssueExpiries,   \* expires_at an issue may be asked for
  MaxTime,         \* bound on the clock
  GetOutcomes,     \* get_secret_value: "ok", "error", "missing" (no credentials, no secret)
  PutOutcomes,     \* put_secret_value: the same, or "lost" (applied, but the call raised)
  Never, Absent, NoKey, NoDoc, Unborn, Gone

Time == Nat \cup {Never}
Entry == [expires : Time, used : Time]
Registry == [Keys -> Entry \cup {Absent}]
Empty == [k \in Keys |-> Absent]

ASSUME ParametersOK ==
  /\ Presented \subseteq Keys
  /\ TTL \in Nat /\ LoadTime \in Nat /\ MaxTime \in Nat
  /\ GraceWindows \subseteq Nat /\ IssueExpiries \subseteq Time
  /\ GetOutcomes \subseteq {"ok", "error", "missing"}
  /\ PutOutcomes \subseteq {"ok", "error", "missing", "lost"}

ASSUME SentinelsOK ==
  /\ Never \notin Nat
  /\ Absent \notin Entry /\ Unborn \notin Entry /\ Gone \notin Entry
  /\ Unborn # Gone
  /\ NoKey \notin Keys
  /\ NoDoc \notin Registry

VARIABLES
  now,         \* the clock
  secret,      \* api_keys of the dedicated secret, or NoDoc
  local,       \* api_keys of the local file as last written whole, or NoDoc
  torn,        \* the local file is no longer JSON
  overwritten, \* keys a put changed only because the document it had read was out of date
  cache,       \* per process: both indexes, the ApiKey objects, loaded_at
  pc,          \* per process: what its event loop is blocked on
  req,         \* per process: the arguments of that handler
  snap,        \* per process: the document a load or _persist_update has read
  readAt,      \* per process: when the load in progress read it
  minted,      \* identities drawn so far
  told,        \* what the answers said of each key
  revokedAt,   \* when the answer to its revocation was sent
  deadline     \* the expiry the last answered rotation announced for it

stores == <<secret, local, torn, overwritten>>
procs == <<cache, pc, req, snap, readAt>>
ledger == <<minted, told, revokedAt, deadline>>
vars == <<now, stores, procs, ledger>>

(* The two dicts hold references to the same ApiKey objects, so a process's *)
(* cache is two sets of keys over one heap.                                 *)
NoCache == [byId |-> {}, byHash |-> {}, heap |-> Empty, at |-> Never]
NoReq == [old |-> NoKey, new |-> NoKey, exp |-> Never]
Loads == {"start", "refresh", "reload"}
Handlers == {"issue", "revoke", "rotateNew", "rotateOld", "flush"}

CacheType == [byId : SUBSET Keys, byHash : SUBSET Keys, heap : Registry, at : Time]

SameIndexes(c) ==
  /\ c.byHash = c.byId
  /\ \A k \in Keys : k \in c.byId <=> c.heap[k] # Absent

ReqType == [old : Keys \cup {NoKey}, new : Keys \cup {NoKey}, exp : Time]

TypeOK ==
  /\ now \in Nat
  /\ secret \in Registry \cup {NoDoc} /\ local \in Registry \cup {NoDoc}
  /\ secret = NoDoc <=> local # NoDoc
  /\ torn \in BOOLEAN /\ overwritten \subseteq Keys
  /\ cache \in [Instances -> CacheType]
  /\ \A p \in Instances : SameIndexes(cache[p])
  /\ pc \in [Instances -> {"down", "idle"} \cup Loads \cup Handlers]
  /\ req \in [Instances -> ReqType]
  /\ \A p \in Instances :
       /\ pc[p] \in {"issue", "rotateNew", "rotateOld"} => req[p].new \in Keys
       /\ pc[p] \in {"revoke", "rotateNew", "rotateOld"} => req[p].old \in Keys
       /\ pc[p] \in {"rotateNew", "rotateOld"} => req[p].exp \in Nat
  /\ snap \in [Instances -> Registry \cup {NoDoc}]
  /\ readAt \in [Instances -> Time]
  /\ \A p \in Instances :
       /\ pc[p] \in {"down", "idle"} => snap[p] = NoDoc
       /\ pc[p] \in Loads => snap[p] # NoDoc /\ readAt[p] \in Nat
       /\ pc[p] \in Handlers /\ snap[p] # NoDoc => secret # NoDoc
  /\ minted \subseteq Keys
  /\ told \in [Keys -> {"none", "issued", "revoking", "revoked"}]
  /\ revokedAt \in [Keys -> Time] /\ deadline \in [Keys -> Time]

OneProcess == \A p, q \in Instances : p = q

(* Production has the secret and no local file; a developer's machine has   *)
(* the file, no credentials, and one process.                               *)
Deployed ==
  \/ secret = Empty /\ local = NoDoc
  \/ secret = NoDoc /\ local = Empty /\ OneProcess

(* The source of truth of the deployment. *)
Truth == IF secret # NoDoc THEN secret ELSE local

Init ==
  /\ now = 0
  /\ Deployed /\ torn = FALSE /\ overwritten = {}
  /\ cache = [p \in Instances |-> NoCache]
  /\ pc = [p \in Instances |-> "down"]
  /\ req = [p \in Instances |-> NoReq]
  /\ snap = [p \in Instances |-> NoDoc]
  /\ readAt = [p \in Instances |-> Never]
  /\ minted = {} /\ told = [k \in Keys |-> "none"]
  /\ revokedAt = [k \in Keys |-> Never] /\ deadline = [k \in Keys |-> Never]

-----------------------------------------------------------------------------
(* Loading *)

(* What a call of Secrets Manager may come to: without credentials, or      *)
(* without the secret, it never gets that far.                              *)
GetResults == IF secret = NoDoc THEN {"missing"} ELSE GetOutcomes

(* _load_key_entries: any failure of the secret falls back to the local     *)
(* file, and no readable file means an empty list.                          *)
Loaded(o) ==
  IF o = "ok" THEN secret ELSE IF local # NoDoc /\ ~torn THEN local ELSE Empty

(* _load_from_config first reads the entries ...                            *)
Load(p, why) ==
  /\ \E o \in GetResults : snap' = [snap EXCEPT ![p] = Loaded(o)]
  /\ readAt' = [readAt EXCEPT ![p] = now]
  /\ pc' = [pc EXCEPT ![p] = why]
  /\ UNCHANGED <<now, stores, cache, req, ledger>>

(* ... and, once they are there, replaces both indexes by new objects and   *)
(* dates them.                                                              *)
Install(doc) ==
  LET present == {k \in Keys : doc[k] # Absent}
  IN  [byId |-> present, byHash |-> present, heap |-> doc, at |-> now]

Installed(p) ==
  /\ pc[p] \in Loads
  /\ cache' = [cache EXCEPT ![p] = Install(snap[p])]
  /\ pc' = [pc EXCEPT ![p] = "idle"]
  /\ snap' = [snap EXCEPT ![p] = NoDoc]
  /\ readAt' = [readAt EXCEPT ![p] = Never]
  /\ UNCHANGED <<now, stores, req, ledger>>

(* lifespan, before the yield. *)
Start(p) == pc[p] = "down" /\ Load(p, "start")

(* Mutation: the TTL is not checked once the cache is loaded. *)
Stale_OnlyOnce(p) == cache[p].at = Never

Stale(p) == cache[p].at = Never \/ now - cache[p].at > TTL

(* _maybe_refresh, as every authentication, and GET /admin/keys, runs it:   *)
(* what follows looks at a cache that is not stale.                         *)
Refresh(p) == pc[p] = "idle" /\ Stale(p) /\ Load(p, "refresh")

Ready(p) == pc[p] = "idle" /\ ~Stale(p)

(* POST /admin/reload, once the organization config was reloaded; when that *)
(* raised, nothing happens here.                                            *)
Reload(p) == Ready(p) /\ Load(p, "reload")

-----------------------------------------------------------------------------
(* Requests that only read the registry *)

Expired(e) == e.expires # Never /\ now > e.expires

(* _resolve with the plaintext of k: not 403, not 401. *)
LetsIn(p, k) == Ready(p) /\ k \in cache[p].byHash /\ ~Expired(cache[p].heap[k])

(* A key let in is stamped; a refused one leaves no trace. *)
Authenticate(p, k) ==
  /\ LetsIn(p, k)
  /\ cache' = [cache EXCEPT ![p].heap[k].used = now]
  /\ UNCHANGED <<now, stores, pc, req, snap, readAt, ledger>>

-----------------------------------------------------------------------------
(* Requests that change it.  Each leaves the process inside                 *)
(* _persist_update.                                                         *)

Begin(p, handler, old, new, exp) ==
  /\ pc' = [pc EXCEPT ![p] = handler]
  /\ req' = [req EXCEPT ![p] = [old |-> old, new |-> new, exp |-> exp]]

(* Mutation: the new key is published in memory before it is persisted. *)
StartIssue_PublishFirst(p) ==
  /\ Ready(p)
  /\ \E k \in Keys \ minted, e \in IssueExpiries :
       /\ cache' = [cache EXCEPT ![p].byId = @ \cup {k}, ![p].byHash = @ \cup {k},
                                 ![p].heap[k] = [expires |-> e, used |-> Never]]
       /\ Begin(p, "issue", NoKey, k, e)
       /\ minted' = minted \cup {k}
  /\ UNCHANGED <<now, stores, snap, readAt, told, revokedAt, deadline>>

StartIssue(p) ==
  /\ Ready(p)
  /\ \E k \in Keys \ minted, e \in IssueExpiries :
       /\ Begin(p, "issue", NoKey, k, e)
       /\ minted' = minted \cup {k}
  /\ UNCHANGED <<now, stores, cache, snap, readAt, told, revokedAt, deadline>>

(* DELETE, or a rotation, of an id this process does not know: 404. *)
NotFound(p, k) == Ready(p) /\ k \in minted /\ k \notin cache[p].byId

(* Mutation: revoke leaves the key in _by_hash. *)
StartRevoke_KeepsHash(p, k) ==
  /\ Ready(p) /\ k \in cache[p].byId
  /\ cache' = [cache EXCEPT ![p].byId = @ \ {k}]
  /\ Begin(p, "revoke", k, NoKey, Never)
  /\ told' = [told EXCEPT ![k] = IF @ = "revoked" THEN @ ELSE "revoking"]
  /\ UNCHANGED <<now, stores, snap, readAt, minted, revokedAt, deadline>>

(* revoke: out of both indexes first, out of the document afterwards. *)
StartRevoke(p, k) ==
  /\ Ready(p) /\ k \in cache[p].byId
  /\ cache' = [cache EXCEPT ![p].byId = @ \ {k}, ![p].byHash = @ \ {k},
                            ![p].heap[k] = Absent]
  /\ Begin(p, "revoke", k, NoKey, Never)
  /\ told' = [told EXCEPT ![k] = IF @ = "revoked" THEN @ ELSE "revoking"]
  /\ UNCHANGED <<now, stores, snap, readAt, minted, revokedAt, deadline>>

(* rotate: the end of the grace window is fixed before the replacement is   *)
(* issued.  Whatever an earlier rotation announced no longer binds.         *)
StartRotate(p, k) ==
  /\ Ready(p) /\ k \in cache[p].byId
  /\ \E new \in Keys \ minted, g \in GraceWindows :
       /\ Begin(p, "rotateNew", k, new, now + g)
       /\ minted' = minted \cup {new}
  /\ deadline' = [deadline EXCEPT ![k] = Never]
  /\ UNCHANGED <<now, stores, cache, snap, readAt, told, revokedAt>>

(* lifespan, after the yield: flush_last_used, or nothing to flush. *)
UsedHere(p) == {k \in cache[p].byId : cache[p].heap[k].used # Never}

Leave(p) ==
  /\ cache' = [cache EXCEPT ![p] = NoCache]
  /\ pc' = [pc EXCEPT ![p] = "down"]
  /\ req' = [req EXCEPT ![p] = NoReq]
  /\ snap' = [snap EXCEPT ![p] = NoDoc]
  /\ readAt' = [readAt EXCEPT ![p] = Never]

Shutdown(p) ==
  /\ pc[p] = "idle"
  /\ \/ UsedHere(p) = {} /\ Leave(p)
     \/ /\ UsedHere(p) # {}
        /\ Begin(p, "flush", NoKey, NoKey, Never)
        /\ UNCHANGED <<cache, snap, readAt>>
  /\ UNCHANGED <<now, stores, ledger>>

-----------------------------------------------------------------------------
(* _persist_update *)

(* The transform each handler passes, applied to the document just read. *)
WithEntry(p, doc) ==
  [doc EXCEPT ![req[p].new] =
     [expires |-> IF pc[p] = "issue" THEN req[p].exp ELSE Never, used |-> Never]]

Without(p, doc) == [doc EXCEPT ![req[p].old] = Absent]

(* Mutation: the old key's entry is rebuilt and forgets its use. *)
WithExpiry_Rebuilds(p, doc) ==
  [k \in Keys |-> IF k = req[p].old /\ doc[k] # Absent
                  THEN [expires |-> req[p].exp, used |-> Never] ELSE doc[k]]

WithExpiry(p, doc) ==
  [k \in Keys |-> IF k = req[p].old /\ doc[k] # Absent
                  THEN [doc[k] EXCEPT !.expires = req[p].exp] ELSE doc[k]]

WithUse(p, doc) ==
  [k \in Keys |-> IF k \in UsedHere(p) /\ doc[k] # Absent
                  THEN [doc[k] EXCEPT !.used = cache[p].heap[k].used] ELSE doc[k]]

(* Mutation: the document is rebuilt from this process's memory, not from   *)
(* what was just read.                                                      *)
Transform_FromMemory(p, doc) ==
  IF pc[p] \in {"issue", "rotateNew"} THEN WithEntry(p, cache[p].heap)
  ELSE IF pc[p] = "rotateOld" THEN WithExpiry(p, cache[p].heap)
  ELSE cache[p].heap

Transform(p, doc) ==
  IF pc[p] \in {"issue", "rotateNew"} THEN WithEntry(p, doc)
  ELSE IF pc[p] = "revoke" THEN Without(p, doc)
  ELSE IF pc[p] = "rotateOld" THEN WithExpiry(p, doc)
  ELSE WithUse(p, doc)

(* What follows in each handler once the document is written. *)
Respond(p) ==
  /\ pc' = [pc EXCEPT ![p] = "idle"]
  /\ req' = [req EXCEPT ![p] = NoReq]
  /\ snap' = [snap EXCEPT ![p] = NoDoc]
  /\ UNCHANGED readAt

WithNew(p, c, exp) ==
  LET new == req[p].new IN
  [c EXCEPT !.byId = @ \cup {new}, !.byHash = @ \cup {new},
            !.heap[new] = [expires |-> exp, used |-> Never]]

IssueDone(p) ==
  /\ pc[p] = "issue"
  /\ cache' = [cache EXCEPT ![p] = WithNew(p, @, req[p].exp)]
  /\ told' = [told EXCEPT ![req[p].new] = IF @ = "none" THEN "issued" ELSE @]
  /\ Respond(p)
  /\ UNCHANGED <<minted, revokedAt, deadline>>

RevokeDone(p) ==
  LET k == req[p].old IN
  /\ pc[p] = "revoke"
  /\ told' = [told EXCEPT ![k] = "revoked"]
  /\ revokedAt' = [revokedAt EXCEPT ![k] = IF @ = Never THEN now ELSE @]
  /\ Respond(p)
  /\ UNCHANGED <<cache, minted, deadline>>

(* Mutation: the expiry is persisted but not set on the object in memory. *)
RotateNewDone_StoreOnly(p) ==
  /\ pc[p] = "rotateNew"
  /\ cache' = [cache EXCEPT ![p] = WithNew(p, @, Never)]
  /\ pc' = [pc EXCEPT ![p] = "rotateOld"]
  /\ snap' = [snap EXCEPT ![p] = NoDoc]
  /\ UNCHANGED <<req, readAt, ledger>>

(* The replacement is in; the old key expires in memory, then in the store. *)
RotateNewDone(p) ==
  LET c == WithNew(p, cache[p], Never)
      k == req[p].old
  IN
  /\ pc[p] = "rotateNew"
  /\ cache' = [cache EXCEPT ![p] =
                 IF k \in c.byId THEN [c EXCEPT !.heap[k].expires = req[p].exp] ELSE c]
  /\ pc' = [pc EXCEPT ![p] = "rotateOld"]
  /\ snap' = [snap EXCEPT ![p] = NoDoc]
  /\ UNCHANGED <<req, readAt, ledger>>

RotateOldDone(p) ==
  /\ pc[p] = "rotateOld"
  /\ told' = [told EXCEPT ![req[p].new] = IF @ = "none" THEN "issued" ELSE @]
  /\ deadline' = [deadline EXCEPT ![req[p].old] = req[p].exp]
  /\ Respond(p)
  /\ UNCHANGED <<cache, minted, revokedAt>>

FlushDone(p) == pc[p] = "flush" /\ Leave(p) /\ UNCHANGED ledger

Persisted(p) ==
  IssueDone(p) \/ RevokeDone(p) \/ RotateNewDone(p) \/ RotateOldDone(p) \/ FlushDone(p)

(* The exception leaves the handler as a 500; flush_last_used logs it. *)
Aborted(p) ==
  /\ IF pc[p] = "flush" THEN Leave(p) ELSE Respond(p) /\ UNCHANGED cache
  /\ UNCHANGED ledger

Reading(p) == pc[p] \in Handlers /\ snap[p] = NoDoc
Writing(p) == pc[p] \in Handlers /\ snap[p] # NoDoc

SMGet(p) ==
  /\ Reading(p) /\ "ok" \in GetResults
  /\ snap' = [snap EXCEPT ![p] = secret]
  /\ UNCHANGED <<now, stores, cache, pc, req, readAt, ledger>>

(* What this put leaves otherwise than it would have, had the document been *)
(* read just now.                                                           *)
Overwrites(p) == {k \in Keys : Transform(p, snap[p])[k] # Transform(p, secret)[k]}

SMWrite(p) ==
  /\ secret' = Transform(p, snap[p])
  /\ overwritten' = overwritten \cup Overwrites(p)
  /\ UNCHANGED <<now, local, torn>>

SMPut(p) ==
  /\ Writing(p) /\ "ok" \in PutOutcomes
  /\ SMWrite(p)
  /\ Persisted(p)

(* Mutation: a failed write is swallowed and the request answered as done. *)
SMFails_Swallowed(p) ==
  /\ \/ Reading(p) /\ "error" \in GetResults
     \/ Writing(p) /\ "error" \in PutOutcomes
  /\ Persisted(p)
  /\ UNCHANGED <<now, stores>>

(* AccessDenied, throttling, a timeout: raised, never forked to the file. *)
SMFails(p) ==
  /\ \/ Reading(p) /\ "error" \in GetResults
     \/ Writing(p) /\ "error" \in PutOutcomes
  /\ Aborted(p)
  /\ UNCHANGED <<now, stores>>

(* The write was applied and its acknowledgement was lost. *)
SMAckLost(p) ==
  /\ Writing(p) /\ "lost" \in PutOutcomes
  /\ SMWrite(p)
  /\ Aborted(p)

(* No credentials, no boto3, no such secret: the development fallback. *)
Fallback(p) ==
  \/ Reading(p) /\ "missing" \in GetResults
  \/ Writing(p) /\ "missing" \in PutOutcomes

LocalPut(p) ==
  /\ Fallback(p) /\ local # NoDoc /\ ~torn
  /\ local' = Transform(p, local)
  /\ Persisted(p)
  /\ UNCHANGED <<now, secret, torn, overwritten>>

LocalFails(p) ==
  /\ Fallback(p) /\ (local = NoDoc \/ torn)
  /\ Aborted(p)
  /\ UNCHANGED <<now, stores>>

-----------------------------------------------------------------------------
(* The environment *)

(* open(..., "w") has truncated the file and the process dies. *)
TearLocal(p) ==
  /\ Fallback(p) /\ local # NoDoc /\ ~torn
  /\ torn' = TRUE
  /\ Leave(p)
  /\ UNCHANGED <<now, secret, local, overwritten, ledger>>

(* SIGKILL or OOM, at any point. *)
Crash(p) ==
  /\ pc[p] # "down"
  /\ Leave(p)
  /\ UNCHANGED <<now, stores, ledger>>

(* No load outlasts LoadTime. *)
Tick ==
  /\ now < MaxTime
  /\ \A p \in Instances : pc[p] \in Loads => now < readAt[p] + LoadTime
  /\ now' = now + 1
  /\ UNCHANGED <<stores, procs, ledger>>

Next ==
  \/ Tick
  \/ \E p \in Instances :
       \/ Start(p) \/ Refresh(p) \/ Reload(p) \/ Installed(p)
       \/ StartIssue(p) \/ Shutdown(p)
       \/ \E k \in Presented : Authenticate(p, k)
       \/ \E k \in Keys : StartRevoke(p, k) \/ StartRotate(p, k)
       \/ SMGet(p) \/ SMPut(p) \/ SMFails(p) \/ SMAckLost(p)
       \/ LocalPut(p) \/ LocalFails(p) \/ TearLocal(p) \/ Crash(p)

Spec == Init /\ [][Next]_vars
-----------------------------------------------------------------------------
(* Properties *)

(* With a single process, a key whose plaintext was handed out, and whose   *)
(* revocation nobody asked for, is in the source of truth: it outlives any  *)
(* restart, refresh, and failed or lost write.  (The docstring of           *)
(* _persist_update: a key must not "validate in memory yet never reach      *)
(* Secrets Manager".)                                                       *)
DurableKeys == \A k \in Keys : told[k] = "issued" => torn \/ Truth[k] # Absent

(* With a single process, a key whose revocation was answered with success  *)
(* is out of the source of truth for good: no flush, rotation, late or lost *)
(* write brings it back.                                                    *)
RevokedGone == \A k \in Keys : told[k] = "revoked" => Truth[k] = Absent

(* With a single process, whatever validates in memory is stored: issue     *)
(* persists before it publishes and revoke unpublishes before it persists,  *)
(* so no crash between the two leaves a key that vanishes on restart.       *)
CacheBacked ==
  \A p \in Instances : torn \/ \A k \in cache[p].byHash : Truth[k] # Absent

(* After a rotation was answered, the old key ends at the announced time,   *)
(* in the store and in the memory of the process, through every refresh,    *)
(* restart and flush, until it is rotated again or revoked.                 *)
RotatedExpires ==
  \A k \in Keys : deadline[k] # Never =>
    /\ torn \/ Truth[k] = Absent \/ Truth[k].expires = deadline[k]
    /\ \A p \in Instances :
         k \in cache[p].byHash => torn \/ cache[p].heap[k].expires = deadline[k]

(* With any number of processes, the only way an issued key goes missing,   *)
(* or a revoked one comes back, is the lost update the docstring warns of   *)
(* (a put over a document read before another process's put): no failed     *)
(* write, refresh, flush or restart of any of them does it.                 *)
OnlyRacesUndo ==
  \A k \in Keys \ overwritten :
    /\ told[k] = "issued" => Truth[k] # Absent
    /\ told[k] = "revoked" => Truth[k] = Absent

(* Other processes pick a revocation up within the TTL and the time a load  *)
(* takes, since a cache is dated after its document was read.  No request   *)
(* is let in by a key revoked longer ago than that, whichever process it    *)
(* reaches, whatever the outages in between, unless a racing put brought    *)
(* the key back.                                                            *)
RevokedSince(k) == k \notin overwritten /\ told[k] = "revoked"

RevocationLatency ==
  \A p \in Instances, k \in Keys :
    LetsIn(p, k) /\ RevokedSince(k) => now - revokedAt[k] <= TTL + LoadTime

(* rotate copies the old key from memory without a look at the store, so    *)
(* that another instance can rotate a key already revoked and give it a     *)
(* second life under a new identity: only within the same time of its       *)
(* revocation.                                                              *)
RotatesInTime ==
  \A p \in Instances :
    pc[p] = "idle" /\ pc'[p] = "rotateNew" /\ RevokedSince(req'[p].old)
      => now - revokedAt[req'[p].old] <= TTL + LoadTime

RotationTimely == [][RotatesInTime]_vars

(* A single process never moves a stored last_used_at backwards: the flush  *)
(* of a short-lived process must not overwrite a later use with an earlier. *)
NotEarlier(a, b) == a = Never \/ (b # Never /\ a <= b)

UsedMonotone ==
  [][\A k \in Keys : Truth[k] # Absent /\ Truth'[k] # Absent
                     => NotEarlier(Truth[k].used, Truth'[k].used)]_vars

(* The store implements the registry it promises: a key is unborn while a   *)
(* process may still write it for the first time, and has one life.         *)
Pending(k) ==
  \/ k \notin minted
  \/ \E p \in Instances : pc[p] \in {"issue", "rotateNew"} /\ req[p].new = k

RegistryView ==
  [k \in Keys |-> IF Truth[k] # Absent THEN Truth[k]
                  ELSE IF Pending(k) THEN Unborn ELSE Gone]

Promise == INSTANCE KeyRegistry WITH reg <- RegistryView

OneLifePerKey == Promise!Spec

-----------------------------------------------------------------------------
(* The inductive invariant behind OnlyRacesUndo, for any number of          *)
(* processes.                                                               *)

Issuing(p) == pc[p] \in {"issue", "rotateNew"}

(* Identities on their way in are drawn once and are not in any document. *)
DrawnOnce ==
  /\ \A p \in Instances : Issuing(p) => req[p].new \in minted
  /\ \A p, q \in Instances : Issuing(p) /\ Issuing(q) /\ req[p].new = req[q].new => p = q

Settled ==
  \A p \in Instances : /\ pc[p] = "revoke" => ~Pending(req[p].old)
                       /\ pc[p] = "rotateOld" => ~Pending(req[p].new)

Unwritten ==
  \A k \in Keys : Pending(k) =>
    /\ Truth[k] = Absent /\ told[k] = "none"
    /\ \A p \in Instances : k \notin cache[p].byId /\ (snap[p] # NoDoc => snap[p][k] = Absent)

FreshKeys == DrawnOnce /\ Settled /\ Unwritten

(* What a process is about to answer is prepared in the source of truth. *)
Prepared ==
  \A p \in Instances :
    /\ pc[p] = "revoke" => told[req[p].old] \in {"revoking", "revoked"}
    /\ pc[p] = "rotateOld" =>
         \/ req[p].new \in overwritten
         \/ told[req[p].new] \in {"revoking", "revoked"}
         \/ Truth[req[p].new] # Absent

StoreInv == FreshKeys /\ Prepared /\ OnlyRacesUndo

(* Behind RevocationLatency and RotationTimely: a document that still holds *)
(* a revoked key was read before the revocation, and a cache that does was  *)
(* installed at most LoadTime after it.                                     *)
LoadsDated ==
  \A p \in Instances : pc[p] \in Loads =>
    /\ readAt[p] <= now /\ now <= readAt[p] + LoadTime
    /\ \A k \in Keys : RevokedSince(k) /\ snap[p][k] # Absent => readAt[p] <= revokedAt[k]

CachesDated ==
  /\ \A k \in Keys : IF told[k] = "revoked" THEN revokedAt[k] \in Nat /\ revokedAt[k] <= now
                                            ELSE revokedAt[k] = Never
  /\ \A p \in Instances : \/ pc[p] \in {"down", "start"} /\ cache[p].byId = {}
                          \/ cache[p].at \in Nat /\ cache[p].at <= now
  /\ \A p \in Instances : \A k \in cache[p].byId :
       RevokedSince(k) => cache[p].at \in Nat /\ cache[p].at <= revokedAt[k] + LoadTime

(* What a lone process adds.  A document read is written back before it can *)
(* be out of date, so nothing is ever overwritten.                          *)
SnapCurrent ==
  /\ overwritten = {}
  /\ \A p \in Instances : snap[p] # NoDoc =>
       IF pc[p] \in Loads THEN \A k \in Keys : snap[p][k] \in {Truth[k], Absent}
                           ELSE snap[p] = secret

(* A key in memory is stored, in memory it was used no earlier than the     *)
(* store says and no later than now, and both end it when the last answered *)
(* rotation said.                                                           *)
Follows(c, k) ==
  /\ Truth[k] # Absent
  /\ NotEarlier(Truth[k].used, c.heap[k].used) /\ NotEarlier(c.heap[k].used, now)
  /\ deadline[k] # Never => c.heap[k].expires = deadline[k]

CachesFollow == \A p \in Instances : \A k \in cache[p].byId : Follows(cache[p], k)

TruthDated ==
  \A k \in Keys : Truth[k] # Absent =>
    /\ NotEarlier(Truth[k].used, now)
    /\ deadline[k] # Never => Truth[k].expires = deadline[k]

(* A revocation has left the memory before it reaches the store; a rotation *)
(* announces nothing before its end, and memory is ahead of the store.      *)
MidWay ==
  /\ \A k \in Keys : Pending(k) => deadline[k] = Never
  /\ \A p \in Instances :
       /\ pc[p] = "revoke" => req[p].old \notin cache[p].byId
       /\ pc[p] \in {"rotateNew", "rotateOld"} =>
            deadline[req[p].old] = Never /\ ~Pending(req[p].old)
       /\ pc[p] = "rotateOld" /\ req[p].old \in cache[p].byId =>
            cache[p].heap[req[p].old].expires = req[p].exp

LoneInv == SnapCurrent /\ CachesFollow /\ TruthDated /\ MidWay

-----------------------------------------------------------------------------
(* What the documentation says and the code does not do *)

(* key_store.py:148: revoke "returns False if not found", which the route   *)
(* answers 404 "not found".  So a key answered not found is in no store.    *)
NotFoundIsGone ==
  \A p \in Instances, k \in Keys : NotFound(p, k) => Truth[k] = Absent

(* admin.py:66, of a revocation: "Effective immediately in this process;    *)
(* other instances pick up within 60s".                                     *)
PickedUpWithinTTL ==
  \A p \in Instances, k \in Keys :
    LetsIn(p, k) /\ told[k] = "revoked" => now - revokedAt[k] <= TTL
=============================================================================
