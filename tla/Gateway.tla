------------------------------ MODULE Gateway ------------------------------
(* The request path of the HTTP proxies: route matching, authentication     *)
(* (app/middleware/auth.py) and the forwarding done by ddp_sync_proxy.py,   *)
(* openstates_proxy.py, broker_proxy.py, votebot.py and, for the routes     *)
(* that make one call, voatz.py, over upstream services that come and go.   *)
(* Keys lapse while requests are in flight.                                 *)
(*                                                                          *)
(* A path is a sequence of segments, a segment a sequence of pieces of text *)
(* without a slash: /sync/bills is << <<"sync">>, <<"bill", "s">> >>.       *)
(* The upstream's own behaviour is external: it may refuse a connection,    *)
(* answer, answer late, or disappear with the work done, undone or pending. *)
EXTENDS Naturals, Sequences, SequencesExt, TLC

CONSTANTS
  Requests,    \* request slots
  Calls,       \* what callers may send: [method, path, token]
  Tokens,      \* credentials the gateway knows: managed keys and env tokens
  NoToken,     \* no Authorization header
  Pieces,      \* pieces of text
  Managed,     \* tokens in the key store that may lapse; the others never do
  Undated,     \* tokens whose expires_at cannot be compared with the clock
  Scopes,      \* [Tokens -> SUBSET {"read", "write", "admin"}]
  Endpoints,   \* [Tokens -> set of restrictions [lead, path, slashes]]
  MaxOutages   \* bound: how often services go down

Services == {"votebot", "sync", "openstates", "broker", "voatz"}

ASSUME TokensOK == Managed \subseteq Tokens /\ Undated \subseteq Tokens /\ NoToken \notin Tokens
ASSUME BoundOK == MaxOutages \in Nat
ASSUME CallsOK == "/" \notin Pieces /\ \A c \in Calls : c.path \in Seq(Seq(Pieces))

(* Any text is what precedes its first slash, segments of which the last is *)
(* not empty, and the slashes it ends in.                                   *)
ASSUME EndpointsOK ==
  \A t \in Tokens : \A e \in Endpoints[t] :
    /\ e.lead \in Seq(Pieces) /\ e.path \in Seq(Seq(Pieces)) /\ e.slashes \in Nat
    /\ e.path # <<>> => e.path[Len(e.path)] # <<>>

VARIABLES
  keyState,    \* of each token: live, expired or revoked, as get_by_hash and _check_expired see it
  up,          \* which services accept connections
  outages,     \* how often one stopped
  phase,       \* of each request
  call,        \* what it asked
  route,       \* the route it was matched to
  tries,       \* connection attempts made
  inbox,       \* requests delivered to their service and not yet worked on
  work,        \* how often the service did the work of each request
  answer       \* what the caller was told

vars == <<keyState, up, outages, phase, call, route, tries, inbox, work, answer>>

-----------------------------------------------------------------------------
(* Routing: the first declared route whose path and method both fit *)

Route(methods, head, rest, auth, service) ==
  [methods |-> methods, head |-> head, rest |-> rest, auth |-> auth, service |-> service]

Writes == {"POST", "PUT", "DELETE"}

VotebotRoutes ==
  << Route({"POST"}, <<<<"votebot">>, <<"chat">>>>, FALSE, "read", "votebot"),
     Route({"POST"}, <<<<"votebot">>, <<"chat">>, <<"stream">>>>, FALSE, "read", "votebot"),
     Route({"POST"}, <<<<"votebot">>, <<"feedback">>>>, FALSE, "write", "votebot") >>

(* The passthrough routes that make one call to Voatz. *)
VoatzRoutes ==
  << Route({"POST"}, <<<<"get_tokens">>>>, FALSE, "read", "voatz"),
     Route({"POST"}, <<<<"get_events">>>>, FALSE, "read", "voatz"),
     Route({"POST"}, <<<<"create_event">>>>, FALSE, "write", "voatz") >>

SyncRoutes ==
  << Route({"GET"}, <<<<"sync">>>>, TRUE, "read", "sync"),
     Route(Writes, <<<<"sync">>>>, TRUE, "write", "sync"),
     Route({"GET"}, <<<<"trigger">>>>, TRUE, "read", "sync"),
     Route({"POST"}, <<<<"trigger">>>>, TRUE, "write", "sync") >>

(* Mutation: the catch-all is declared before the probe. *)
OpenstatesRoutes_CatchAllFirst ==
  << Route({"GET"}, <<<<"openstates">>>>, TRUE, "read", "openstates"),
     Route({"GET"}, <<<<"openstates">>, <<"healthz">>>>, FALSE, "open", "openstates"),
     Route({"POST"}, <<<<"openstates">>>>, TRUE, "write", "openstates") >>

OpenstatesRoutes ==
  << Route({"GET"}, <<<<"openstates">>, <<"healthz">>>>, FALSE, "open", "openstates"),
     Route({"GET"}, <<<<"openstates">>>>, TRUE, "read", "openstates"),
     Route({"POST"}, <<<<"openstates">>>>, TRUE, "write", "openstates") >>

BrokerRoutes ==
  << Route({"GET"}, <<<<"broker">>>>, TRUE, "read", "broker"),
     Route(Writes, <<<<"broker">>>>, TRUE, "write", "broker") >>

Routes == VoatzRoutes \o VotebotRoutes \o SyncRoutes \o OpenstatesRoutes \o BrokerRoutes

Fits(rt, c) ==
  /\ c.method \in rt.methods
  /\ IF rt.rest THEN IsStrictPrefix(rt.head, c.path) ELSE rt.head = c.path

Unrouted == Route({}, <<>>, FALSE, "unrouted", "none")

(* Each call goes to the first route that fits it; some fit none. *)
Routed ==
  LET Fitting(c) == {i \in DOMAIN Routes : Fits(Routes[i], c)}
  IN  [c \in Calls |-> IF Fitting(c) = {} THEN Unrouted ELSE Routes[Min(Fitting(c))]]

(* Every request is new, and is matched to its route.                       *)
Init ==
  /\ keyState = [t \in Tokens |-> "live"]
  /\ up = [s \in Services |-> TRUE] /\ outages = 0
  /\ phase = [r \in Requests |-> "new"]
  /\ call \in [Requests -> Calls] /\ route = [r \in Requests |-> Routed[call[r]]]
  /\ tries = [r \in Requests |-> 0]
  /\ inbox = {} /\ work = [r \in Requests |-> 0]
  /\ answer = [r \in Requests |-> "none"]

-----------------------------------------------------------------------------
(* Authentication *)

Text(path) ==
  LET upto[n \in 0..Len(path)] == IF n = 0 THEN <<>> ELSE upto[n - 1] \o <<"/">> \o path[n]
  IN  upto[Len(path)]

Written(e) == e.lead \o Text(e.path) \o [i \in 1..e.slashes |-> "/"]

WithoutTrailingSlashes(text) ==
  LET kept == {i \in DOMAIN text : \E j \in i..Len(text) : text[j] # "/"}
  IN  [i \in kept |-> text[i]]

(* Mutation: a bare string prefix. *)
Admits_StringPrefix(e, path) == IsPrefix(WithoutTrailingSlashes(Written(e)), Text(path))

(* Mutation: the restriction is compared as it was typed. *)
Admits_NoStrip(e, path) ==
  Text(path) = Written(e) \/ IsPrefix(Written(e) \o <<"/">>, Text(path))

Admits(e, path) ==
  LET prefix == WithoutTrailingSlashes(Written(e))
  IN  Text(path) = prefix \/ IsPrefix(prefix \o <<"/">>, Text(path))

(* _check_endpoint_access: an empty list restricts nothing. *)
EndpointAllowed(c) ==
  Endpoints[c.token] = {} \/ \E e \in Endpoints[c.token] : Admits(e, c.path)

(* write_auth, and read_auth, which write scope also satisfies. *)
ScopeAllowed(auth, c) ==
  IF auth = "write" THEN "write" \in Scopes[c.token]
                    ELSE Scopes[c.token] \cap {"read", "write"} # {}

(* What stops a request before its handler runs: "unrouted" is 404, 405 and *)
(* the framework's slash redirect.  expires_at is whatever text the key was *)
(* issued with: one that is no date, or has no UTC offset, makes the        *)
(* comparison raise, a 500 of the authentication itself.                    *)
Verdict(auth, c) ==
  IF auth = "unrouted" THEN "unrouted"
  ELSE IF auth = "open" THEN "pass"
  ELSE IF c.token \notin Tokens THEN IF c.token = NoToken THEN "401" ELSE "403"
  ELSE IF c.token \in Undated /\ keyState[c.token] # "revoked" THEN "error"
  ELSE IF keyState[c.token] = "expired" THEN "401"
  ELSE IF keyState[c.token] = "live" /\ ScopeAllowed(auth, c) /\ EndpointAllowed(c)
       THEN "pass" ELSE "403"

-----------------------------------------------------------------------------
(* Forwarding *)

Service(r) == route[r].service

(* openstates_proxy retries a refused connection; nothing else is retried. *)
MaxAttempts(s) == IF s = "openstates" THEN 2 ELSE 1

(* Mutation: every failure is retried, as a blanket except would. *)
Retried_AnyFailure(r, failure) == tries[r] < MaxAttempts(Service(r))

Retried(r, failure) == failure = "refused" /\ tries[r] < MaxAttempts(Service(r))

(* Mutation: one message for every failure. *)
Outcome_AllUnavailable(s, failure) == "unavailable"

(* The HTTPException each proxy raises: "unavailable" is its 502 for a      *)
(* refused connection, "failed" any other 502, "timeout" its 504.  votebot  *)
(* and voatz do not tell their failures apart; the stream reports one in an *)
(* error event, get_tokens and get_events in a body with status "error".    *)
Outcome(s, failure) ==
  IF s \in {"votebot", "voatz"} THEN "failed"
  ELSE IF failure = "refused" THEN "unavailable"
  ELSE IF failure = "slow" THEN "timeout"
  ELSE "failed"

Finish(r, what) ==
  /\ phase' = [phase EXCEPT ![r] = "done"]
  /\ answer' = [answer EXCEPT ![r] = what]

Fail(r, failure) ==
  IF Retried(r, failure)
  THEN phase' = [phase EXCEPT ![r] = "backoff"] /\ UNCHANGED answer
  ELSE Finish(r, Outcome(Service(r), failure))

(* The handler is entered, or the request is turned away. *)
Arrive(r) ==
  LET verdict == Verdict(route[r].auth, call[r]) IN
  /\ phase[r] = "new"
  /\ \/ /\ verdict = "pass"
        /\ phase' = [phase EXCEPT ![r] = "connecting"]
        /\ tries' = [tries EXCEPT ![r] = 1]
        /\ UNCHANGED answer
     \/ /\ verdict # "pass"
        /\ Finish(r, verdict)
        /\ UNCHANGED tries
  /\ UNCHANGED <<keyState, up, outages, call, route, inbox, work>>

(* client.request reaches the service ... *)
Deliver(r) ==
  /\ phase[r] = "connecting" /\ up[Service(r)]
  /\ phase' = [phase EXCEPT ![r] = "waiting"]
  /\ inbox' = inbox \cup {r}
  /\ UNCHANGED <<keyState, up, outages, call, route, tries, work, answer>>

(* ... or is refused (ConnectError) ... *)
Refuse(r) ==
  /\ phase[r] = "connecting" /\ ~up[Service(r)]
  /\ Fail(r, "refused")
  /\ UNCHANGED <<keyState, up, outages, call, route, tries, inbox, work>>

(* ... or gets no connection in time (ConnectTimeout, PoolTimeout). *)
Strand(r) ==
  /\ phase[r] = "connecting"
  /\ Fail(r, "stranded")
  /\ UNCHANGED <<keyState, up, outages, call, route, tries, inbox, work>>

(* Mutation: the attempt is not counted. *)
Wake_NotCounted(r) ==
  /\ phase[r] = "backoff"
  /\ phase' = [phase EXCEPT ![r] = "connecting"]
  /\ UNCHANGED <<keyState, up, outages, call, route, tries, inbox, work, answer>>

(* asyncio.sleep before the one retry. *)
Wake(r) ==
  /\ phase[r] = "backoff"
  /\ phase' = [phase EXCEPT ![r] = "connecting"]
  /\ tries' = [tries EXCEPT ![r] = @ + 1]
  /\ UNCHANGED <<keyState, up, outages, call, route, inbox, work, answer>>

(* response.json() outside a try: chat and feedback, and fetch_events.  The *)
(* stream copies chunks, get_tokens reads cookies, create_event falls back  *)
(* to the raw text.                                                         *)
MustBeJson(r) == call[r].path \in {<<<<"votebot">>, <<"chat">>>>, <<<<"votebot">>, <<"feedback">>>>,
                                   <<<<"get_events">>>>}

(* The upstream's answer, status and body, is passed on; a body that had to *)
(* be JSON and is not makes the answer a 500.                               *)
Reply(r) ==
  /\ phase[r] = "answered"
  /\ \/ Finish(r, "upstream")
     \/ MustBeJson(r) /\ Finish(r, "500")
  /\ UNCHANGED <<keyState, up, outages, call, route, tries, inbox, work>>

(* ReadTimeout, whether the service is still at work or its answer is late. *)
TimeOut(r) ==
  /\ phase[r] \in {"waiting", "answered"}
  /\ Fail(r, "slow")
  /\ UNCHANGED <<keyState, up, outages, call, route, tries, inbox, work>>

(* The connection is lost: ReadError, RemoteProtocolError. *)
Break(r) ==
  /\ phase[r] = "broken"
  /\ Fail(r, "lost")
  /\ UNCHANGED <<keyState, up, outages, call, route, tries, inbox, work>>

-----------------------------------------------------------------------------
(* The rest of the world *)

(* The service does the work; its caller may be gone by then. *)
Perform(r) ==
  /\ r \in inbox
  /\ inbox' = inbox \ {r}
  /\ work' = [work EXCEPT ![r] = @ + 1]
  /\ phase' = [phase EXCEPT ![r] = IF @ = "waiting" THEN "answered" ELSE @]
  /\ UNCHANGED <<keyState, up, outages, call, route, tries, answer>>

(* A service crashes, or the network to it fails: every open connection is  *)
(* lost, and of the requests it had any part.                               *)
Down(s) ==
  /\ up[s] /\ outages < MaxOutages
  /\ up' = [up EXCEPT ![s] = FALSE] /\ outages' = outages + 1
  /\ \E gone \in SUBSET {r \in inbox : Service(r) = s} : inbox' = inbox \ gone
  /\ phase' = [r \in Requests |->
       IF phase[r] \in {"waiting", "answered"} /\ Service(r) = s THEN "broken" ELSE phase[r]]
  /\ UNCHANGED <<keyState, call, route, tries, work, answer>>

Up(s) ==
  /\ ~up[s] /\ up' = [up EXCEPT ![s] = TRUE]
  /\ UNCHANGED <<keyState, outages, phase, call, route, tries, inbox, work, answer>>

(* A managed key runs out or is revoked. *)
Lapse(t) ==
  /\ keyState[t] = "live"
  /\ \E how \in {"expired", "revoked"} : keyState' = [keyState EXCEPT ![t] = how]
  /\ UNCHANGED <<up, outages, phase, call, route, tries, inbox, work, answer>>

(* voatz.py calls requests inside its coroutines: until such a call is over *)
(* no other coroutine of the process runs, nor any timer.                   *)
LoopHeldBy(r) == phase[r] \notin {"new", "done"} /\ Service(r) = "voatz"

Handle(r) ==
  /\ \A q \in Requests \ {r} : ~LoopHeldBy(q)
  /\ \/ Arrive(r) \/ Deliver(r) \/ Refuse(r) \/ Strand(r) \/ Wake(r)
     \/ Reply(r) \/ TimeOut(r) \/ Break(r)

Next ==
  \/ \E r \in Requests : Handle(r) \/ Perform(r)
  \/ \E s \in Services : Down(s) \/ Up(s)
  \/ \E t \in Managed : Lapse(t)

Spec == Init /\ [][Next]_vars

(* The event loop runs every handler that can go on, and every wait of a    *)
(* handler ends: httpx, or requests, times it out.  Services need not come  *)
(* back.                                                                    *)
Fairness == \A r \in Requests : WF_vars(Handle(r))
FairSpec == Spec /\ Fairness

-----------------------------------------------------------------------------
(* Properties *)

TypeOK ==
  /\ keyState \in [Tokens -> {"live", "expired", "revoked"}]
  /\ up \in [Services -> BOOLEAN] /\ outages \in 0..MaxOutages
  /\ phase \in [Requests -> {"new", "connecting", "backoff", "waiting", "answered", "broken", "done"}]
  /\ call \in [Requests -> Calls] /\ route = [r \in Requests |-> Routed[call[r]]]
  /\ tries \in [Requests -> 0..2]
  /\ inbox \subseteq Requests /\ work \in [Requests -> Nat]
  /\ answer \in [Requests -> {"none", "unrouted", "error", "401", "403", "500", "upstream",
                              "unavailable", "timeout", "failed"}]

(* No request is worked on twice, whatever is refused, lost, late or        *)
(* retried: the retry of openstates_proxy._forward is for connections the   *)
(* service never accepted.                                                  *)
AtMostOnce == \A r \in Requests : work[r] + (IF r \in inbox THEN 1 ELSE 0) <= 1

TurnedAway == {"unrouted", "error", "401", "403", "unavailable"}

(* A caller told "unavailable", or turned away by the gateway itself, can   *)
(* repeat the request safely: it was not and never will be worked on.  One  *)
(* that got the upstream's answer knows it was.                             *)
AnswersTruthful ==
  \A r \in Requests :
    /\ answer[r] \in TurnedAway => work[r] = 0 /\ r \notin inbox
    /\ answer[r] \in {"upstream", "500"} => work[r] = 1

(* The restriction as auth.py words it, over segments: "/broker" and its    *)
(* sub-paths, not "/brokerage"; "broker" is the beginning of no path.       *)
Within(c) == \/ Endpoints[c.token] = {}
             \/ \E e \in Endpoints[c.token] : e.lead = <<>> /\ IsPrefix(e.path, c.path)

Probe(c) == c.method = "GET" /\ c.path = <<<<"openstates">>, <<"healthz">>>>

ReadOnlyPost(c) ==
  c.path \in {<<<<"votebot">>, <<"chat">>>>, <<<<"votebot">>, <<"chat">>, <<"stream">>>>,
              <<<<"get_tokens">>>>, <<<<"get_events">>>>}

(* What reaches a service is the liveness probe or was sent with a known    *)
(* key whose scope covers it, write scope for anything that may change      *)
(* data, and whose endpoint restriction covers the path.                    *)
Entitled(c) ==
  \/ Probe(c)
  \/ /\ c.token \in Tokens
     /\ c.token \notin Undated
     /\ IF c.method = "GET" \/ ReadOnlyPost(c)
        THEN Scopes[c.token] \cap {"read", "write"} # {} ELSE "write" \in Scopes[c.token]
     /\ Within(c)

OnlyEntitled == \A r \in Requests : work[r] > 0 \/ r \in inbox => Entitled(call[r])

(* A restriction never shuts out what it lists, and the probe asks for no   *)
(* key: a request is answered 403 only if its key has lapsed or does not    *)
(* cover it, 401 only if it needs one and has none that is current, and the *)
(* authentication breaks only over a key whose expiry is unusable.          *)
RefusedForCause ==
  \A r \in Requests :
    answer[r] \in {"401", "403", "error"} =>
      /\ ~Probe(call[r])
      /\ call[r].token \in Tokens => keyState[call[r].token] # "live" \/ ~Entitled(call[r])

(* A request let in before its key lapsed is still answered, and so is every*)
(* other, even if its service never comes back, and even if calls to Voatz  *)
(* hold the event loop that its own handler and timers need.                *)
Answered == \A r \in Requests : <>(answer[r] # "none")

(* The gateway implements UpstreamCall. *)
Told(a) == IF a = "none" THEN "nothing" ELSE IF a \in TurnedAway THEN "refused"
           ELSE IF a \in {"upstream", "500"} THEN "done" ELSE "unknown"

Promise == INSTANCE UpstreamCall WITH work <- work, told <- [r \in Requests |-> Told(answer[r])]

ImplementsUpstreamCall == Promise!Spec
=============================================================================
