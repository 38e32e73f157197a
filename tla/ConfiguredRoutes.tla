--------------------------- MODULE ConfiguredRoutes ---------------------------
(* One process and its routes that block it: coroutines without an await,   *)
(* so that one request is worked on at a time while the world goes on.  The *)
(* fetches and comparisons of UserDiff, and what depends on the             *)
(* configuration of OrgConfig: the pre-authenticated Voatz wrappers         *)
(* (app/routes/voatz.py), the Webflow routes (app/routes/webflow.py) and    *)
(* POST /admin/reload.  Voatz, and Webflow with its library, are external.  *)
EXTENDS OrgConfig, UserDiff

CONSTANTS
  Orgs,           \* organization ids
  Empty,          \* a setting that is there, and empty
  Env             \* the settings in the environment

VARIABLES
  request,        \* a wrapper's [org, limit] or a Webflow route's [route, given]
  todo,           \* the settings the Webflow request has yet to look up
  took,           \* those it took: [setting, value]
  began           \* history: the configuration when the request came

routeVars == <<request, todo, took, began>>
vars == <<voatzVars, fetchVars, diffVars, configVars, routeVars>>

Untouched == <<voatzVars, fetchVars, listVars, pageVars, report>>

NoRequest == [route |-> "none"]

Init ==
  /\ DiffInit /\ ConfigInit
  /\ request = NoRequest /\ todo = {} /\ took = {} /\ began = NoDoc

-----------------------------------------------------------------------------
(* The pre-authenticated wrappers *)

Excluded(org, limit) == limit # {} /\ org \notin limit

(* fetch_tokens and, for the events, their one request. *)
UpstreamAnswers(route) == IF route = "events" THEN {"200", "500", "502"} ELSE {"500", "502"}

(* fetch_tokens_from_config and what follows it, given what get_config gave.*)
WrappedFor(route, org, cfg) ==
  IF cfg = NoDoc THEN Answer("500") /\ UNCHANGED <<voatzVars, fetchVars>>
  ELSE IF org \notin cfg.organizations THEN Answer("404") /\ UNCHANGED <<voatzVars, fetchVars>>
  ELSE \/ (\E a \in UpstreamAnswers(route) : Answer(a)) /\ UNCHANGED <<voatzVars, fetchVars>>
       \/ route = "users" /\ StartFetch /\ pc' = "users" /\ UNCHANGED answer

(* Mutation: the organization is looked up before the key's limits are. *)
GetWrapped_LookupFirst(route, org, limit) ==
  \E cfg \in Documents \cup {NoDoc} :
    /\ GetConfig(cfg)
    /\ IF cfg # NoDoc /\ org \in cfg.organizations /\ Excluded(org, limit)
       THEN Answer("403") /\ UNCHANGED <<voatzVars, fetchVars>>
       ELSE WrappedFor(route, org, cfg)

(* _check_org_access, then the rest. *)
GetWrapped(route, org, limit) ==
  \/ Excluded(org, limit) /\ Answer("403") /\ UNCHANGED <<configVars, voatzVars, fetchVars>>
  \/ ~Excluded(org, limit)
     /\ \E cfg \in Documents \cup {NoDoc} : GetConfig(cfg) /\ WrappedFor(route, org, cfg)

(* GET /voatz/users/{org_id} and /voatz/events/{org_id}, by a key that its  *)
(* restrictions limit to some organizations, or to none of them.            *)
AskWrapped ==
  /\ pc = "idle" /\ mode' = "wrapped"
  /\ \E route \in {"users", "events"}, org \in Orgs, limit \in SUBSET Orgs :
       /\ request' = [route |-> route, org |-> org, limit |-> limit]
       /\ GetWrapped(route, org, limit)
  /\ began' = config
  /\ UNCHANGED <<listVars, pageVars, report, todo, took>>

-----------------------------------------------------------------------------
(* The Webflow routes *)

(* The collections each works on. *)
ByBills == {"fill/gov-url", "fill/session-code", "fill/map-url", "check/duplicates", "items"}
ByOrgs  == {"sync/org-about-fields", "check/org-missing-fields"}
ByBoth  == {"sync/bill-org", "resolve/duplicate-group"}
Collections(route) ==
  IF route \in ByBills THEN {"bills"} ELSE IF route \in ByOrgs THEN {"orgs"} ELSE {"bills", "orgs"}

(* The client comes first, and the bills before the organizations. *)
Upcoming == IF "token" \in todo THEN "token" ELSE IF "bills" \in todo THEN "bills" ELSE "orgs"

(* Without an organizations' collection, resolve/duplicate-group goes on.   *)
Optional(setting) == setting = "orgs" /\ request.route = "resolve/duplicate-group"

(* _get_webflow_config: a document's setting, if it has one, else the       *)
(* environment's, which also serves where get_config raises.                *)
Setting(cfg, s) == IF cfg # NoDoc /\ s \in DOMAIN cfg.webflow THEN cfg.webflow[s] ELSE Env[s]

(* A request, with the collection ids that its caller gives. *)
AskWebflow ==
  /\ pc = "idle" /\ pc' = "webflow" /\ mode' = "webflow"
  /\ \E route \in ByBills \cup ByOrgs \cup ByBoth : \E given \in SUBSET Collections(route) :
       /\ request' = [route |-> route, given |-> given]
       /\ todo' = {"token"} \cup (Collections(route) \ given)
  /\ began' = config
  /\ UNCHANGED <<Untouched, configVars, answer, took>>

(* _get_client, _resolve_bills_collection, _resolve_orgs_collection: each   *)
(* asks for the configuration anew.                                         *)
LookUp ==
  /\ pc = "webflow" /\ todo # {}
  /\ todo' = todo \ {Upcoming}
  /\ LET setting == Upcoming IN
     \E cfg \in Documents \cup {NoDoc} :
       /\ GetConfig(cfg)
       /\ LET value == Setting(cfg, setting) IN
          IF value = Empty /\ ~Optional(setting)
          THEN Answer(IF setting = "token" THEN "500" ELSE "400") /\ UNCHANGED took
          ELSE took' = took \cup {[setting |-> setting, value |-> value]} /\ UNCHANGED <<pc, answer>>
  /\ UNCHANGED <<Untouched, mode, request, began>>

(* The library does the work, with the client and the ids it was given; of  *)
(* what it does to the items nothing is known here.                         *)
CallWebflow ==
  /\ pc = "webflow" /\ todo = {}
  /\ Answer("200") \/ Answer("500") \/ (request.route = "fill/gov-url" /\ Answer("404"))
  /\ UNCHANGED <<Untouched, configVars, mode, request, todo, took, began>>

-----------------------------------------------------------------------------
(* The other steps of the process, and of the world *)

AskDirect == Ask /\ UNCHANGED <<configVars, routeVars>>

ServeUsers == Serve /\ UNCHANGED <<configVars, routeVars>>

Dismiss ==
  /\ Return
  /\ request' = NoRequest /\ todo' = {} /\ took' = {} /\ began' = NoDoc
  /\ UNCHANGED configVars

AdminReload ==
  /\ pc = "idle" /\ mode' = "reload"
  /\ \E code \in {"200", "500"} : Reload(code) /\ Answer(code)
  /\ UNCHANGED <<Untouched, routeVars>>

(* The process is killed and started again, and its request is lost. *)
Crash ==
  /\ pc # "answered" /\ Restart /\ Clear
  /\ request' = NoRequest /\ todo' = {} /\ took' = {} /\ began' = NoDoc
  /\ UNCHANGED list

WorldMoves ==
  \/ Deploy \/ KeysChange \/ (pc = "idle" /\ KeysExpire)

World ==
  \/ UsersChange /\ UNCHANGED <<configVars, routeVars>>
  \/ ListChanges /\ UNCHANGED <<configVars, routeVars>>
  \/ WorldMoves /\ UNCHANGED <<voatzVars, fetchVars, diffVars, routeVars>>

Work == ServeUsers \/ LookUp \/ CallWebflow
Next == AskDirect \/ AskWrapped \/ AskWebflow \/ AdminReload \/ Work \/ Dismiss \/ Crash \/ World

Spec == Init /\ [][Next]_vars

(* Every request to Voatz or Brevo returns or times out after 60 seconds.   *)
FairSpec == Spec /\ WF_vars(ServeUsers)

-----------------------------------------------------------------------------
(* A Webflow request asks for the configuration up to three times, and may  *)
(* get an exception the first times and a document afterwards.  No setting  *)
(* it works with is of any document but the one in use at its end, whatever *)
(* is deployed meanwhile: each is that document's or, where the document    *)
(* has none, the environment's.  Only a request that came to an             *)
(* unconfigured process may have some of the environment's besides          *)
(* (_get_webflow_config and its callers).                                   *)
OneDocument ==
  mode = "webflow" =>
    /\ began # NoDoc => config = began
    /\ \A t \in took : \/ t.value = Setting(config, t.setting)
                       \/ began = NoDoc /\ t.value = Env[t.setting]
    /\ answer = "400" => \E s \in {"bills", "orgs"} :
                          Setting(config, s) = Empty \/ (began = NoDoc /\ Env[s] = Empty)

(* A key that is limited to other organizations learns nothing about one:   *)
(* it is refused before the configuration is looked at, with the same       *)
(* answer whether or not the organization is there.  Any other key gets the *)
(* users or events of an organization of the configuration in use, and 404  *)
(* for the rest, unless there is no configuration or Voatz fails.           *)
OrgsKeptApart ==
  mode = "wrapped" =>
    /\ answer = "403" <=> Excluded(request.org, request.limit)
    /\ answer = "403" => config = began
    /\ answer = "404" => config # NoDoc /\ request.org \notin config.organizations
    /\ pc = "users" \/ answer \in {"200", "502"} => config # NoDoc /\ request.org \in config.organizations
=============================================================================
