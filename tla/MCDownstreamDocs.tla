-------------------------- MODULE MCDownstreamDocs --------------------------
(* Instances of DownstreamDocs for TLC. *)
EXTENDS DownstreamDocs

Takes(root, leaf, method, refs, inputs) ==
  [root |-> root, leaf |-> leaf, method |-> method, refs |-> refs, inputs |-> inputs, cookie |-> FALSE]
Route(root, leaf, method, refs) == Takes(root, leaf, method, refs, {})

(* ddp-sync: routes under both prefixes, one elsewhere, nested schemas; of  *)
(* the routes with a default, one publishes the parameter.                  *)
SyncSpec ==
  [ops |-> {Takes("sync", "unified", "post", {"Unified"}, {"body", "media"}),
            Takes("sync", "unified/all", "post", {}, {"dry_run"}),
            Route("trigger", "legislator-bio-sync", "post", {}), Route("trigger", "full-sync", "post", {}),
            Route("jobs", "x", "delete", {"Job"})},
   schemas |-> [n \in {"Unified", "Mode", "Job"} |-> IF n = "Unified" THEN {"Mode"} ELSE {}]]

SyncElsewhere == [SyncSpec EXCEPT !.ops = {Route("jobs", "x", "delete", {"Job"})}]

(* api-v3 lists its own health check; the broker reuses a local schema      *)
(* name, and publishes routes with a body, none, and one without a media    *)
(* type.                                                                    *)
OpenstatesSpec ==
  [ops |-> {Route("", "healthz", "get", {}), Route("", "bills", "get", {"Bill"}),
            Route("", "ddp/search/refresh", "post", {})},
   schemas |-> [n \in {"Bill"} |-> {"Bill"}]]

BrokerSpec ==
  [ops |-> {Takes("", "api/flags/", "post", {"Body"}, {"body", "media"}),
            Route("", "api/bill-organization-positions/", "post", {}),
            Takes("", "api/concept-votes/", "post", {"Body"}, {"body"}),
            [Route("", "api/bills/", "patch", {"Body"}) EXCEPT !.cookie = TRUE]},
   schemas |-> [n \in {"Body", "ValidationError"} |-> IF n = "Body" THEN {"ValidationError"} ELSE {}]]

EveryContent ==
  [s \in Services |->
     CASE s = "sync" -> {SyncSpec, SyncElsewhere, Garbled}
       [] s = "openstates" -> {OpenstatesSpec, Garbled}
       [] s = "broker" -> {BrokerSpec}]

AllServices == <<"sync", "openstates", "broker">>

(* One service, for the races of builds over its cache entry: the entries   *)
(* of different services are independent.                                   *)
OneService == <<"openstates">>
OneChanges == [s \in Services |-> {OpenstatesSpec, Garbled}]
=============================================================================
