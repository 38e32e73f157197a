----------------------------- MODULE MCGateway -----------------------------
(* Instances of Gateway for TLC. *)
EXTENDS Gateway

MCTokens == {"reader", "writer", "bounded", "keeper", "undated", "env"}
MCScopes ==
  [t \in MCTokens |->
     CASE t = "reader" -> {"read"} [] t \in {"writer", "undated"} -> {"write"} [] t = "bounded" -> {"read", "write"}
       [] t = "keeper" -> {"admin"} [] t = "env" -> {"read", "write", "admin"}]

(* The bounded key lists /sync/bill/, /openstates and, typed without its    *)
(* slash, broker.                                                           *)
MCEndpoints ==
  [t \in MCTokens |->
     IF t = "bounded" THEN {[lead |-> <<>>, path |-> <<<<"sync">>, <<"bill">>>>, slashes |-> 1],
                            [lead |-> <<>>, path |-> <<<<"openstates">>>>, slashes |-> 0],
                            [lead |-> <<"broker">>, path |-> <<>>, slashes |-> 0]} ELSE {}]

Paths ==
  { <<<<"openstates">>, <<"healthz">>>>,
    <<<<"openstates">>, <<"bill">>>>, <<<<"sync">>, <<"bill">>>>, <<<<"sync">>, <<"bill", "s">>>>,
    <<<<"sync">>, <<"bill">>, <<"x">>>>, <<<<"trigger">>, <<>>>>, <<<<"broker">>, <<"bill">>>>,
    <<<<"votebot">>, <<"chat">>>>, <<<<"votebot">>, <<"chat">>, <<"stream">>>>,
    <<<<"votebot">>, <<"feedback">>>>, <<<<"sync", "s">>, <<"x">>>>,
    <<<<"get_tokens">>>>, <<<<"get_events">>>>, <<<<"create_event">>>> }

MCPieces == {"sync", "s", "bill", "x", "trigger", "openstates", "healthz", "broker", "votebot", "chat",
             "stream", "feedback", "get_tokens", "get_events", "create_event"}

(* Every method and credential on every path. *)
AllCalls == [method : {"GET", "POST", "DELETE"}, path : Paths,
             token : MCTokens \cup {NoToken, "stranger"}]

(* A write, for the second request.                                        *)
Race == [method |-> "POST", path |-> <<<<"openstates">>, <<"bill">>>>, token |-> "writer"]

(* Any call, beside one that races it over a service of its own or shared.  *)
BesideRace == Init /\ call["r2"] = Race
AnyBesideRace == BesideRace /\ [][Next]_vars /\ Fairness
=============================================================================
