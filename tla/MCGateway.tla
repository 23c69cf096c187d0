----------------------------- MODULE MCGateway -----------------------------
(* The instances of Gateway that TLC checks.                               *)
EXTENDS Gateway

CONSTANTS M, N

(* One endpoint for everything, one for coding.                            *)
MCEndpoints ==
  <<[id |-> "main", enabled |-> TRUE, provider |-> "feishu", refs |-> {"team"},
     agent |-> "main-agent", workflow |-> "general", handoffs |-> {"ralph"}],
    [id |-> "coding", enabled |-> TRUE, provider |-> "feishu", refs |-> {"coders"},
     agent |-> "main-agent", workflow |-> "sleep_coding", handoffs |-> {}]>>

InChat(says, issue, model) ==
  [channel |-> "feishu", source |-> "feishu", session |-> "team", refs |-> {"team"},
   endpoint |-> "none", says |-> says, issue |-> issue, message_id |-> TRUE, request_id |-> FALSE,
   model |-> model]

ByClient(endpoint, says, issue, named) ==
  [channel |-> "api", source |-> "manual", session |-> "client", refs |-> {"client"},
   endpoint |-> endpoint, says |-> says, issue |-> issue, message_id |-> FALSE, request_id |-> named,
   model |-> TRUE]

Request == InChat({}, 0, TRUE)

Direct == InChat({"ralph"}, 1, TRUE)

(* There is no such issue.                                                 *)
Missing == InChat({"ralph"}, 9, TRUE)

(* A wish for code that names no issue, and two texts whose fate the        *)
(* keywords decide.                                                        *)
Vague == InChat({"code"}, 0, TRUE)

Wish == InChat({"coding", "explain", "act"}, 0, FALSE)

Question == InChat({"coding", "explain"}, 0, FALSE)

(* A mention of Ralph on an endpoint that hands every message to Ralph but *)
(* allows no mention.                                                      *)
Mention == ByClient("coding", {"ralph"}, 2, TRUE)

Stats == ByClient("none", {"stats"}, 0, FALSE)

Pair(a, b) == [m \in Messages |-> IF m = M THEN a ELSE b]

(* The second message is delivered again only when a fault loses it.       *)
MCMaxDeliveries == [m \in Messages |-> IF m = M THEN 2 ELSE 1]

MCConversations ==
  {Pair(Request, Direct), Pair(Request, Mention), Pair(Direct, Stats), Pair(Vague, Stats),
   Pair(Wish, Question), Pair(Missing, Stats)}

MCRepeat == {Pair(Direct, Stats)}
=============================================================================
