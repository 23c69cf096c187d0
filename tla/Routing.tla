------------------------------ MODULE Routing ------------------------------
(***************************************************************************)
(* Where an inbound message goes: app/control/routing.py and the part of   *)
(* app/channel/endpoints.py that chooses the endpoint a message came from. *)
(*                                                                         *)
(* A text is what the keyword tables find in it, a subset of               *)
(* {"stats", "ralph", "review", "code"} for the router and of {"broad",    *)
(* "only_explain", "explain", "act", "coding"} for the main agent.  An     *)
(* endpoint is a record of the configured channel, in the order of the     *)
(* configuration.                                                          *)
(***************************************************************************)
EXTENDS Naturals, Sequences

NoRoute == [intent |-> "none", agent |-> "none", refused |-> FALSE]

To(intent, agent) == [intent |-> intent, agent |-> agent, refused |-> FALSE]

(* The binding of an endpoint that is not configured (EndpointBinding's    *)
(* own defaults).                                                          *)
Unbound == [id |-> "default", agent |-> "main-agent", workflow |-> "general", handoffs |-> {}]

(* resolve_endpoint_id: the endpoint that is named, else the first of the  *)
(* sender's provider that knows a reference of the sender, else the        *)
(* configured default.                                                     *)
EndpointOf(endpoints, named, provider, refs, default) ==
  LET Enabled(id) == \E n \in 1..Len(endpoints) : endpoints[n].id = id /\ endpoints[n].enabled
      Knows(n) == /\ endpoints[n].enabled
                  /\ endpoints[n].provider = provider
                  /\ endpoints[n].refs \cap refs # {}
      First(n) == Knows(n) /\ \A k \in 1..(n - 1) : ~Knows(k)
  IN IF Enabled(named) THEN named
     ELSE IF \E n \in 1..Len(endpoints) : First(n)
          THEN endpoints[CHOOSE n \in 1..Len(endpoints) : First(n)].id
          ELSE IF Enabled(default) THEN default ELSE "default"

(* resolve_binding.                                                        *)
BindingOf(endpoints, id) ==
  IF \E n \in 1..Len(endpoints) : endpoints[n].id = id
  THEN LET e == endpoints[CHOOSE n \in 1..Len(endpoints) : endpoints[n].id = id]
       IN [id |-> e.id, agent |-> e.agent, workflow |-> e.workflow, handoffs |-> e.handoffs]
  ELSE Unbound

(* _resolve_endpoint_default_route.                                        *)
DefaultRoute(b) ==
  IF b.agent = "main-agent" /\ b.workflow = "general" THEN NoRoute
  ELSE IF b.agent = "ralph" \/ b.workflow = "sleep_coding" THEN To("sleep_coding", "ralph")
  ELSE IF b.agent # "" THEN To("general", b.agent)
  ELSE IF b.workflow = "general" THEN To("general", "main-agent")
  ELSE NoRoute

(* _handoff_allowed.                                                       *)
HandoffAllowed(b) ==
  \/ b.agent = "ralph"
  \/ b.id = "default" /\ b.handoffs = {}
  \/ "ralph" \in b.handoffs

(* A mention of Ralph that the endpoint does not allow falls back to the   *)
(* endpoint's own route, which may lead to Ralph all the same.             *)
Refused(b) ==
  LET fallback == IF DefaultRoute(b) = NoRoute THEN To("general", "main-agent")
                  ELSE DefaultRoute(b)
  IN [fallback EXCEPT !.refused = TRUE]

(* resolve_route.                                                          *)
RouteOf(says, b) ==
  IF "stats" \in says THEN To("stats_query", "main-agent")
  ELSE IF "ralph" \in says
       THEN IF HandoffAllowed(b) THEN To("sleep_coding", "ralph") ELSE Refused(b)
  ELSE IF "review" \in says THEN To("general", "main-agent")
  ELSE IF DefaultRoute(b) # NoRoute THEN DefaultRoute(b)
  ELSE IF "code" \in says THEN To("sleep_coding", "ralph")
  ELSE To("general", "main-agent")

(* _build_heuristic_main_agent_output, _should_route_to_coding: what the   *)
(* main agent makes of a text without a language model.                    *)
KeywordMode(says) ==
  IF /\ "coding" \in says
     /\ {"broad", "only_explain"} \cap says = {}
     /\ "explain" \in says => "act" \in says
  THEN "coding_handoff" ELSE "chat"
=============================================================================
