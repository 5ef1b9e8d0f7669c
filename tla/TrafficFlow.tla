----------------------------- MODULE TrafficFlow -----------------------------
(***************************************************************************)
(* The traffic view: buildTrafficFlows turns the whole graph into request  *)
(* paths, one per route and endpoint, per endpoint of a Service no route   *)
(* leads to, and per Service without endpoints; the filters then leave     *)
(* the paths a visible node is on. Nodes and edges are those of            *)
(* TopologyCanvas; an edge here also has a confidence. Dependencies and    *)
(* evidence are lists in the code: the evidence without repetition, the    *)
(* dependencies with a node listed once per edge that leads to it.         *)
(***************************************************************************)
EXTENDS FiniteSets, Sequences, SequencesExt

Nowhere == "nowhere"            \* an optional step a path does not have

OfType(edges, types) == {e \in ToSet(edges) : e.type \in types}
From(edges, id, types) == {e \in OfType(edges, types) : e.source = id}

IsNode(id, nodes) == \E i \in DOMAIN nodes : nodes[i].id = id
NodeOf(id, nodes) == nodes[CHOOSE i \in DOMAIN nodes : nodes[i].id = id]

\* The Node of the first scheduled-on edge of a Pod, if the graph has it.
TargetNode(pod, nodes, edges) ==
    LET scheduled == SelectSeq(edges, LAMBDA e : e.source = pod /\ e.type = "scheduled-on")
    IN IF scheduled # <<>> /\ IsNode(scheduled[1].target, nodes)
       THEN scheduled[1].target ELSE Nowhere

PodDependencies(pod, nodes, edges) ==
    {e.target : e \in {d \in From(edges, pod, {"env-from", "mounts", "binds-storage"}) :
                           IsNode(d.target, nodes)}}

\* Mutant: the Node's edge is no evidence.
PodReferenceEdges(pod, edges) == From(edges, pod, {"env-from", "mounts"})

PodEvidenceEdges(pod, edges) == From(edges, pod, {"scheduled-on", "env-from", "mounts"})

PodPolicyEvidenceEdges(pod, edges) ==
    LET applied == {e \in OfType(edges, {"applies-to"}) : e.target = pod}
    IN applied \cup {e \in OfType(edges, {"allows-ingress", "allows-egress"}) :
                        e.source \in {a.source : a \in applied}}

GatewayEvidenceEdges(route, edges) == From(edges, route, {"attaches-to"})

WorstStatus(ids, nodes) ==
    LET states == {NodeOf(id, nodes).status : id \in ids}
    IN CASE "error" \in states -> "error"
         [] "error" \notin states /\ "warning" \in states -> "warning"
         [] states \cap {"error", "warning"} = {} /\ "unknown" \in states -> "unknown"
         [] OTHER -> "healthy"

EvidenceSummary(evidence) ==
    LET confidences == {e.confidence : e \in evidence}
    IN IF "inferred" \notin confidences THEN "observed"
       ELSE IF "observed" \in confidences THEN "observed and inferred" ELSE "inferred"

\* createFlow: the steps after the client, in order; a path without a Pod is blocked.
CreateFlow(via, ingress, service, pod, evidence, nodes, edges) ==
    LET host == IF pod = Nowhere THEN Nowhere ELSE TargetNode(pod, nodes, edges)
        steps == SelectSeq(<<ingress, service, pod, host>>, LAMBDA s : s # Nowhere)
        blocked == pod = Nowhere
    IN [via |-> via, steps |-> steps, blocked |-> blocked,
        status |-> IF blocked THEN "error" ELSE WorstStatus(ToSet(steps), nodes),
        dependencies |-> IF blocked THEN {} ELSE PodDependencies(pod, nodes, edges),
        evidence |-> evidence,
        summary |-> IF blocked THEN "blocked" ELSE EvidenceSummary(evidence)]

ExternalFlows(nodes, edges) ==
    LET routes == {r \in OfType(edges, {"routes-to"}) : {IsNode(r.source, nodes), IsNode(r.target, nodes)} = {TRUE}}
        gateways(r) == GatewayEvidenceEdges(r.source, edges) \cup {r}
        endpoints(r) == From(edges, r.target, {"service-endpoint"})
    IN {CreateFlow(<<r>>, r.source, r.target, Nowhere, gateways(r), nodes, edges) :
            r \in {x \in routes : endpoints(x) = {}}}
       \cup UNION {{CreateFlow(<<r, e>>, r.source, r.target, e.target,
                        gateways(r) \cup {e} \cup PodEvidenceEdges(e.target, edges)
                            \cup PodPolicyEvidenceEdges(e.target, edges), nodes, edges) :
                        e \in {x \in endpoints(r) : IsNode(x.target, nodes)}} : r \in routes}

RoutedServices(edges) == {e.target : e \in OfType(edges, {"routes-to"})}
ServicesWithEndpoints(edges) == {e.source : e \in OfType(edges, {"service-endpoint"})}

InternalFlows(nodes, edges) ==
    LET endpoints == {e \in OfType(edges, {"service-endpoint"}) :
                        /\ e.source \notin RoutedServices(edges)
                        /\ IsNode(e.source, nodes) /\ IsNode(e.target, nodes)}
        silent == {n \in ToSet(nodes) :
                        /\ n.kind = "Service"
                        /\ n.id \notin ServicesWithEndpoints(edges) \cup RoutedServices(edges)}
    IN {CreateFlow(<<e>>, Nowhere, e.source, e.target,
            {e} \cup PodEvidenceEdges(e.target, edges) \cup PodPolicyEvidenceEdges(e.target, edges),
            nodes, edges) : e \in endpoints}
       \cup {CreateFlow(<<n>>, Nowhere, n.id, Nowhere, {}, nodes, edges) : n \in silent}

TrafficFlows(nodes, edges) == ExternalFlows(nodes, edges) \cup InternalFlows(nodes, edges)

\* What the filters leave: the paths with a step that is visible.
FlowsShown(flows, visible) == {f \in flows : ToSet(f.steps) \cap visible # {}}
=============================================================================
