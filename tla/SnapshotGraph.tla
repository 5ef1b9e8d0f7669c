---------------------------- MODULE SnapshotGraph ----------------------------
(***************************************************************************)
(* buildKubernetesSnapshot and the graphBuilder it drives: the lists of a  *)
(* cluster become the nodes and the edges of a topology. All listed        *)
(* objects become nodes first, kind by kind; then, kind by kind again, the *)
(* references of each object become edges. An edge is drawn only between   *)
(* nodes that exist at that moment, and some references create a           *)
(* placeholder for a target that was not listed.                           *)
(*                                                                         *)
(* A listed object is a record:                                            *)
(*   kind, ns, name  its identity ("" is the namespace of cluster-wide     *)
(*                   kinds), and named: validGraphNodeIdentity accepts it  *)
(*   ok, spec        its whole content, or its spec or Pod template, is    *)
(*                   valid                                                 *)
(*   refs            the valid references it makes: [via, kind, ns, name]  *)
(*   labels          its labels                                            *)
(*   ready, running  whether a Node is ready or a Pod's status is healthy; *)
(*                   whether a Pod's phase is Running or Succeeded         *)
(*   selector        the labels a Service or NetworkPolicy selects Pods by *)
(*   types, peers    a NetworkPolicy's directions, and its valid peers     *)
(*                   with their optional Pod and Namespace selectors       *)
(***************************************************************************)
EXTENDS ServiceEndpoints, FiniteSets

CONSTANTS
    Listings,       \* what the cluster may list: sequences of objects
    Slicings,       \* the EndpointSlices it may list: sequences of slices
    MaxIssues       \* maxSnapshotDiagnosticCount

NodeOrder == <<"Namespace", "Node", "Deployment", "ReplicaSet", "StatefulSet", "DaemonSet",
               "Job", "CronJob", "HorizontalPodAutoscaler", "ServiceAccount", "ConfigMap",
               "StorageClass", "CustomResourceDefinition", "CustomResource",
               "PersistentVolume", "PersistentVolumeClaim", "Service", "Ingress", "Gateway",
               "HTTPRoute", "GRPCRoute", "TLSRoute", "TCPRoute", "NetworkPolicy", "Pod">>

EdgeOrder == <<"CustomResource", "Deployment", "ReplicaSet", "StatefulSet", "DaemonSet",
               "CronJob", "Job", "PodOwners", "Pod", "PersistentVolumeClaim",
               "PersistentVolume", "Ingress", "HTTPRoute", "GRPCRoute", "TLSRoute",
               "TCPRoute", "HorizontalPodAutoscaler", "NetworkPolicy">>

Workloads == {"Deployment", "ReplicaSet", "StatefulSet", "DaemonSet", "CronJob", "Job"}
Routes == {"HTTPRoute", "GRPCRoute", "TLSRoute", "TCPRoute"}
\* Kinds whose content is not judged when they become a node.
Unjudged == {"Namespace", "ServiceAccount", "CustomResourceDefinition", "CustomResource",
             "NetworkPolicy"}

PodReferences == {"uses-service-account", "mounts", "env-from"}

\* The references an object of a kind can make.
Makes(kind, via) ==
    \/ via \in {"owner"} \cup PodReferences /\ kind \in Workloads \cup {"Pod"}
    \/ via = "scheduled-on" /\ kind = "Pod"
    \/ via \in {"crd", "references"} /\ kind = "CustomResource"
    \/ via = "binds-storage" /\ kind \in {"PersistentVolume", "PersistentVolumeClaim"}
    \/ via = "routes-to" /\ kind = "Ingress"
    \/ via \in {"attaches-to", "routes-to-backend"} /\ kind \in Routes
    \/ via = "targets-scale" /\ kind = "HorizontalPodAutoscaler"

VARIABLES
    objects,        \* the listed objects, each kind in the order it was listed
    slices,         \* the listed EndpointSlices
    todo,           \* what buildKubernetesSnapshot has still to do
    shown,          \* nodeSet: from the id of a node to the object it shows
    resources,      \* resourceNodeSet
    edges,          \* edgeSet
    claimed,        \* the ids each edge loop has claimed (its seen map)
    issues,         \* resourceIssueCount, by kind
    summary,        \* the counters of the cluster summary
    endpoints       \* the endpoint references and the counts of each Service

input == <<objects, slices>>
graph == <<shown, resources, edges, issues, summary>>
vars == <<objects, slices, todo, shown, resources, edges, claimed, issues, summary, endpoints>>

-----------------------------------------------------------------------------
(* Identities and references *)

Id(object) == <<object.kind, object.ns, object.name>>
ClusterId == <<"Cluster", "", "cluster">>
Placeholder == [kind |-> "placeholder"]
ClusterNode == [kind |-> "Cluster"]

\* The places of the objects of a kind.
Listed(kind) == {i \in DOMAIN objects : objects[i].kind = kind}

\* The id of the node a reference means: cluster-wide for a Pod's Node and for storage, in
\* the namespace that gatewayRouteParentRefs, gatewayRouteBackendRefs and
\* customResourceReferences resolved, otherwise (owners of any scope too) in the object's.
Target(object, ref) ==
    <<ref.kind,
      IF ref.via \in {"scheduled-on", "binds-storage", "crd"} THEN ""
      ELSE IF ref.via \in {"attaches-to", "routes-to-backend", "references"} THEN ref.ns
      ELSE object.ns,
      ref.name>>

Via(object, kinds) == {r \in object.refs : r.via \in kinds}
Edge(from, to, via) == [from |-> from, to |-> to, via |-> via]
EdgesOf(object, refs) == {Edge(Id(object), Target(object, r), r.via) : r \in refs}
Targets(object, refs) == {Target(object, r) : r \in refs}

\* addEdge: an edge without both its ends is not added, and an edge is added once.
Drawable(es, nodes) == {e \in es : {e.from, e.to} \subseteq nodes}

\* recordResourceIssue, n times.
Recorded(kind, n) ==
    [issues EXCEPT ![kind] = IF @ + n > MaxIssues THEN MaxIssues ELSE @ + n]

\* The objects the edge loops work on: per id the first one that was listed.
FirstListed(kind) ==
    {objects[i] : i \in {j \in Listed(kind) :
        /\ Id(objects[j]) \in resources
        /\ \A k \in Listed(kind) : k < j => Id(objects[k]) # Id(objects[j])}}

\* What a listing is: whether a name is valid depends on nothing but the identity.
IsObject(o) ==
    /\ o.kind \in ToSet(NodeOrder) /\ {o.named, o.ok, o.spec} \subseteq BOOLEAN
    /\ \A r \in o.refs :
        Makes(o.kind, r.via) /\ (r.via = "crd" => r.kind = "CustomResourceDefinition")
    /\ \A p \in o.peers : p.direction \in {"allows-ingress", "allows-egress"}

IsListing(listing) ==
    /\ listing \in Seq(ToSet(listing)) /\ \A o \in ToSet(listing) : IsObject(o)
    /\ \A o, p \in ToSet(listing) : Id(o) = Id(p) => o.named = p.named

IsSlicing(slicing) ==
    /\ slicing \in Seq(ToSet(slicing))
    /\ \A s \in ToSet(slicing) : s.endpoints \in Seq(ToSet(s.endpoints))

\* The counters of the cluster summary, and those that an object adds to as a node.
Counters == {"namespaces", "nodeTotal", "nodeReady", "podRunning", "podWarning"}

AddsTo(object, c) ==
    \/ object.kind = "Namespace" /\ c = "namespaces"
    \/ object.kind = "Node" /\ (c = "nodeTotal" \/ (c = "nodeReady" /\ object.ok /\ object.ready))
    \/ object.kind = "Pod" /\ c = "podRunning" /\ object.ok /\ object.running
    \/ object.kind = "Pod" /\ c = "podWarning" /\ ~object.ready

-----------------------------------------------------------------------------
\* The loops of buildKubernetesSnapshot and addKubernetesSnapshotEdges, each over the
\* objects of one kind. A job is a loop and the place of an object; the last is the endpoints'.
NodeLoops == DOMAIN NodeOrder
EdgeLoops == {Len(NodeOrder) + n : n \in DOMAIN EdgeOrder}
LastLoop == Len(NodeOrder) + Len(EdgeOrder) + 1

PassOf(loop) ==
    IF loop \in NodeLoops THEN "node"
    ELSE IF loop \in EdgeLoops THEN EdgeOrder[loop - Len(NodeOrder)] ELSE "endpoints"
KindOf(loop) ==
    IF loop \in NodeLoops THEN NodeOrder[loop]
    ELSE IF PassOf(loop) = "PodOwners" THEN "Pod" ELSE PassOf(loop)

Jobs(listing) ==
    {job \in (NodeLoops \cup EdgeLoops) \X DOMAIN listing : listing[job[2]].kind = KindOf(job[1])}
        \cup {<<LastLoop, 0>>}

\* Loop by loop, and in a loop in the order the objects were listed.
Before(job, other) == job[1] < other[1] \/ (job[1] = other[1] /\ job[2] < other[2])
Current == CHOOSE job \in todo : \A other \in todo : job = other \/ Before(job, other)

EndpointKeys(listing, slicing) ==
    {Key(o) : o \in {s \in ToSet(listing) : s.kind = "Service"}}
        \cup {SliceKey(s) : s \in ToSet(slicing)}

Endpoints(listing, slicing) ==
    LET analysis == AnalyzeEndpointSlices(slicing, EndpointKeys(listing, slicing))
        references == EndpointReferences(analysis.references, listing)
    IN [observed |-> analysis.counts,
        counts |-> MergeReferenceCounts(analysis.counts, references),
        references |-> references, invalid |-> analysis.invalid, limited |-> analysis.limited]

Init ==
    /\ objects \in Listings
    /\ slices \in Slicings
    /\ todo = Jobs(objects)
    /\ shown = [id \in {ClusterId} |-> ClusterNode]
    /\ resources = {}
    /\ edges = {}
    /\ claimed = {}
    /\ issues = [k \in ToSet(NodeOrder) |-> 0]
    /\ summary = [c \in Counters |-> 0]
    /\ endpoints = Endpoints(objects, slices)

This == objects[Current[2]]

Doing(pass, kinds) ==
    /\ todo # {}
    /\ PassOf(Current[1]) = pass
    /\ KindOf(Current[1]) \in kinds

Proceed == todo' = todo \ {Current} /\ UNCHANGED <<objects, slices, endpoints>>

-----------------------------------------------------------------------------
(* The nodes: addTrackedResourceNode and what each loop adds to it *)

Accepted(object) == object.named /\ Id(object) \notin resources

\* addNode: a node that is there stays as it is.
WithNodes(ids, node) ==
    [id \in DOMAIN shown \cup ids |-> IF id \in DOMAIN shown THEN shown[id] ELSE node]

\* Mutant: the last object listed with an id is shown.
ShowLast(object) ==
    /\ shown' = IF object.named THEN (Id(object) :> object) @@ shown ELSE shown
    /\ resources' = IF object.named THEN resources \cup {Id(object)} ELSE resources

Show(object) ==
    /\ shown' = IF object.named THEN WithNodes({Id(object)}, object) ELSE shown
    /\ resources' = IF object.named THEN resources \cup {Id(object)} ELSE resources

Tally(object) ==
    summary' = [c \in Counters |->
                    summary[c] + IF Accepted(object) /\ AddsTo(object, c) THEN 1 ELSE 0]

AddNamespace ==
    /\ Doing("node", {"Namespace"})
    /\ Show(This)
    /\ edges' = edges \cup Drawable({Edge(ClusterId, Id(This), "owns")}, DOMAIN shown')
    /\ issues' = Recorded("Namespace", IF Accepted(This) THEN 0 ELSE 1)
    /\ Tally(This)
    /\ Proceed /\ UNCHANGED claimed

\* A Node or a Pod with an invalid status is recorded even if it is a duplicate.
AddCounted(kind) ==
    /\ Doing("node", {kind})
    /\ Show(This)
    /\ issues' = Recorded(kind, (IF Accepted(This) THEN 0 ELSE 1) + (IF This.ok THEN 0 ELSE 1))
    /\ Tally(This)
    /\ Proceed /\ UNCHANGED <<edges, claimed>>
AddNode == AddCounted("Node")
AddPod == AddCounted("Pod")

AddResource ==
    /\ Doing("node", ToSet(NodeOrder) \ (Unjudged \cup {"Node", "Pod"}))
    /\ Show(This)
    /\ issues' = Recorded(This.kind, IF Accepted(This) /\ This.ok THEN 0 ELSE 1)
    /\ Proceed /\ UNCHANGED <<edges, claimed, summary>>

AddUnjudged ==
    /\ Doing("node", Unjudged \ {"Namespace", "CustomResource"})
    /\ Show(This)
    /\ issues' = Recorded(This.kind, IF Accepted(This) THEN 0 ELSE 1)
    /\ Proceed /\ UNCHANGED <<edges, claimed, summary>>

\* A custom resource draws its two owners at once.
OwnersOfCustomResource(object) ==
    {Edge(id, Id(object), "owns") :
        id \in Targets(object, Via(object, {"crd"}))
                \cup (IF object.ns = "" THEN {} ELSE {<<"Namespace", "", object.ns>>})}

AddCustomResource ==
    /\ Doing("node", {"CustomResource"})
    /\ Show(This)
    /\ issues' = Recorded("CustomResource", IF Accepted(This) THEN 0 ELSE 1)
    /\ edges' = IF Accepted(This)
                THEN edges \cup Drawable(OwnersOfCustomResource(This), DOMAIN shown')
                ELSE edges
    /\ Proceed /\ UNCHANGED <<claimed, summary>>

-----------------------------------------------------------------------------
(* The edges: one action for each loop of addKubernetesSnapshotEdges *)

\* Mutant: duplicates claim the node once more.
ClaimsAgain(pass) == Id(This) \in resources

Claims(pass) == Id(This) \in resources /\ <<pass, Id(This)>> \notin claimed

\* The edges es between the nodes there are; then the references that come with a
\* placeholder for a target that is missing (ensureReferenceNode).
Draw(pass, es, ensured) ==
    /\ IF Claims(pass)
       THEN /\ claimed' = claimed \cup {<<pass, Id(This)>>}
            /\ shown' = WithNodes(Targets(This, ensured), Placeholder)
            /\ edges' = edges \cup Drawable(es, DOMAIN shown)
                              \cup Drawable(EdgesOf(This, ensured), DOMAIN shown')
       ELSE UNCHANGED <<claimed, shown, edges>>
    /\ Proceed /\ UNCHANGED <<resources, issues, summary>>

OwnerEdges(object) ==
    {Edge(Target(object, r), Id(object), "owns") : r \in Via(object, {"owner"})}

DrawCustomResource ==
    /\ Doing("CustomResource", {"CustomResource"})
    /\ Draw("CustomResource", EdgesOf(This, Via(This, {"references"})), {})

DrawWorkload ==
    \E kind \in Workloads :
        /\ Doing(kind, {kind})
        /\ Draw(kind, OwnerEdges(This), IF This.spec THEN Via(This, PodReferences) ELSE {})

DrawPodOwners ==
    /\ Doing("PodOwners", {"Pod"})
    /\ Draw("PodOwners", OwnerEdges(This), {})

DrawPod ==
    /\ Doing("Pod", {"Pod"})
    /\ Draw("Pod", EdgesOf(This, Via(This, {"scheduled-on"})), Via(This, PodReferences))

DrawStorage ==
    \E kind \in {"PersistentVolumeClaim", "PersistentVolume"} :
        /\ Doing(kind, {kind})
        /\ Draw(kind, IF This.spec THEN EdgesOf(This, Via(This, {"binds-storage"})) ELSE {}, {})

DrawIngress ==
    /\ Doing("Ingress", {"Ingress"})
    /\ Draw("Ingress", IF This.spec THEN EdgesOf(This, Via(This, {"routes-to"})) ELSE {}, {})

DrawRoute ==
    \E kind \in Routes :
        /\ Doing(kind, {kind})
        /\ Draw(kind, {}, IF This.spec THEN Via(This, {"attaches-to", "routes-to-backend"}) ELSE {})

DrawAutoscaler ==
    /\ Doing("HorizontalPodAutoscaler", {"HorizontalPodAutoscaler"})
    /\ Draw("HorizontalPodAutoscaler", {}, IF This.spec THEN Via(This, {"targets-scale"}) ELSE {})

\* A peer without a Namespace selector means the policy's own namespace, one without a Pod
\* selector the Namespaces themselves; one with neither selects nothing here.
PeerEdges(policy, peer, pods, namespaces) ==
    LET names == IF peer.namespaces = <<>> THEN {policy.ns}
                 ELSE {n.name : n \in {m \in namespaces : Matches(peer.namespaces[1], m.labels)}}
        targets ==
            IF peer.pods # <<>>
              THEN {Id(p) : p \in {q \in pods : q.ns \in names /\ Matches(peer.pods[1], q.labels)}}
            ELSE IF peer.namespaces # <<>>
              THEN {<<"Namespace", "", name>> : name \in names}
            ELSE {}
    IN {Edge(Id(policy), id, peer.direction) : id \in targets}

PolicyEdges(policy, pods, namespaces) ==
    LET selected == {p \in pods : p.ns = policy.ns /\ Matches(policy.selector, p.labels)}
        applies == IF ~policy.spec THEN {}
                   ELSE IF selected # {} THEN {Id(p) : p \in selected}
                   ELSE {<<"Namespace", "", policy.ns>>}
    IN {Edge(Id(policy), id, "applies-to") : id \in applies}
        \cup UNION {PeerEdges(policy, peer, pods, namespaces) :
                        peer \in {p \in policy.peers : p.direction \in policy.types}}

DrawPolicy ==
    /\ Doing("NetworkPolicy", {"NetworkPolicy"})
    /\ Draw("NetworkPolicy",
            PolicyEdges(This, FirstListed("Pod"), FirstListed("Namespace")), {})

EndpointEdge(reference) ==
    Edge(<<"Service", reference.service[1], reference.service[2]>>,
         <<"Pod", reference.service[1], reference.pod>>,
         reference.confidence)

DrawEndpoints ==
    /\ Doing("endpoints", {"endpoints"})
    /\ edges' = edges \cup
            Drawable({EndpointEdge(r) : r \in ToSet(endpoints.references)}, DOMAIN shown)
    /\ Proceed /\ UNCHANGED <<shown, resources, claimed, issues, summary>>

AddObject == AddNamespace \/ AddNode \/ AddPod \/ AddResource \/ AddUnjudged \/ AddCustomResource
DrawObject ==
    \/ DrawCustomResource \/ DrawWorkload \/ DrawPodOwners \/ DrawPod \/ DrawStorage
    \/ DrawIngress \/ DrawRoute \/ DrawAutoscaler \/ DrawPolicy

Next == AddObject \/ DrawObject \/ DrawEndpoints

Spec == Init /\ [][Next]_vars

-----------------------------------------------------------------------------
(* Properties *)

Done == todo = {}
Items == ToSet(objects)
Kinds == ToSet(NodeOrder)

\* The object that stands for an id: the first one listed with it.
Original(id) ==
    LET places == {i \in DOMAIN objects : objects[i].named /\ Id(objects[i]) = id}
    IN objects[CHOOSE i \in places : \A j \in places : i <= j]
Originals == {Original(Id(o)) : o \in {p \in Items : p.named}}

\* No object of the cluster disappears without a trace: it is the object its node shows, or
\* its kind has a diagnostic; and a kind has one only if something was wrong with an object
\* (addTrackedResourceNode and recordResourceIssue in buildKubernetesSnapshot).
EveryObjectIsShownOrCounted ==
    Done =>
        /\ \A o \in Originals : Id(o) \in resources /\ shown[Id(o)] = o
        /\ \A kind \in Kinds :
            issues[kind] = 0 <=>
                /\ \A i \in Listed(kind) : objects[i].named /\ (objects[i].ok \/ kind \in Unjudged)
                /\ \A i, j \in Listed(kind) : Id(objects[i]) = Id(objects[j]) => i = j

\* What an object says about its relations, whatever the order in which objects are read.
Relations(o) ==
    LET pods == {p \in Originals : p.kind = "Pod"}
        namespaces == {n \in Originals : n.kind = "Namespace"}
        checked == Via(o, {"binds-storage", "routes-to", "attaches-to", "routes-to-backend",
                           "targets-scale"})
    IN OwnerEdges(o)
        \cup EdgesOf(o, Via(o, {"references", "scheduled-on"}))
        \cup (IF o.spec THEN EdgesOf(o, checked) ELSE {})
        \cup (IF o.spec \/ o.kind = "Pod" THEN EdgesOf(o, Via(o, PodReferences)) ELSE {})
        \cup (IF o.kind = "Namespace" THEN {Edge(ClusterId, Id(o), "owns")} ELSE {})
        \cup (IF o.kind = "CustomResource" THEN OwnersOfCustomResource(o) ELSE {})
        \cup (IF o.kind = "NetworkPolicy" THEN PolicyEdges(o, pods, namespaces) ELSE {})
EndpointRelations == {EndpointEdge(r) : r \in ToSet(endpoints.references)}
AllRelations == EndpointRelations \cup UNION {Relations(o) : o \in Originals}

\* What an endpoint edge stands for: an endpoint of a slice, or a selector and the labels of
\* the Pod that is shown.
IsEndpoint(e) ==
    \/ /\ e.via = "observed"
       /\ \E s \in ToSet(slices) :
            /\ s.ok /\ e.from = <<"Service", s.ns, s.service>>
            /\ \E p \in ToSet(s.endpoints) : p.ok /\ e.to = <<"Pod", s.ns, p.pod>>
    \/ /\ e.via = "inferred"
       /\ \E s \in Items :
            /\ Id(s) = e.from /\ SupportsSelectorInference(s)
            /\ Matches(s.selector, Original(e.to).labels)

\* Every edge is a relation of the object that is shown, never of a rejected duplicate or of
\* an object with an invalid spec, and every placeholder is the end of such an edge
\* (claimResourceNode and the checks of the edge loops; docs/NEXT_WORK.md:34).
NoPhantoms ==
    /\ \A e \in edges : IsEndpoint(e) \/ \E o \in Originals : e \in Relations(o)
    /\ \A id \in DOMAIN shown \ {ClusterId} :
        id \notin resources => \E e \in edges : e.to = id

\* Every relation between two listed objects is drawn, whichever of them comes first. (One
\* whose target is a placeholder may be missing: see the README.)
NoRelationIsLost ==
    Done => Drawable(AllRelations, resources \cup {ClusterId}) \subseteq edges

\* The summary counts the objects that are nodes, a Service whose endpoints were not
\* observed counts the Pods it is joined to, and no Pod is joined to a Service twice
\* (mergeReferenceEndpointCounts and serviceEndpointReferencesFromObserved).
CountsMatchTheGraph ==
    LET nodesOf(kind) == {id \in resources : id[1] = kind}
        endpointsOf(id) == {e \in edges : e.from = id /\ e.via \in {"observed", "inferred"}}
    IN Done =>
        /\ summary =
            [namespaces |-> Cardinality(nodesOf("Namespace")),
             nodeTotal |-> Cardinality(nodesOf("Node")),
             nodeReady |-> Cardinality({id \in nodesOf("Node") : shown[id].ok /\ shown[id].ready}),
             podRunning |-> Cardinality({id \in nodesOf("Pod") : shown[id].ok /\ shown[id].running}),
             podWarning |-> Cardinality({id \in nodesOf("Pod") : ~shown[id].ready})]
        /\ \A id \in nodesOf("Service") :
            /\ endpoints.observed[<<id[2], id[3]>>].total = 0 =>
                endpoints.counts[<<id[2], id[3]>>].total = Cardinality(endpointsOf(id))
            /\ \A e, f \in endpointsOf(id) : e.to = f.to => e = f
=============================================================================
