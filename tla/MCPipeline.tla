----------------------------- MODULE MCPipeline -----------------------------
(***************************************************************************)
(* How the server reads a cluster: one list request with its pages         *)
(* (KubeList), the collection of all lists into a snapshot                 *)
(* (SnapshotCollection), for which a list is complete, refused or failed:  *)
(* what AllOrNothing promises of the first, and the graph that is built    *)
(* from the lists of a snapshot (SnapshotGraph). A behaviour is one of the *)
(* three, and what belongs to the others is idle.                          *)
(*                                                                         *)
(* The server holds every collection of up to two pages of 0 to 2 items    *)
(* and 1 to 3 bytes, or of three or four of a few kinds; some of them run  *)
(* into the limits. The snapshot has three optional lists and up to two    *)
(* kinds of custom resources, and a definition that is skipped. The lists  *)
(* hold up to Size objects.                                                *)
(***************************************************************************)
EXTENDS SnapshotCollection, SequencesExt

CONSTANTS
    crds, services, jobs, c1, c2, c3,
    Versions, Collections, MaxPages, MaxItems, MaxPageBytes, MaxTotalBytes, Optional,
    Size, nopod,                                            \* the catalogue of objects
    Listings, Slicings, MaxIssues, MaxVisits, MaxReferences, MaxComparisons, NoPod \* SnapshotGraph

\* A list has at least one page.
ASSUME PipelineAssumption ==
    /\ Versions \in Seq(STRING) /\ Versions # <<>>
    /\ \A c \in Collections : c \in Seq([items : Nat, bytes : Nat]) /\ c # <<>>
    /\ {MaxPages, MaxItems, MaxPageBytes, MaxTotalBytes} \subseteq Nat
    /\ Optional \in BOOLEAN

VARIABLES
    part,       \* "list", "collection" or "graph"
    collection, honest, attempt, pageIndex, nextToken, seenTokens, items, count,
    totalBytes, out, requested,     \* KubeList, beside result
    objects, slices, todo, shown, resources, edges, claimed, issues, summary,
    endpoints                       \* SnapshotGraph

L == INSTANCE KubeList
G == INSTANCE SnapshotGraph

ThreeTasks == {crds, services, jobs}
\* The third has no valid path.
ThreeCustom == {c1, c2, c3}
TwoListable == {c1, c2}

GatewayVersions == <<"v1", "v1alpha2">>

Page == [items : 0..2, bytes : 1..3]

\* An empty page, a full one and one that is too large.
SomePages == {[items |-> 0, bytes |-> 2], [items |-> 2, bytes |-> 1],
              [items |-> 1, bytes |-> 3]}

SmallCollections == UNION {[1..n -> Page] : n \in 1..2} \cup
                    UNION {[1..n -> SomePages] : n \in 3..4}

ASSUME GraphAssumption ==
    /\ MaxIssues \in Nat \ {0} /\ {MaxVisits, MaxReferences, MaxComparisons} \subseteq Nat
    /\ \A listing \in Listings : G!IsListing(listing)
    /\ \A slicing \in Slicings : G!IsSlicing(slicing)

-----------------------------------------------------------------------------
(* A small catalogue of objects, and every cluster that lists at most Size of them. Lists *)
(* of different kinds are fetched apart, so only the order within a kind is varied.       *)

Object(kind, ns, name) ==
    [kind |-> kind, ns |-> ns, name |-> name, named |-> TRUE, ok |-> TRUE, spec |-> TRUE,
     refs |-> {}, labels |-> {}, ready |-> TRUE, running |-> TRUE, selector |-> {}, types |-> {},
     peers |-> {}]
Ref(via, kind, name) == [via |-> via, kind |-> kind, ns |-> "n", name |-> name]

Namespace == [Object("Namespace", "", "n") EXCEPT !.labels = {"x"}]
Node == Object("Node", "", "node")
Deployment ==
    [Object("Deployment", "n", "d") EXCEPT
        !.refs = {Ref("uses-service-account", "ServiceAccount", "sa"), Ref("env-from", "Secret", "s")}]
ReplicaSet ==
    [Object("ReplicaSet", "n", "r") EXCEPT
        !.refs = {Ref("owner", "Deployment", "d"), Ref("mounts", "ConfigMap", "c")}]
Autoscaler ==
    [Object("HorizontalPodAutoscaler", "n", "h") EXCEPT
        !.refs = {Ref("targets-scale", "Deployment", "d")}]
Definition == Object("CustomResourceDefinition", "", "widgets")
Custom ==
    [Object("CustomResource", "n", "Widget:w") EXCEPT
        !.refs = {Ref("crd", "CustomResourceDefinition", "widgets"), Ref("references", "Service", "s")}]
Volume == [Object("PersistentVolume", "", "v") EXCEPT !.refs = {Ref("binds-storage", "StorageClass", "f")}]
Claim == [Object("PersistentVolumeClaim", "n", "p") EXCEPT !.refs = {Ref("binds-storage", "PersistentVolume", "v")}]
Service == [Object("Service", "n", "s") EXCEPT !.selector = {"x"}]
Ingress == [Object("Ingress", "n", "i") EXCEPT !.refs = {Ref("routes-to", "Service", "s")}]
Route ==
    [Object("HTTPRoute", "m", "h") EXCEPT
        !.refs = {Ref("attaches-to", "Gateway", "g"), Ref("routes-to-backend", "Service", "s")}]
Policy ==
    [Object("NetworkPolicy", "n", "np") EXCEPT
        !.selector = {"x"}, !.types = {"allows-ingress"},
        !.peers = {[direction |-> "allows-ingress", pods |-> <<>>, namespaces |-> <<{"x"}>>],
                   [direction |-> "allows-ingress", pods |-> <<{}>>, namespaces |-> <<>>],
                   [direction |-> "allows-egress", pods |-> <<{"x"}>>, namespaces |-> <<{}>>]}]
Pod ==
    [Object("Pod", "n", "p") EXCEPT
        !.labels = {"x"},
        !.refs = {Ref("owner", "ReplicaSet", "r"), Ref("scheduled-on", "Node", "node"),
                  Ref("uses-service-account", "ServiceAccount", "sa"),
                  Ref("mounts", "PersistentVolumeClaim", "p")}]

Broken(o) == [o EXCEPT !.ok = FALSE, !.spec = FALSE]
Sick(o) == [o EXCEPT !.ok = FALSE, !.ready = FALSE]
Unnamed(o) == [o EXCEPT !.name = "", !.named = FALSE]

Catalogue ==
    {Namespace, [Namespace EXCEPT !.labels = {}], Unnamed(Namespace), Node, Sick(Node),
     Deployment, Broken(Deployment), Unnamed(Deployment), ReplicaSet, Autoscaler, Broken(Autoscaler),
     Object("ServiceAccount", "n", "sa"), Object("ConfigMap", "n", "c"),
     Object("StorageClass", "", "f"), Definition, Custom, Unnamed(Custom), Volume, Claim, Sick(Claim), Broken(Claim),
     Service, [Service EXCEPT !.selector = {}], Ingress, Broken(Ingress),
     Object("Gateway", "n", "g"), Route, Broken(Route), Policy, [Policy EXCEPT !.selector = {}, !.types = {"allows-egress"}],
     Pod, [Sick(Pod) EXCEPT !.labels = {}, !.refs = {}], [Pod EXCEPT !.name = "q", !.ready = FALSE, !.running = FALSE],
     Unnamed(Pod)}

CatalogueKinds ==
    <<"Namespace", "Node", "Deployment", "ReplicaSet", "HorizontalPodAutoscaler", "ServiceAccount",
      "ConfigMap", "StorageClass", "CustomResourceDefinition", "CustomResource", "PersistentVolume",
      "PersistentVolumeClaim", "Service", "Ingress", "Gateway", "HTTPRoute", "NetworkPolicy", "Pod">>
Rank(o) == CHOOSE i \in DOMAIN CatalogueKinds : CatalogueKinds[i] = o.kind

\* Up to Size objects of the catalogue, the kinds in one fixed order.
Clusters ==
    {s \in BoundedSeq(Catalogue, Size) : \A i \in 2..Len(s) : Rank(s[i - 1]) <= Rank(s[i])}

Endpoint(id, pod, ok) == [id |-> id, pod |-> pod, ok |-> ok, ready |-> TRUE]
Slice(name, some) == [ns |-> "n", name |-> name, service |-> "s", ok |-> TRUE, endpoints |-> some]
\* None; the Pod q with an address and an invalid endpoint, listed twice; more Pods than
\* there may be references; more endpoints than may be visited.
EndpointSlices ==
    LET q == Endpoint("q", "q", TRUE)
        p == Endpoint("p", "p", TRUE)
        z == Endpoint("z", "z", TRUE)
        address == Endpoint("10.0.0.1", nopod, TRUE)
        invalid == Endpoint("", nopod, FALSE)
    IN {<<>>,
        <<Slice("a", <<q, address, invalid>>), Slice("b", <<q>>), Slice("a", <<p>>)>>,
        <<Slice("a", <<p, q, z>>), Slice("b", <<p>>)>>,
        <<[Slice("a", <<p>>) EXCEPT !.ok = FALSE], Slice("b", <<q>>), Slice("c", <<p, q, z, address>>)>>}

-----------------------------------------------------------------------------
listOnly == <<collection, honest, attempt, pageIndex, nextToken, seenTokens, items, count,
              totalBytes, out, requested>>
collectionOnly == <<concurrency, phase, required, goroutine, taskError, list, refused,
                    defined, ctxDone, diagnostics>>
graphOnly == <<objects, slices, todo, shown, resources, edges, claimed, issues, summary, endpoints>>
pipeline == <<part, listOnly, collectionOnly, result, graphOnly>>

Idle == "idle"
ListIdle ==
    /\ collection = Idle /\ honest = Idle /\ attempt = Idle /\ pageIndex = Idle
    /\ nextToken = Idle /\ seenTokens = Idle /\ items = Idle /\ count = Idle
    /\ totalBytes = Idle /\ out = Idle /\ requested = Idle
CollectionIdle ==
    /\ concurrency = Idle /\ phase = Idle /\ required = Idle /\ goroutine = Idle
    /\ taskError = Idle /\ list = Idle /\ refused = Idle /\ defined = Idle
    /\ ctxDone = Idle /\ diagnostics = Idle
GraphIdle ==
    /\ objects = Idle /\ slices = Idle /\ todo = Idle /\ shown = Idle /\ resources = Idle
    /\ edges = Idle /\ claimed = Idle /\ issues = Idle /\ summary = Idle /\ endpoints = Idle

PipelineInit ==
    \/ part = "list" /\ L!Init /\ CollectionIdle /\ GraphIdle
    \/ part = "collection" /\ Init /\ ListIdle /\ GraphIdle
    \/ part = "graph" /\ G!Init /\ ListIdle /\ CollectionIdle /\ result = Idle

ListStep == part = "list" /\ L!Next /\ UNCHANGED <<part, collectionOnly, graphOnly>>
CollectionStep(step) == part = "collection" /\ step /\ UNCHANGED <<part, listOnly, graphOnly>>
GraphStep == part = "graph" /\ G!Next /\ UNCHANGED <<part, listOnly, collectionOnly, result>>

PipelineNext == ListStep \/ CollectionStep(Next) \/ GraphStep

\* The fairness of the first two; a graph is built in one go.
PipelineSpec ==
    /\ PipelineInit /\ [][PipelineNext]_pipeline
    /\ WF_pipeline(ListStep)
    /\ WF_pipeline(CollectionStep(Main))
    /\ \A t \in AllTasks : WF_pipeline(CollectionStep(Goroutine(t)))

-----------------------------------------------------------------------------
\* A list reaches its caller complete and in order, or not at all: nothing that was read
\* before an error, a limit or a switch of API version is merged into a snapshot.
AllOrNothing == part = "list" => L!AllOrNothing

\* A list that a snapshot lacks is reported by a diagnostic, unless the API server refused it
\* with a 404 or a 403 or its definition has no valid path: of these, and of no others, the
\* snapshot says nothing. The merged diagnostics of custom resources say how many failed.
OnlyRefusalsAreSilent == part = "collection" => FailedListsAreReported /\ CountsAddUp

\* What a cluster can make the server hold and ask for is limited: pages, items and bytes
\* of a list, no continue token twice, and concurrent requests of a snapshot.
LimitsHold ==
    /\ part = "list" => L!WithinLimits /\ L!NoTokenSentTwice
    /\ part = "collection" => BoundedConcurrency

\* Every list request ends, even against a server that never stops paging, and Snapshot
\* returns: no goroutine waits for a slot that is never freed.
CallsEnd ==
    /\ (part = "list") => L!Terminates
    /\ (part = "collection") => Returns

\* No object of a cluster disappears without a trace: it is the object its node shows or is
\* counted as an issue of its kind, and the summary and the endpoint counts agree with the
\* nodes and the edges.
EveryObjectIsAccountedFor ==
    part = "graph" => G!EveryObjectIsShownOrCounted /\ G!CountsMatchTheGraph

\* Every relation between two listed objects is drawn, whatever the order of the lists, and
\* nothing is drawn without a reason: an edge is a relation of the objects that are shown.
TheRelationsAreDrawn == part = "graph" => G!NoRelationIsLost /\ G!NoPhantoms
=============================================================================
