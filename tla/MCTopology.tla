------------------------------ MODULE MCTopology ------------------------------
(***************************************************************************)
(* From uploaded files to what a user sees of them: the browser's graph of *)
(* the objects in the files (Upload), the two readings of one manifest on  *)
(* which it and the server's graph rest (Manifests), and the map and the   *)
(* request paths drawn from a graph (TopologyCanvas). They share no state  *)
(* in the program, but the graph that is handed to the last: a behaviour   *)
(* is one of the three, and what belongs to the others is idle.            *)
(***************************************************************************)
EXTENDS Integers, FiniteSets, SequencesExt

CONSTANTS
    MaxSelector, MaxTraversalDepth, MaxVisitedValues,       \* Upload
    NativeKinds, ClusterScopedKinds, Uploads, ClusterName,
    MaxReferences, UploadSize,
    Cap, MaxCount, Schemas, Fresh, Values, MaxEdits,        \* Manifests
    Snapshots, Filters, SystemNamespaces, MaxRowsPerLane, DropPoints, Draggable, MaxDrags,
    EarlierStores                                           \* TopologyCanvas

VARIABLES
    part,                               \* which of the three this behaviour is of
    chosen, files, objects, warnings, todo, shown, edges, outcome,  \* Upload
    schema, manifest, edits,            \* Manifests
    snapshot, filters, renderer, hideSystemNamespaces, trafficOnly, savedPositions, stored,
    drags                               \* TopologyCanvas

U == INSTANCE Upload
M == INSTANCE Manifests
K == INSTANCE TopologyCanvas

D == INSTANCE ManifestCatalogue WITH Size <- UploadSize, Absent <- -1, Malformed <- -2   \* as in M

Natives == D!Natives
ClusterScoped == D!ClusterScoped
AllUploads == D!AllUploads
CollectionLimits == D!CollectionLimits
AllSchemas == D!AllSchemas
FreshManifests == D!FreshManifests
FieldValues == D!FieldValues

-----------------------------------------------------------------------------
(* What a map is drawn of: a shop with all or all but one of its optional edges, a batch   *)
(* cluster without traffic, and two clusters with a namespace of one name.                 *)

\* What they are in K, which is given values made of them.
None == 0
All == -1
AnyText == "all"
Unreadable == [y |-> 0]
NoPositions == [id \in {} |-> Unreadable]

N(id, kind, cluster, ns, name, host, status, rank) ==
    [id |-> id, kind |-> kind, cluster |-> cluster, ns |-> ns, name |-> name, host |-> host,
     status |-> status, words |-> IF kind = "Pod" THEN {"pod"} ELSE {}, rank |-> rank]
E(source, type, target, confidence) ==
    [source |-> source, type |-> type, target |-> target, confidence |-> confidence]

ShopNodes ==
    <<N("cluster", "Cluster", 1, None, 1, None, "healthy", 1),
      N("shop", "Namespace", 1, None, 1, None, "healthy", 4),
      N("worker", "Node", 1, None, 1, None, "warning", 5),
      N("web", "Service", 1, 1, 3, None, "healthy", 9),
      N("gate", "Gateway", 1, 1, 2, None, "healthy", 2),
      N("route", "HTTPRoute", 1, 1, 2, None, "healthy", 3),
      N("pod2", "Pod", 1, 1, 5, 1, "error", 7),
      N("pod1", "Pod", 1, 1, 4, 1, "healthy", 6),
      N("dns", "Pod", 1, 2, 6, 1, "healthy", 8),
      N("silent", "Service", 1, 1, 9, None, "unknown", 10)>>

ShopEdges ==
    <<E("pod1", "scheduled-on", "worker", "observed"),
      E("pod2", "scheduled-on", "worker", "observed"),
      E("route", "attaches-to", "gate", "observed"),
      E("route", "routes-to", "web", "observed"),
      E("web", "service-endpoint", "pod1", "inferred"),
      E("web", "service-endpoint", "pod2", "inferred"),
      E("silent", "service-endpoint", "dns", "inferred")>>

\* Its Pods are scheduled and its route has a Gateway; whether the route leads to the
\* Service, and which Services have endpoints, is open.
Optional == {<<"route", "routes-to">>, <<"web", "service-endpoint">>, <<"silent", "service-endpoint">>}
Shops == {[source |-> "live", nodes |-> ShopNodes,
           edges |-> SelectSeq(ShopEdges, LAMBDA e : <<e.source, e.type>> \notin missing)] :
              missing \in {m \in SUBSET Optional : Cardinality(m) < 2}}

Batch == [source |-> "upload",
          nodes |-> <<N("cluster", "Cluster", 1, None, 1, None, "healthy", 1),
                      N("jobs", "Namespace", 1, None, 4, None, "healthy", 3),
                      N("deploy", "Deployment", 1, 4, 1, None, "healthy", 2),
                      N("pod1", "Pod", 1, 4, 1, None, "unknown", 4),
                      N("pod2", "Pod", 1, 4, 2, None, "unknown", 5),
                      N("pod3", "Pod", 1, 4, 3, None, "unknown", 6)>>,
          edges |-> <<E("deploy", "owns", "pod1", "observed")>>]

Twins == [source |-> "mock",
          nodes |-> <<N("cluster", "Cluster", 1, None, 1, None, "healthy", 1),
                      N("pod1", "Pod", 1, 4, 4, None, "healthy", 5),
                      N("cluster2", "Cluster", 2, None, 2, None, "healthy", 2),
                      N("ns2", "Namespace", 2, None, 4, None, "healthy", 3),
                      N("policy", "NetworkPolicy", 2, 4, 5, None, "healthy", 4),
                      N("pod2", "Pod", 2, 4, 6, None, "healthy", 6),
                      N("web", "Service", 2, 4, 7, None, "healthy", 7)>>,
          edges |-> <<E("policy", "applies-to", "pod2", "inferred"),
                      E("policy", "allows-ingress", "pod2", "inferred"),
                      E("web", "service-endpoint", "pod2", "inferred")>>]

SomeSnapshots == Shops \cup {Batch, Twins}

Widest == [query |-> "", cluster |-> All, namespace |-> All, node |-> All,
           kind |-> AnyText, status |-> AnyText]
SomeFilters == {Widest, [Widest EXCEPT !.namespace = 1, !.node = 1],
                [Widest EXCEPT !.query = "pod", !.status = "healthy"]}

\* Far to the left of everything, and far below it.
SomePoints == {[x |-> -400, y |-> 20], [x |-> 300, y |-> 2000]}

\* Nothing, or places for two nodes of the batch cluster, one of them damaged.
SomeStores ==
    {[key \in {} |-> NoPositions],
     <<Batch.source, {n.id : n \in ToSet(Batch.nodes)}>> :>
        (("pod1" :> [x |-> 700, y |-> -50]) @@ ("pod2" :> Unreadable))}

-----------------------------------------------------------------------------
uploadOnly == <<chosen, files, objects, warnings, todo, shown, edges, outcome>>
manifestOnly == <<schema, manifest, edits>>
mapOnly == <<snapshot, filters, renderer, hideSystemNamespaces, trafficOnly, savedPositions, stored,
             drags>>

Idle == "idle"
UploadIdle == chosen = Idle /\ files = Idle /\ objects = Idle /\ warnings = Idle /\ todo = Idle
              /\ shown = Idle /\ edges = Idle /\ outcome = Idle
ManifestIdle == schema = Idle /\ manifest = Idle /\ edits = Idle
MapIdle == snapshot = Idle /\ filters = Idle /\ renderer = Idle /\ hideSystemNamespaces = Idle
           /\ trafficOnly = Idle /\ savedPositions = Idle /\ stored = Idle /\ drags = Idle

TopologyInit ==
    \/ part = "upload" /\ U!Init /\ ManifestIdle /\ MapIdle
    \/ part = "manifest" /\ M!Init /\ UploadIdle /\ MapIdle
    \/ part = "map" /\ K!Init /\ UploadIdle /\ ManifestIdle

TopologyNext ==
    \/ part = "upload" /\ U!Next /\ UNCHANGED <<part, manifestOnly, mapOnly>>
    \/ part = "manifest" /\ M!Next /\ UNCHANGED <<part, uploadOnly, mapOnly>>
    \/ part = "map" /\ K!Next /\ UNCHANGED <<part, uploadOnly, manifestOnly>>

all == <<part, uploadOnly, manifestOnly, mapOnly>>

TopologySpec == TopologyInit /\ [][TopologyNext]_all

-----------------------------------------------------------------------------
\* Every document of an upload that says its kind and its name is a node or leaves a warning,
\* and is related as its manifest says: every relation between two uploaded objects is drawn, whatever
\* the order of the manifests and the files, and a NetworkPolicy is joined to the Pods its
\* peers select and to no other.
UploadsAreWhole ==
    part = "upload" =>
        /\ U!EveryDocumentIsAccountedFor
        /\ U!NoRelationIsLost /\ U!PeersAreTheAllowed

\* The upload parser and the server read a manifest alike: both accept it or neither does,
\* they draw the same relations from it and give it the same status, apart from the
\* differences Manifests names.
ReadersAgree == part = "manifest" => M!SameVerdict /\ M!SameStatus

\* Wherever the reader has dragged other nodes, two nodes left in their places do not cover
\* one another, and the boxes of two clusters do not. Every node on screen has one place, in
\* the boxes of its cluster and of its namespace, which count it and reach around it.
TheMapIsReadable == part = "map" => K!NothingOverlaps /\ K!EveryNodeHasItsPlace

\* The map looks as it would after a reload, whatever was dragged, reset, filtered, refreshed
\* or closed before. A step leaves the places kept for other graphs alone; of the graph on
\* screen it forgets all places at once, or moves one node and keeps the others.
PlacesAreKept ==
    /\ [](part = "map" => K!MapIsAsStored)
    /\ [][part = "map" => K!PlaceIsKept]_all

\* No Service is left out of the traffic view, every route to it is on a path with every
\* endpoint of it, and each hop is an edge given as evidence; and the map, with traffic only,
\* shows every open path whole.
EveryPathIsShown == part = "map" => K!EveryServiceHasItsPaths /\ K!MapShowsEveryPath
=============================================================================
