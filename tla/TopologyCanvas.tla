---------------------------- MODULE TopologyCanvas ----------------------------
(***************************************************************************)
(* The topology map: the filters of useTopology choose the nodes and edges *)
(* of the snapshot, buildDisplayGraph hides system namespaces and, on      *)
(* demand, all that is not traffic, and buildFlowLayout gives what is left *)
(* its places. A place the reader dragged a node to is kept in the         *)
(* browser's storage, under a key made of the source and of all node ids   *)
(* of the filtered graph. The desktop map keeps places and toggles; the    *)
(* touch map has neither.                                                  *)
(*                                                                         *)
(* A node is a record: id, kind, cluster, ns, name, host (summary.node),   *)
(* status, words (the queries it matches) and rank (its place in the order *)
(* of "kind:namespace:name"). Names are numbers, ordered as the names are. *)
(* An edge is [source, target, type].                                      *)
(***************************************************************************)
EXTENDS Integers, FiniteSets, SequencesExt

CONSTANTS
    Snapshots,          \* what a source may show: [source, nodes, edges]
    Filters,            \* settings of the filter bar: [query, cluster, namespace, node, kind, status]
    SystemNamespaces,   \* names isSystemNamespace knows
    MaxRowsPerLane,     \* at least one
    DropPoints,         \* where a node may be dropped: [x, y]
    Draggable,          \* the nodes the reader drags
    MaxDrags,           \* bound of a behaviour: so many drags
    EarlierStores       \* what the browser's storage may hold at the start

None == 0               \* no namespace, no host
All == -1               \* a filter that lets all pass; its query is ""
AnyText == "all"        \* the same for kinds and states
Unreadable == [y |-> 0]          \* a stored place whose x is not a finite number

VARIABLES
    snapshot, filters,
    renderer,           \* "desktop", "mobile", or "closed" while another view is open
    hideSystemNamespaces, trafficOnly,
    savedPositions,     \* from node ids to places, of the map on screen
    stored,             \* localStorage: from keys to places
    drags

T == INSTANCE TrafficFlow

vars == <<snapshot, filters, renderer, hideSystemNamespaces, trafficOnly, savedPositions, stored, drags>>

-----------------------------------------------------------------------------
(* What the filters of useTopology let through *)

MatchesNamespaceFilter(node, namespace) ==
    \/ namespace = All
    \/ node.kind = "Namespace" /\ node.name = namespace
    \/ node.kind # "Namespace" /\ node.ns = namespace
    \/ node.ns = None /\ node.kind \in {"Cluster", "Node"}

MatchesNodeFilter(node, host) ==
    \/ host = All
    \/ node.kind \in {"Cluster", "Namespace"}
    \/ node.kind = "Node" /\ node.name = host
    \/ node.kind \notin {"Cluster", "Namespace", "Node"} /\ node.host = host

Matches(node, f) ==
    /\ f.query = "" \/ f.query \in node.words
    /\ f.cluster \in {All, node.cluster}
    /\ MatchesNamespaceFilter(node, f.namespace)
    /\ MatchesNodeFilter(node, f.node)
    /\ f.kind \in {AnyText, node.kind}
    /\ f.status \in {AnyText, node.status}

Ids(nodes) == {nodes[i].id : i \in DOMAIN nodes}
Within(edges, ids) == SelectSeq(edges, LAMBDA e : {e.source, e.target} \subseteq ids)

FilteredNodes(s, f) == SelectSeq(s.nodes, LAMBDA n : Matches(n, f))
FilteredEdges(s, f) == Within(s.edges, Ids(FilteredNodes(s, f)))

-----------------------------------------------------------------------------
(* buildDisplayGraph *)

NeverSystem == {"Cluster", "Node", "PersistentVolume", "StorageClass", "CustomResourceDefinition"}
IsSystemNode(node) ==
    /\ node.kind \notin NeverSystem
    /\ (IF node.kind = "Namespace" THEN node.name ELSE node.ns) \in SystemNamespaces

TrafficTypes == {"routes-to", "service-endpoint", "attaches-to", "allows-ingress", "allows-egress"}
ContextTypes == {"scheduled-on", "binds-storage", "env-from", "uses-service-account", "attaches-to"}
KeptTypes == TrafficTypes \cup ContextTypes
             \cup {"owns", "targets-scale", "applies-to", "references"}

TrafficEnds(edges) == UNION {{e.source, e.target} : e \in {x \in ToSet(edges) : x.type \in TrafficTypes}}

\* Mutant: what the traffic runs on is left out.
TrafficEndsOnly(edges) == TrafficEnds(edges)

\* One pass over the edges, in their order: what the pass has added counts at once.
TrafficIds(edges) ==
    FoldLeft(LAMBDA ids, e : IF e.source \in ids /\ e.type \in ContextTypes
                             THEN ids \cup {e.target} ELSE ids,
             TrafficEnds(edges), edges)

\* The clusters and, by name alone, the namespaces of the traffic's nodes.
WithContext(ids, nodes) ==
    LET traffic == {n \in ToSet(nodes) : n.id \in ids}
    IN ids \cup {n.id : n \in {m \in ToSet(nodes) :
            \/ m.kind = "Cluster" /\ m.cluster \in {t.cluster : t \in traffic}
            \/ m.kind = "Namespace" /\ m.name \in {t.ns : t \in traffic} \ {None}}}

DisplayGraph(nodes, edges, hideSystem, onlyTraffic) ==
    LET visible == IF hideSystem THEN SelectSeq(nodes, LAMBDA n : ~IsSystemNode(n)) ELSE nodes
        among == Within(edges, Ids(visible))
        kept == WithContext(TrafficIds(among), visible)
    IN IF onlyTraffic
       THEN [nodes |-> SelectSeq(visible, LAMBDA n : n.id \in kept),
             edges |-> SelectSeq(Within(among, kept), LAMBDA e : e.type \in KeptTypes)]
       ELSE [nodes |-> visible, edges |-> among]

-----------------------------------------------------------------------------
(* buildFlowLayout: places in pixels *)

flowNodeWidth == 220
flowNodeHeight == 106
rowStep == 134
wrappedColumnGap == 24
columnGap == 46
groupPadding == 30
namespaceGap == 58
clusterGap == 96

columnOrder == <<"scope", "ingress", "service", "workload", "pod", "policy", "config", "storage", "node">>

ColumnForKind(kind) ==
    CASE kind \in {"Cluster", "Namespace"} -> "scope"
      [] kind \in {"Ingress", "Gateway", "HTTPRoute", "GRPCRoute", "TLSRoute", "TCPRoute"} -> "ingress"
      [] kind \in {"Service", "EndpointSlice"} -> "service"
      [] kind \in {"Deployment", "ReplicaSet", "StatefulSet", "DaemonSet", "Job", "CronJob",
                   "HorizontalPodAutoscaler"} -> "workload"
      [] kind = "Pod" -> "pod"
      [] kind = "NetworkPolicy" -> "policy"
      [] kind \in {"ConfigMap", "Secret", "ServiceAccount", "CustomResourceDefinition",
                   "CustomResource"} -> "config"
      [] kind \in {"PersistentVolume", "PersistentVolumeClaim", "StorageClass"} -> "storage"
      [] OTHER -> "node"

AtLeast(a, b) == IF a >= b THEN a ELSE b
AtMost(a, b) == IF a <= b THEN a ELSE b

SortResources(nodes) == SortSeq(nodes, LAMBDA a, b : a.rank < b.rank)

\* A node where the reader left it, or else in the cell of the grid that is its turn's.
Placed(node, index, left, top, saved) ==
    LET lane == index \div MaxRowsPerLane
        row == index % MaxRowsPerLane
        cell == [x |-> left + lane * (flowNodeWidth + wrappedColumnGap), y |-> top + row * rowStep]
        place == IF node.id \in DOMAIN saved THEN saved[node.id] ELSE cell
    IN [node |-> node, x |-> place.x, y |-> place.y]

PlaceColumns(nodes, startX, startY, saved) ==
    LET column(done, c) ==
            LET members == SortResources(SelectSeq(nodes, LAMBDA n : ColumnForKind(n.kind) = c))
                wraps == AtLeast(1, (Len(members) + MaxRowsPerLane - 1) \div MaxRowsPerLane)
                rows == AtMost(MaxRowsPerLane, AtLeast(1, Len(members)))
            IN [resources |-> done.resources
                    \o [i \in DOMAIN members |-> Placed(members[i], i - 1, done.x, startY, saved)],
                height |-> AtLeast(done.height, flowNodeHeight + (rows - 1) * rowStep),
                x |-> done.x + wraps * flowNodeWidth + (wraps - 1) * wrappedColumnGap + columnGap]
    IN FoldLeft(column, [resources |-> <<>>, height |-> flowNodeHeight, x |-> startX], columnOrder)

BoundsForResources(resources, padding) ==
    LET xs == {r.x : r \in ToSet(resources)}
        ys == {r.y : r \in ToSet(resources)}
        left == Min(xs)
        top == Min(ys)
        right == Max(xs) + flowNodeWidth
        bottom == Max(ys) + flowNodeHeight
    IN [x |-> AtLeast(24, left - padding),
        y |-> AtLeast(18, top - padding - 30),
        width |-> AtLeast(320, right - left + padding * 2),
        height |-> AtLeast(180, bottom - top + padding * 2 + 34)]

Sorted(names) == SetToSortSeq(names, <)

NamespaceNames(nodes) ==
    {n.name : n \in {m \in ToSet(nodes) : m.kind = "Namespace"}}
        \cup ({n.ns : n \in {m \in ToSet(nodes) : m.kind # "Namespace"}} \ {None})

\* Mutant: the Namespace itself is left out of its box.
OnlyMembers(node, name) == node.ns = name

InNamespace(node, name) ==
    \/ node.ns = name
    \/ node.kind = "Namespace" /\ node.name = name

\* The box around what was placed of a namespace, and where the next one begins.
BoxNamespace(done, cluster, name, placement) ==
    LET bounds == BoundsForResources(placement.resources, groupPadding)
    IN [resources |-> done.resources \o placement.resources,
        boxes |-> Append(done.boxes, [cluster |-> cluster, ns |-> name,
                                      count |-> Len(placement.resources)] @@ bounds),
        y |-> AtLeast(done.y + placement.height + namespaceGap + 56,
                      bounds.y + bounds.height + namespaceGap)]

\* One namespace of a cluster, below what the cluster has placed already.
PlaceNamespace(done, cluster, name, nodes, saved) ==
    BoxNamespace(done, cluster, name,
                 PlaceColumns(SelectSeq(nodes, LAMBDA n : InNamespace(n, name)),
                              64, done.y + 56, saved))

\* Mutant: no room is made for what was dragged below the cluster.
NextRow(y, bounds) == y + clusterGap

\* Where the next cluster begins.
NextCluster(y, bounds) == AtLeast(y + clusterGap, bounds.y + bounds.height + clusterGap)

\* The box around what was placed of a cluster, and where the next one begins.
BoxCluster(done, cluster, placed) ==
    LET bounds == BoundsForResources(placed.resources, groupPadding + 28)
        box == [cluster |-> cluster, ns |-> None, count |-> Len(placed.resources),
                x |-> AtMost(24, bounds.x), y |-> done.y,
                width |-> AtLeast(bounds.width + AtLeast(0, bounds.x - 24), 1180),
                height |-> AtLeast(bounds.y + bounds.height - done.y + 30, 260)]
    IN [resources |-> done.resources \o placed.resources,
        boxes |-> <<box>> \o placed.boxes,
        y |-> NextCluster(placed.y, bounds)]

\* One cluster below the last: what has no namespace first, then its namespaces by name.
PlaceCluster(done, cluster, nodes, saved) ==
    LET members == SelectSeq(nodes, LAMBDA n : n.cluster = cluster)
        scoped == SelectSeq(members, LAMBDA n : n.ns = None /\ n.kind # "Namespace")
        scope == PlaceColumns(scoped, 64, done.y + 74, saved)
        start == [resources |-> scope.resources, boxes |-> done.boxes,
                  y |-> done.y + 74 + (IF scoped = <<>> THEN 0 ELSE scope.height + 42)]
    IN BoxCluster(done, cluster,
                  FoldLeft(LAMBDA d, name : PlaceNamespace(d, cluster, name, members, saved),
                           start, Sorted(NamespaceNames(members))))

FlowLayout(nodes, saved) ==
    FoldLeft(LAMBDA d, cluster : PlaceCluster(d, cluster, nodes, saved),
             [resources |-> <<>>, boxes |-> <<>>, y |-> 56],
             Sorted({n.cluster : n \in ToSet(nodes)}))

-----------------------------------------------------------------------------
(* What is on screen *)

NoPositions == [id \in {} |-> Unreadable]

\* positionStorageKey: the hash of the sorted ids stands for the set of them.
StorageKey(s, f) == <<s.source, Ids(FilteredNodes(s, f))>>

LoadSavedPositions(store, key) ==
    IF key \notin DOMAIN store THEN NoPositions
    ELSE [id \in {i \in DOMAIN store[key] : store[key][i] # Unreadable} |-> store[key][id]]

OnScreen ==
    LET touch == renderer = "mobile"
    IN DisplayGraph(FilteredNodes(snapshot, filters), FilteredEdges(snapshot, filters),
                    touch \/ hideSystemNamespaces, ~touch /\ trafficOnly)

Layout == FlowLayout(OnScreen.nodes, IF renderer = "mobile" THEN NoPositions ELSE savedPositions)

-----------------------------------------------------------------------------
\* A desktop map as it is mounted.
Mounted(s, f) ==
    /\ hideSystemNamespaces' = TRUE
    /\ trafficOnly' = FALSE
    /\ savedPositions' = LoadSavedPositions(stored, StorageKey(s, f))

Unmounted ==
    /\ hideSystemNamespaces' = TRUE
    /\ trafficOnly' = FALSE
    /\ savedPositions' = NoPositions

Init ==
    /\ snapshot \in Snapshots
    /\ filters \in Filters
    /\ renderer \in {"desktop", "mobile"}
    /\ hideSystemNamespaces = TRUE
    /\ trafficOnly = FALSE
    /\ stored \in EarlierStores
    /\ savedPositions = IF renderer = "desktop"
                        THEN LoadSavedPositions(stored, StorageKey(snapshot, filters))
                        ELSE NoPositions
    /\ drags = 0

\* The effect on the storage key: the places of the graph now on screen are read back.
Rekeyed ==
    LET key == StorageKey(snapshot, filters)
        next == StorageKey(snapshot', filters')
    IN savedPositions' = IF renderer = "desktop" /\ next # key
                         THEN LoadSavedPositions(stored, next) ELSE savedPositions

\* A refresh, an upload or another source.
ShowSnapshot ==
    /\ snapshot' \in Snapshots \ {snapshot}
    /\ UNCHANGED filters
    /\ Rekeyed
    /\ UNCHANGED <<renderer, hideSystemNamespaces, trafficOnly, stored, drags>>

SetFilters ==
    /\ filters' \in Filters \ {filters}
    /\ UNCHANGED snapshot
    /\ Rekeyed
    /\ UNCHANGED <<renderer, hideSystemNamespaces, trafficOnly, stored, drags>>

LeaveMap ==
    /\ renderer # "closed"
    /\ renderer' = "closed"
    /\ Unmounted
    /\ UNCHANGED <<snapshot, filters, stored, drags>>

OpenDesktopMap ==
    /\ renderer # "desktop"
    /\ renderer' = "desktop"
    /\ Mounted(snapshot, filters)
    /\ UNCHANGED <<snapshot, filters, stored, drags>>

\* The pointer is, or has become, a coarse one.
OpenTouchMap ==
    /\ renderer # "mobile"
    /\ renderer' = "mobile"
    /\ Unmounted
    /\ UNCHANGED <<snapshot, filters, stored, drags>>

\* The toolbar and the nodes are there only while the map has something to show.
MapIsUsable == renderer = "desktop" /\ OnScreen.nodes # <<>>

\* Mutant: only the node just moved is written.
SaveOnlyThis(id, point) ==
    /\ savedPositions' = (id :> point) @@ savedPositions
    /\ stored' = (StorageKey(snapshot, filters) :> (id :> point)) @@ stored

SaveNodePosition(id, point) ==
    LET next == (id :> point) @@ savedPositions
    IN /\ savedPositions' = next
       /\ stored' = (StorageKey(snapshot, filters) :> next) @@ stored

DragStop ==
    /\ MapIsUsable
    /\ drags < MaxDrags
    /\ \E id \in Draggable \cap Ids(OnScreen.nodes), point \in DropPoints :
            SaveNodePosition(id, point)
    /\ drags' = drags + 1
    /\ UNCHANGED <<snapshot, filters, renderer, hideSystemNamespaces, trafficOnly>>

ResetLayout ==
    /\ MapIsUsable
    /\ stored' = [k \in DOMAIN stored \ {StorageKey(snapshot, filters)} |-> stored[k]]
    /\ savedPositions' = LoadSavedPositions(stored', StorageKey(snapshot, filters))
    /\ UNCHANGED <<snapshot, filters, renderer, hideSystemNamespaces, trafficOnly, drags>>

ToggleTrafficOnly ==
    /\ MapIsUsable
    /\ trafficOnly' = ~trafficOnly
    /\ UNCHANGED <<snapshot, filters, renderer, hideSystemNamespaces, savedPositions, stored, drags>>

ToggleSystemNamespaces ==
    /\ MapIsUsable
    /\ hideSystemNamespaces' = ~hideSystemNamespaces
    /\ UNCHANGED <<snapshot, filters, renderer, trafficOnly, savedPositions, stored, drags>>

Next ==
    \/ ShowSnapshot \/ SetFilters
    \/ LeaveMap \/ OpenDesktopMap \/ OpenTouchMap
    \/ DragStop \/ ResetLayout \/ ToggleTrafficOnly \/ ToggleSystemNamespaces

Spec == Init /\ [][Next]_vars
-----------------------------------------------------------------------------
Free == {id \in Ids(OnScreen.nodes) : renderer = "mobile" \/ id \notin DOMAIN savedPositions}

Apart(a, b) ==
    \/ a.x + flowNodeWidth =< b.x \/ b.x + flowNodeWidth =< a.x
    \/ a.y + flowNodeHeight =< b.y \/ b.y + flowNodeHeight =< a.y

\* Wherever the reader has dragged other nodes, two nodes left in their places do not cover
\* one another, and the boxes of two clusters do not.
NothingOverlaps ==
    renderer # "closed" =>
        LET layout == Layout
            free == {r \in ToSet(layout.resources) : r.node.id \in Free}
            clusters == {box \in ToSet(layout.boxes) : box.ns = None}
        IN /\ \A r, other \in free : r # other => Apart(r, other)
           /\ \A box, other \in clusters :
                box # other => \/ box.y + box.height =< other.y
                               \/ other.y + other.height =< box.y

Members(nodes, box) ==
    {n \in nodes : n.cluster = box.cluster /\ (box.ns = None \/ InNamespace(n, box.ns))}

\* Every node of the graph on screen has one place, in the boxes of its cluster and of its
\* namespace, which count it and reach around it as far as the map begins (24, 18), or for a
\* cluster the row it begins at.
EveryNodeHasItsPlace ==
    renderer # "closed" =>
        LET layout == Layout
            nodes == ToSet(OnScreen.nodes)
            boxes == ToSet(layout.boxes)
            place(n) == CHOOSE r \in ToSet(layout.resources) : r.node = n
        IN /\ Len(layout.resources) = Cardinality(nodes)
           /\ {r.node : r \in ToSet(layout.resources)} = nodes
           /\ \A n \in nodes : \E box \in boxes :
                n \in Members(nodes, box) /\ (box.ns = None <=> n.ns = None /\ n.kind # "Namespace")
           /\ \A box \in boxes :
                /\ box.count = Cardinality(Members(nodes, box))
                /\ \A n \in Members(nodes, box) :
                    LET r == place(n)
                    IN /\ r.x >= 24 => box.x =< r.x
                       /\ r.y >= (IF box.ns = None THEN box.y ELSE 18) => box.y =< r.y
                       /\ r.x + flowNodeWidth =< box.x + box.width
                       /\ r.y + flowNodeHeight =< box.y + box.height

\* The map looks as it would after a reload: the places it uses are those stored for the
\* graph it shows, whatever was dragged, reset, filtered, refreshed or closed before.
MapIsAsStored ==
    renderer = "desktop" =>
        savedPositions = LoadSavedPositions(stored, StorageKey(snapshot, filters))

\* A step leaves the places kept for other graphs alone; of the graph on screen it forgets
\* all places at once, or moves one node and keeps the other readable places.
PlaceIsKept ==
    \A key \in DOMAIN stored :
        \/ key \in DOMAIN stored' /\ stored'[key] = stored[key]
        \/ /\ key = StorageKey(snapshot, filters)
           /\ \/ key \notin DOMAIN stored'
              \/ \E id \in DOMAIN stored'[key] :
                    \A other \in DOMAIN LoadSavedPositions(stored, key) \ {id} :
                        other \in DOMAIN stored'[key] /\ stored'[key][other] = stored[key][other]

Flows == T!TrafficFlows(snapshot.nodes, snapshot.edges)
Hops == {"routes-to", "service-endpoint", "scheduled-on"}
HopIn(a, b, edges) == \E e \in edges : e.source = a /\ e.target = b /\ e.type \in Hops

\* No Service is left out of the traffic view: it is on a path, every route to it is on one
\* with every endpoint of it, and a path is blocked exactly if its Service has no endpoint.
\* Each hop of a path is an edge of the graph that the path gives as evidence.
EveryServiceHasItsPaths ==
    LET flows == Flows
        edges == ToSet(snapshot.edges)
        routes == {e \in edges : e.type = "routes-to"}
        endpoints == {e \in edges : e.type = "service-endpoint"}
    IN /\ \A n \in ToSet(snapshot.nodes) :
            n.kind = "Service" => \E f \in flows : n.id \in ToSet(f.steps)
       /\ \A r \in routes, e \in endpoints :
            r.target = e.source =>
                \E f \in flows : IsPrefix(<<r.source, r.target, e.target>>, f.steps)
       /\ \A e \in endpoints : \E f \in flows : {e.source, e.target} \subseteq ToSet(f.steps)
       /\ \A f \in flows :
            /\ f.blocked <=> {e.source : e \in endpoints} \cap ToSet(f.steps) = {}
            /\ f.evidence \subseteq edges
            /\ \A i \in 1..(Len(f.steps) - 1) : HopIn(f.steps[i], f.steps[i + 1], f.evidence)

\* The map agrees with the traffic view: with traffic only it still shows, whole and joined,
\* every open path the filters and the system toggle let through.
MapShowsEveryPath ==
    renderer = "desktop" /\ trafficOnly =>
        LET graph == DisplayGraph(FilteredNodes(snapshot, filters),
                                  FilteredEdges(snapshot, filters), hideSystemNamespaces, FALSE)
            seen == OnScreen
        IN \A f \in Flows :
            ~f.blocked /\ ToSet(f.steps) \subseteq Ids(graph.nodes) =>
                /\ ToSet(f.steps) \subseteq Ids(seen.nodes)
                /\ \A i \in 1..(Len(f.steps) - 1) :
                        HopIn(f.steps[i], f.steps[i + 1], ToSet(seen.edges))
=============================================================================
