-------------------------- MODULE SnapshotComparison --------------------------
(***************************************************************************)
(* The comparison of two snapshots in one browser: compareSnapshots.ts,    *)
(* snapshotComparisonView.ts, exportSnapshotDiff.ts and                    *)
(* importSnapshotDiff.ts (features/snapshot) with the panel that drives    *)
(* them (components/SnapshotComparePanel.tsx).                             *)
(*                                                                         *)
(* A snapshot has three functions from ids, which are unique in it, to     *)
(* clusters, nodes and edges.  Labels, owners, versions and the like are   *)
(* tokens; of annotations and summaries the keys and the values are told   *)
(* apart, for some comparisons see the keys only.  The id of a node or an  *)
(* edge stands for its cluster and namespace.  The order of a list of      *)
(* changes, the labels of both snapshots in a report, which are cut to     *)
(* what an import takes, and the bounds of its times and counts are left   *)
(* out.                                                                    *)
(***************************************************************************)
EXTENDS Naturals, FiniteSets

CONSTANTS
    Snapshots,      \* the snapshots that are compared
    Queries,        \* the words that may be searched for, "" among them
    MaxDiffItems,       \* MAX_DIFF_ITEMS, 5000 in the code
    MaxDiffFileBytes,   \* MAX_DIFF_FILE_BYTES, 2,000,000
    MaxRelationTypes,   \* MAX_RELATION_TYPES, 100
    FileBytes(_),       \* the size of the file that a report is written to
    Unfit               \* pairs of a field and a text that safeString refuses for it

VARIABLES
    baseline,       \* baseline.snapshot
    current,        \* currentSnapshot
    scope,          \* scope: resources, relations or clusters
    changeFilter,   \* changeFilter: all or a type of change
    query,          \* query
    selected        \* selectedRelationTypes, empty for all

pair == <<baseline, current>>
filters == <<scope, changeFilter, query>>
vars == <<pair, filters, selected>>

Scopes == {"resources", "relations", "clusters"}
Types == {"added", "removed", "changed"}

Nothing == [k \in {} |-> k]
NoStatus == ""
NoQuery == ""
Empty == [clusters |-> Nothing, nodes |-> Nothing, edges |-> Nothing]

----------------------------------------------------------------------------
(* compareTopologySnapshots *)

Differing(p, q, fields) == {f \in fields : p[f] # q[f]}

\* The values of a Secret's summary are never compared.
SafeSummary(n) == IF n.kind = "Secret" THEN n.summary.keys ELSE n.summary

ChangedNodeFields(p, q) ==
    Differing(p, q, {"status", "labels", "owners"})
    \cup (IF p.annotations.keys # q.annotations.keys THEN {"annotations"} ELSE {})
    \cup (IF SafeSummary(p) # SafeSummary(q) THEN {"summary"} ELSE {})

ChangedEdgeFields(p, q) ==
    Differing(p, q, {"source", "target", "type", "confidence", "sourceField"})

ChangedClusterFields(p, q) == Differing(p, q, {"name", "version", "podWarning"})

\* What happened to the id of two functions, given the fields that differ.
Change(b, c, id, fields) ==
    CASE id \notin DOMAIN b -> "added"
      [] id \notin DOMAIN c -> "removed"
      [] OTHER -> IF fields = {} THEN "none" ELSE "changed"

NodeChange(id) ==
    LET b == baseline.nodes
        c == current.nodes
        fields == IF id \in DOMAIN b \cap DOMAIN c THEN ChangedNodeFields(b[id], c[id]) ELSE {}
        node == IF id \in DOMAIN c THEN c[id] ELSE b[id]
    IN  [change |-> Change(b, c, id, fields), id |-> id, kind |-> node.kind, name |-> node.name,
         before |-> IF id \in DOMAIN b THEN b[id].status ELSE NoStatus,
         after |-> IF id \in DOMAIN c THEN c[id].status ELSE NoStatus,
         changedFields |-> fields]

\* resourceIdentity
Identity(id, nodes) ==
    IF id \in DOMAIN nodes THEN [id |-> id, kind |-> nodes[id].kind, name |-> nodes[id].name]
    ELSE [id |-> id, kind |-> "Unknown", name |-> id]

\* The snapshot that has the ends of an edge: a removed edge is the baseline's.
EndsOf(id) == IF id \in DOMAIN current.edges THEN current.nodes ELSE baseline.nodes

EdgeChange(id) ==
    LET b == baseline.edges
        c == current.edges
        fields == IF id \in DOMAIN b \cap DOMAIN c THEN ChangedEdgeFields(b[id], c[id]) ELSE {}
        edge == IF id \in DOMAIN c THEN c[id] ELSE b[id]
    IN  [change |-> Change(b, c, id, fields), id |-> id, relation |-> edge.type,
         source |-> Identity(edge.source, EndsOf(id)),
         target |-> Identity(edge.target, EndsOf(id)),
         confidence |-> edge.confidence, sourceField |-> edge.sourceField,
         changedFields |-> fields]

\* before and after: the clusters themselves, as sets of at most one.
ClusterChange(id) ==
    LET b == baseline.clusters
        c == current.clusters
        fields == IF id \in DOMAIN b \cap DOMAIN c THEN ChangedClusterFields(b[id], c[id]) ELSE {}
    IN  [change |-> Change(b, c, id, fields), id |-> id,
         name |-> IF id \in DOMAIN c THEN c[id].name ELSE b[id].name,
         before |-> {b[i] : i \in {id} \cap DOMAIN b},
         after |-> {c[i] : i \in {id} \cap DOMAIN c},
         changedFields |-> fields]

Real(changes) == {x \in changes : x.change # "none"}

NodeChanges == Real({NodeChange(id) : id \in DOMAIN baseline.nodes \cup DOMAIN current.nodes})
EdgeChanges == Real({EdgeChange(id) : id \in DOMAIN baseline.edges \cup DOMAIN current.edges})
ClusterChanges ==
    Real({ClusterChange(id) : id \in DOMAIN baseline.clusters \cup DOMAIN current.clusters})

----------------------------------------------------------------------------
(* filterSnapshotComparison: by type of change and by a word of the change *)

Matches(x, words) ==
    /\ changeFilter \in {"all", x.change}
    /\ query = NoQuery \/ query \in words \cup x.changedFields

NodeWords(x) == {x.kind, x.name}
EdgeWords(x) == {x.relation, x.confidence, x.sourceField,
                 x.source.kind, x.source.name, x.target.kind, x.target.name}
ClusterWords(x) == {x.id, x.name} \cup {c.version : c \in x.before \cup x.after}

MatchingEdges == {x \in EdgeChanges : Matches(x, EdgeWords(x))}

\* relationTypeCounts: the options of the relation filter.
RelationTypes == {x.relation : x \in MatchingEdges}

VisibleEdges == {x \in MatchingEdges : selected = {} \/ x.relation \in selected}

Visible == CASE scope = "resources" -> {x \in NodeChanges : Matches(x, NodeWords(x))}
             [] scope = "relations" -> VisibleEdges
             [] OTHER -> {x \in ClusterChanges : Matches(x, ClusterWords(x))}

----------------------------------------------------------------------------
(* createSnapshotDiffJson and parseSnapshotDiff *)

ReportOf(s, types, items) ==
    [scope |-> s, changeType |-> changeFilter, relationTypes |-> types,
     counts |-> [exported |-> Cardinality(items), resources |-> Cardinality(NodeChanges),
                 relations |-> Cardinality(EdgeChanges), clusters |-> Cardinality(ClusterChanges)],
     items |-> items]

ReportWithAnyFilter == ReportOf(scope, selected, Visible)

Report == ReportOf(scope, IF scope = "relations" THEN selected ELSE {}, Visible)

\* The export buttons are disabled when nothing is visible.
CanExport == Visible # {}

EndTexts(end) == {<<"id", end.id>>, <<"kind", end.kind>>, <<"name", end.name>>}

\* The texts of a change, each with the field that says how long it may be.
ItemTexts(s, x) ==
    CASE s = "resources" -> {<<"place", x.id>>, <<"kind", x.kind>>, <<"name", x.name>>,
                             <<"status", x.before>>, <<"status", x.after>>}
      [] s = "relations" -> {<<"place", x.id>>, <<"relation", x.relation>>,
                             <<"sourceField", x.sourceField>>}
                            \cup EndTexts(x.source) \cup EndTexts(x.target)
      [] OTHER -> {<<"clusterId", x.id>>, <<"clusterName", x.name>>}
                  \cup {<<"version", c.version>> : c \in x.before \cup x.after}

ReportTexts(r) ==
    {<<"relation", t>> : t \in r.relationTypes} \cup UNION {ItemTexts(r.scope, x) : x \in r.items}

\* What an import limits and an export does not.
WithinLimits(r) ==
    /\ FileBytes(r) <= MaxDiffFileBytes
    /\ Cardinality(r.relationTypes) <= MaxRelationTypes
    /\ Cardinality(r.items) <= MaxDiffItems
    /\ ReportTexts(r) \cap Unfit = {}

ItemAccepted(s, x) ==
    /\ x.change \in Types
    /\ s = "relations" => x.confidence \in {"observed", "inferred"}
    /\ s = "clusters" => /\ x.change \in {"added", "changed"} => x.after # {}
                         /\ x.change \in {"removed", "changed"} => x.before # {}

Accepted(r) ==
    /\ WithinLimits(r)
    /\ r.scope \in Scopes /\ r.changeType \in Types \cup {"all"}
    /\ r.scope # "relations" => r.relationTypes = {}
    /\ \A x \in r.items : ItemAccepted(r.scope, x)
    /\ r.counts.exported = Cardinality(r.items)

----------------------------------------------------------------------------
(* The panel *)

Init ==
    /\ baseline \in Snapshots /\ current \in Snapshots
    /\ scope = "resources" /\ changeFilter = "all" /\ query = NoQuery
    /\ selected = {}

KeptSelection == selected

\* retainAvailableRelationTypes, run by an effect when the options change.
RetainedSelection == selected \cap RelationTypes

Settled == selected = RetainedSelection

Retain ==
    /\ ~Settled
    /\ selected' = RetainedSelection
    /\ UNCHANGED <<pair, filters>>

\* Another baseline or another current snapshot is chosen, captured or refreshed.
SetBaseline(s) ==
    /\ Settled /\ s # baseline
    /\ baseline' = s
    /\ UNCHANGED <<current, filters, selected>>

SetCurrent(s) ==
    /\ Settled /\ s # current
    /\ current' = s
    /\ UNCHANGED <<baseline, filters, selected>>

SetScope(s) == Settled /\ scope' = s /\ UNCHANGED <<pair, changeFilter, query, selected>>

SetChangeFilter(t) ==
    Settled /\ changeFilter' = t /\ UNCHANGED <<pair, scope, query, selected>>

SetQuery(q) == Settled /\ query' = q /\ UNCHANGED <<pair, scope, changeFilter, selected>>

ToggleRelationType(r) ==
    /\ Settled /\ scope = "relations" /\ r \in RelationTypes
    /\ selected' = IF r \in selected THEN selected \ {r} ELSE selected \cup {r}
    /\ UNCHANGED <<pair, filters>>

ClearRelationTypes ==
    /\ Settled /\ scope = "relations" /\ RelationTypes # {} /\ selected # {}
    /\ selected' = {}
    /\ UNCHANGED <<pair, filters>>

Panel ==
    \/ \E s \in Scopes : SetScope(s)
    \/ \E t \in Types \cup {"all"} : SetChangeFilter(t)
    \/ \E q \in Queries : SetQuery(q)
    \/ \E r \in RelationTypes : ToggleRelationType(r)
    \/ ClearRelationTypes

Next == Panel \/ Retain \/ \E s \in Snapshots : SetBaseline(s) \/ SetCurrent(s)

Spec == Init /\ [][Next]_vars

----------------------------------------------------------------------------
Listed(changes, t) == {x.id : x \in {y \in changes : y.change = t}}

Same(b, c, changes) ==
    /\ Listed(changes, "added") = DOMAIN c \ DOMAIN b
    /\ Listed(changes, "removed") = DOMAIN b \ DOMAIN c
    /\ \A id \in DOMAIN b \cap DOMAIN c : id \notin Listed(changes, "changed") => b[id] = c[id]

\* The lists of changes leave nothing out: they turn the relations and clusters of the
\* baseline into those of the current snapshot, no id is in two of them, and a snapshot
\* compared with itself has no change.
NothingIsLeftOut ==
    /\ Same(baseline.edges, current.edges, EdgeChanges)
    /\ Same(baseline.clusters, current.clusters, ClusterChanges)
    /\ \A list \in {NodeChanges, EdgeChanges, ClusterChanges} :
          Cardinality(list) = Cardinality({x.id : x \in list})
    /\ baseline = current => NodeChanges \cup EdgeChanges \cup ClusterChanges = {}

\* What a reader may be told of a node: no annotation's value, no Secret's summary value.
Told(n) == [n EXCEPT !.annotations = @.keys,
                     !.summary = IF n.kind = "Secret" THEN @.keys ELSE @]

\* A node is listed as changed exactly when something that may be told of it changed:
\* nobody learns from a comparison that a Secret's or an annotation's value changed.
OnlySafeFieldsAreCompared ==
    \A id \in DOMAIN baseline.nodes \cap DOMAIN current.nodes :
        id \in Listed(NodeChanges, "changed")
            <=> Told(baseline.nodes[id]) # Told(current.nodes[id])

\* Both ends of every changed relation are named by kind and name, also those of a
\* relation that went away together with its resources.
EndsAreNamed == \A x \in EdgeChanges : "Unknown" \notin {x.source.kind, x.target.kind}

\* Once the effects have run, the chosen relation types are among those offered: a
\* filter chosen for other snapshots, another query or another type of change never
\* leaves the list of relations empty when there are relations to show.
ForgottenFiltersHideNothing ==
    Settled => /\ selected \subseteq RelationTypes
               /\ MatchingEdges # {} => VisibleEdges # {}

\* A report that was exported is refused by an import for the size of its file, the number
\* of its changes or relation types or the length of a text only, never for what it says:
\* not for filters left from another scope, counts, or a change without its cluster.
ReportsImport == CanExport /\ WithinLimits(Report) => Accepted(Report)
=============================================================================
