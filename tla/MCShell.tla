------------------------------- MODULE MCShell -------------------------------
(***************************************************************************)
(* The browser's shell (Dashboard) and the comparison of two snapshots     *)
(* that its "compare" view opens (SnapshotComparison).  The shell hands    *)
(* the panel two snapshots and reads nothing back, so a behaviour is of    *)
(* one of them, and what belongs to the other is idle.                     *)
(*                                                                         *)
(* The page is opened at its root, or at a link to a comparison of the     *)
(* sample data.                                                            *)
(***************************************************************************)
EXTENDS Dashboard, TLC

CONSTANTS
    ComparedSnapshots, Queries, MaxDiffItems, MaxDiffFileBytes, MaxRelationTypes,
    FileBytes(_), Unfit             \* SnapshotComparison

VARIABLES
    part,       \* "shell" or "comparison"
    scope, changeFilter, query      \* SnapshotComparison, beside baseline, current, selected

C == INSTANCE SnapshotComparison WITH Snapshots <- ComparedSnapshots

TheStarts == {<<"topology", "upload">>, <<"compare", "mock">>}

TokensAlike == Permutations(Tokens)

----------------------------------------------------------------------------
(* The snapshots that are compared *)

Node(kind, name, state, note, secret) ==
    [kind |-> kind, name |-> name, status |-> state, labels |-> "l", owners |-> "o",
     annotations |-> [keys |-> "k", values |-> note],
     summary |-> [keys |-> "k", values |-> secret]]

Edge(s, t, type, confidence) ==
    [source |-> s, target |-> t, type |-> type, confidence |-> confidence, sourceField |-> "f"]

Absent == [k \in {} |-> k]

\* A Pod in one of two states, or with another annotation, and a Secret with one of two
\* values, each there or not; between two of them a mount, observed or inferred, and a
\* reference, whose field has a name too long for an import; and a snapshot with nothing
\* in it.
PodNodes ==
    {Absent} \cup {"p" :> n : n \in {Node("Pod", "web", "ok", "x", "v"),
                                    Node("Pod", "web", "bad", "x", "v"),
                                    Node("Pod", "web", "ok", "y", "v")}}
SecretNodes == {Absent} \cup {"s" :> Node("Secret", "key", "ok", "x", v) : v \in {"v", "w"}}
Mounts == {Absent} \cup {"m" :> Edge("p", "s", "mounts", c) : c \in {"observed", "inferred"}}
References ==
    {Absent, "r" :> [Edge("p", "s", "references", "observed") EXCEPT !.sourceField = "long"]}

Cluster(nodes) ==
    "c" :> [name |-> "main", version |-> "1",
            podWarning |-> IF "p" \in DOMAIN nodes /\ nodes["p"].status = "bad" THEN 1 ELSE 0]

Joined(nodes) ==
    /\ {"p", "s"} \subseteq DOMAIN nodes
    /\ nodes["p"].annotations.values = "x" /\ nodes["s"].summary.values = "v"

TheSnapshots ==
    {[clusters |-> Absent, nodes |-> Absent, edges |-> Absent]} \cup
    {[clusters |-> Cluster(p @@ q), nodes |-> p @@ q,
      edges |-> IF Joined(p @@ q) THEN e @@ f ELSE Absent] :
        p \in PodNodes, q \in SecretNodes, e \in Mounts, f \in References}

\* A changed item names the fields, and of a cluster both states: it takes three times the
\* room of another. So a report may have too many changes, too many bytes, or both.
ReportBytes(r) == Cardinality(r.items) + 2 * Cardinality({x \in r.items : x.change = "changed"})

LongTexts == {<<"sourceField", "long">>}

----------------------------------------------------------------------------
\* A snapshot has finitely many ids, and a relation joins two of its resources.
IsSnapshot(s) ==
    /\ \A objects \in {s.clusters, s.nodes, s.edges} : IsFiniteSet(DOMAIN objects)
    /\ \A id \in DOMAIN s.clusters :
          LET c == s.clusters[id]
          IN  c = [name |-> c.name, version |-> c.version, podWarning |-> c.podWarning]
    /\ \A id \in DOMAIN s.nodes :
          LET n == s.nodes[id]
          IN  /\ n = [kind |-> n.kind, name |-> n.name, status |-> n.status, labels |-> n.labels,
                      owners |-> n.owners, annotations |-> n.annotations, summary |-> n.summary]
              /\ n.kind # "Unknown"
    /\ \A id \in DOMAIN s.edges :
          LET e == s.edges[id]
          IN  /\ e = [source |-> e.source, target |-> e.target, type |-> e.type,
                      confidence |-> e.confidence, sourceField |-> e.sourceField]
              /\ {e.source, e.target} \subseteq DOMAIN s.nodes
              /\ e.confidence \in {"observed", "inferred"}

\* A node's id has its kind and its name in it.
SameNode(n, m) == n.kind = m.kind /\ n.name = m.name

ASSUME ComparedAssumption ==
    /\ \A s \in ComparedSnapshots : IsSnapshot(s)
    /\ \A s, t \in ComparedSnapshots : \A id \in DOMAIN s.nodes \cap DOMAIN t.nodes :
          SameNode(s.nodes[id], t.nodes[id])

----------------------------------------------------------------------------
comparisonOnly == <<scope, changeFilter, query>>
shellOnly == <<mode, view, rf, live, uploaded, topo, autoRefresh, conn, filters, history, url,
               jobs, ran, moves>>
browser == <<part, comparisonOnly, shellOnly, baseline, current, selected>>

Idle == "idle"

ShellInit ==
    \/ /\ part = "shell" /\ Init
       /\ scope = Idle /\ changeFilter = Idle /\ query = Idle
    \/ /\ part = "comparison" /\ C!Init
       /\ mode = Idle /\ view = Idle /\ rf = Idle
       /\ unlocked = Idle /\ token = Idle /\ good = Idle /\ uploaded = Idle
       /\ shown = Idle /\ loading = Idle /\ error = Idle /\ requests = Idle
       /\ autoRefresh = Idle /\ forced = Idle /\ refreshAsked = Idle
       /\ status = Idle /\ capability = Idle /\ capabilityAsked = Idle
       /\ filters = Idle /\ history = Idle
       /\ urls = Idle /\ at = Idle /\ stored = Idle
       /\ jobs = Idle /\ ran = Idle /\ moves = Idle

ShellNext ==
    \/ part = "shell" /\ Next /\ UNCHANGED <<part, comparisonOnly>>
    \/ part = "comparison" /\ C!Next /\ UNCHANGED <<part, shellOnly>>

ShellSpec == ShellInit /\ [][ShellNext]_browser

----------------------------------------------------------------------------
\* Once a request is answered or abandoned, the screen shows a snapshot of the chosen source
\* and of no other: an answer of an aborted live request never replaces an upload, a lock
\* never leaves live data on the screen, and a refused request leaves the placeholder.
ShownIsOfTheSource == part = "shell" => ShownIsOfItsSource

\* A live session that is locked, by its user or by a 401, is over: its token is gone,
\* nothing polls or is asked of the server any more and no connector state is kept.
LockEndsTheSession == part = "shell" => LockedSessionIsOver

\* The address bar follows the screen, but for handlers that end after an await.
AddressFollowsTheScreen == [][part = "shell" => KeepsTheAddress]_browser

\* A captured snapshot never pushes a selected one out of the bounded history.
CapturesKeepTheSelection == [][part = "shell" => CaptureKeepsTheSelection]_browser

\* The lists of changes leave nothing out, name both ends of every relation, and no filter
\* chosen for another comparison hides what there is to show. A resource is listed as changed
\* exactly if something that may be told of it changed: nobody learns from a comparison that
\* the value of a Secret or of an annotation did.
ChangesAreComplete ==
    part = "comparison" =>
        /\ C!NothingIsLeftOut /\ C!EndsAreNamed /\ C!ForgottenFiltersHideNothing
        /\ C!OnlySafeFieldsAreCompared

\* An import refuses an exported report for its size, its number of changes or relation types
\* or a text that is too long, and for nothing else.
ReportsImport == part = "comparison" => C!ReportsImport
=============================================================================
