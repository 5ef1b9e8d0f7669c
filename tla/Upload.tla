-------------------------------- MODULE Upload --------------------------------
(***************************************************************************)
(* parseKubernetesFiles: the manifests in a set of files become a topology *)
(* in the browser, with no cluster behind it. Files are read one by one,   *)
(* in the order they were chosen; then every object becomes a node, and    *)
(* only then the relations are drawn, object by object. A reference makes  *)
(* a placeholder where its target was not uploaded; an owner, a definition *)
(* and what a custom resource refers to do not.                            *)
(*                                                                         *)
(* A file is a record: type "manifest", "archive" or "other"; broken, it   *)
(* cannot be parsed or unpacked; content, its documents or its files.      *)
(*                                                                         *)
(* An object is a record:                                                  *)
(*   kind, api       what the manifest says, api = [group, version]        *)
(*   ns, name        "" where it says nothing                              *)
(*   items           the objects in it, when it is a List                  *)
(*   labels, healthy its labels; whether its status is rated healthy       *)
(*   ok              the validator of its kind accepts it                  *)
(*   owners          its owner references: [kind, name]                    *)
(*   refs            the references its kind makes: [via, kind, ns, name]  *)
(*   selector        what a Service selects Pods by, <<>> when that cannot *)
(*                   be inferred                                           *)
(*   pods, types, ingress, egress                                          *)
(*                   a NetworkPolicy's selector, types and rules; a rule   *)
(*                   is a sequence of peers [ipBlock, pods, namespaces]    *)
(*   group, names, served, storage, scope                                  *)
(*                   what a CustomResourceDefinition defines               *)
(*   spec            a custom resource's spec (see ManifestReferences)     *)
(***************************************************************************)
EXTENDS ManifestReferences

CONSTANTS
    Uploads,        \* what may be chosen: sequences of files
    ClusterName     \* the name the user gave the upload

VARIABLES
    chosen,         \* history: the files that were chosen
    files,          \* those still to be read
    objects,        \* the objects found in the others
    warnings,       \* what the user is told was left out
    todo,           \* what buildSnapshotFromKubernetesObjects has still to do
    shown,          \* nodeSet: from the id of a node to the object it shows
    edges,          \* edgeSet
    outcome         \* "reading", "building", "done" or "failed"

vars == <<chosen, files, objects, warnings, todo, shown, edges, outcome>>

-----------------------------------------------------------------------------
(* Reading the files. *)

\* collectObject: the objects of a List, and else what has a kind and a name.
RECURSIVE Collected(_)
Collected(object) ==
    IF object.kind = "List" THEN FlattenSeq([i \in DOMAIN object.items |-> Collected(object.items[i])])
    ELSE IF object.kind # "" /\ object.name # "" THEN <<object>>
    ELSE <<>>

\* parseManifestText: a text that does not parse has no objects, and there is a warning.
ManifestObjects(file) ==
    IF file.broken THEN <<>>
    ELSE FlattenSeq([i \in DOMAIN file.content |-> Collected(file.content[i])])
ManifestWarnings(file) == IF file.broken THEN {<<"unparsed", file.name>>} ELSE {}

\* The manifests of a file: itself, or those in the archive it is.
Manifests(file) ==
    IF file.type = "archive" THEN SelectSeq(file.content, LAMBDA f : f.type = "manifest")
    ELSE IF file.type = "manifest" THEN <<file>>
    ELSE <<>>

ReadFile ==
    /\ outcome = "reading" /\ files # <<>>
    /\ LET file == Head(files)
           manifests == Manifests(file)
       IN /\ ~(file.type = "archive" /\ file.broken)
          /\ objects' = objects \o FlattenSeq([i \in DOMAIN manifests |-> ManifestObjects(manifests[i])])
          /\ warnings' = warnings
                \cup UNION {ManifestWarnings(m) : m \in ToSet(manifests)}
                \cup (IF file.type = "other" THEN {<<"unsupported file", file.name>>} ELSE {})
    /\ files' = Tail(files)
    /\ UNCHANGED <<chosen, todo, shown, edges, outcome>>

\* unzipSync throws, and with it the whole upload ends; what was shown before stays.
FailUpload ==
    /\ outcome = "reading" /\ files # <<>>
    /\ Head(files).type = "archive" /\ Head(files).broken
    /\ outcome' = "failed"
    /\ UNCHANGED <<chosen, files, objects, warnings, todo, shown, edges>>

-----------------------------------------------------------------------------
(* What an object is. *)

\* customResourceDefinitionRecords: a definition serves its served versions, or else the
\* one it stores; without a name, group, kind or version it is none.
Definition(object) ==
    [name |-> object.name, group |-> object.group, kind |-> object.names,
     versions |-> IF object.served # {} THEN object.served ELSE {object.storage} \ {""},
     scope |-> object.scope]
DefinitionsOf(list) ==
    LET records == [i \in DOMAIN SelectSeq(list, LAMBDA o : o.kind = "CustomResourceDefinition") |->
                        Definition(SelectSeq(list, LAMBDA o : o.kind = "CustomResourceDefinition")[i])]
    IN SelectSeq(records, LAMBDA d : d.group # "" /\ d.kind # "" /\ d.versions # {})
Definitions == DefinitionsOf(objects)

\* customResourceDefinitionForObject
DefinitionOf(object) ==
    IF object.kind \in NativeKinds THEN NoDefinition
    ELSE DefinitionFor(object.api, object.kind, Definitions)

\* normalizeObjectKind: "" for a kind that is neither supported nor defined.
Kind(object) ==
    IF object.kind \in NativeKinds THEN object.kind
    ELSE IF DefinitionOf(object) # NoDefinition THEN "CustomResource"
    ELSE ""

\* id; objectNameForKind
NodeId(ns, kind, name) == <<ns, kind, name>>
Id(object) ==
    NodeId(object.ns, Kind(object),
           IF Kind(object) = "CustomResource" THEN <<object.kind, object.name>> ELSE <<object.name>>)
ClusterId == NodeId("", "Cluster", <<ClusterName>>)
NamespaceId(ns) == NodeId("", "Namespace", <<ns>>)

Placeholder == [placeholder |-> TRUE, kind |-> "", healthy |-> FALSE]
Node(kind, healthy) == [placeholder |-> FALSE, kind |-> kind, healthy |-> healthy]

Edge(from, to, via) == [from |-> from, to |-> to, via |-> via]
\* addEdge: once, and only between nodes that are there.
Drawable(es, nodes) == {e \in es : {e.from, e.to} \subseteq nodes}

\* addNode: the first of an id stays.
Added(nodes) == shown @@ nodes

-----------------------------------------------------------------------------
(* Building the topology. *)

OfKind(kind) == SelectSeq(objects, LAMBDA o : o.kind = kind)
Namespaces ==
    ({o.ns : o \in ToSet(objects)} \ {""}) \cup {o.name : o \in ToSet(OfKind("Namespace"))}

\* namespaceRecords: of two objects for one Namespace the later one gives the labels, a
\* namespace that was only mentioned has none.
NamespaceLabels ==
    [ns \in Namespaces |->
        LET given == SelectSeq(OfKind("Namespace"), LAMBDA o : o.name = ns)
        IN IF given = <<>> THEN <<>> ELSE given[Len(given)].labels]

Job(pass, object) == [pass |-> pass, object |-> object]
Jobs(pass, list) == [i \in DOMAIN list |-> Job(pass, list[i])]

\* Mutant: each object's relations right after its node.
JobsInterleaved ==
    FlattenSeq([i \in DOMAIN objects |-> <<Job("node", objects[i]), Job("edges", objects[i])>>])
        \o Jobs("service", OfKind("Service")) \o Jobs("policy", OfKind("NetworkPolicy"))

AllJobs == Jobs("node", objects) \o Jobs("edges", objects)
    \o Jobs("service", OfKind("Service")) \o Jobs("policy", OfKind("NetworkPolicy"))

\* The nodes and edges everything else hangs on: the cluster and its namespaces.
StartBuild ==
    /\ outcome = "reading" /\ files = <<>>
    /\ outcome' = "building"
    /\ todo' = AllJobs
    /\ shown' = [id \in {ClusterId} \cup {NamespaceId(ns) : ns \in Namespaces} |-> Node(id[2], TRUE)]
    /\ edges' = {Edge(ClusterId, NamespaceId(ns), <<"metadata.namespace">>) : ns \in Namespaces}
    /\ UNCHANGED <<chosen, files, objects, warnings>>

Doing(pass) == outcome = "building" /\ todo # <<>> /\ Head(todo).pass = pass
Done == todo' = Tail(todo) /\ UNCHANGED <<chosen, files, objects, outcome>>

AddObjectNode ==
    /\ Doing("node")
    /\ LET o == Head(todo).object
       IN IF Kind(o) = ""
          THEN warnings' = warnings \cup {<<"unsupported kind", o.kind>>} /\ UNCHANGED shown
          ELSE shown' = Added(Id(o) :> Node(Kind(o), o.healthy)) /\ UNCHANGED warnings
    /\ Done
    /\ UNCHANGED edges

\* Owners are looked for in the object's own namespace.
OwnerEdges(o) ==
    {Edge(NodeId(o.ns, owner.kind, <<owner.name>>), Id(o), <<"metadata.ownerReferences">>) :
        owner \in {x \in o.owners : x.kind \in NativeKinds /\ x.name # ""}}
NamespaceEdges(o) ==
    IF o.ns = "" THEN {} ELSE {Edge(NamespaceId(o.ns), Id(o), <<"metadata.namespace">>)}
DefinitionEdges(o) ==
    {Edge(NodeId("", "CustomResourceDefinition", <<d.name>>), Id(o), <<"spec.names.kind">>) :
        d \in ToSet(DefinitionOf(o))}

\* addCustomResourceReferenceEdges
CustomReferenceEdges(o) ==
    UNION {{Edge(Id(o), NodeId(r.ns, r.kind, r.name), r.path) :
                r \in ToSet(InferReferences(o.spec, o.ns, d, Definitions))} : d \in ToSet(DefinitionOf(o))}

\* The edges that need their other end to be there already.
EdgesToKnown(o) ==
    OwnerEdges(o) \cup NamespaceEdges(o) \cup
        (IF Kind(o) = "CustomResource" THEN DefinitionEdges(o) \cup CustomReferenceEdges(o) ELSE {})

\* The edges of Pods, workloads, ingresses, routes, autoscalers and storage, which bring
\* their other end: a Pod's whatever it says, the others' when their spec is valid.
ReferenceEdges(o) ==
    IF Kind(o) = "Pod" \/ o.ok
    THEN {Edge(Id(o), NodeId(r.ns, r.kind, <<r.name>>), <<r.via>>) : r \in o.refs} ELSE {}

AddObjectEdges ==
    /\ Doing("edges")
    /\ LET o == Head(todo).object
           references == ReferenceEdges(o)
       IN IF Kind(o) = "" THEN UNCHANGED <<shown, edges>>
          ELSE /\ shown' = Added([id \in {e.to : e \in references} |-> [Placeholder EXCEPT !.kind = id[2]]])
               /\ edges' = edges \cup Drawable(EdgesToKnown(o), DOMAIN shown)
                                 \cup Drawable(references, DOMAIN shown')
    /\ Done
    /\ UNCHANGED warnings

PodId(pod) == NodeId(pod.ns, "Pod", <<pod.name>>)

\* addServiceSelectorEdges
AddServiceEdges ==
    /\ Doing("service")
    /\ LET service == Head(todo).object
           selected == {p \in ToSet(OfKind("Pod")) : p.ns = service.ns /\ service.selector # <<>> /\
                            LabelsMatch(p.labels, service.selector[1])}
       IN edges' = edges \cup Drawable(
                {Edge(Id(service), PodId(p), <<"Service.spec.selector">>) : p \in selected}, DOMAIN shown)
    /\ Done
    /\ UNCHANGED <<warnings, shown>>

\* networkPolicyTypes: without types a policy is about ingress, and about egress when it has
\* egress rules.
PolicyTypes(policy) ==
    IF policy.types # {} THEN policy.types
    ELSE {"Ingress"} \cup (IF policy.egress # <<>> THEN {"Egress"} ELSE {})

\* addNetworkPolicyPeerEdges: what one peer means, Pods or whole namespaces.
PeerTargets(policy, peer) ==
    LET spaces == MatchingNamespaces(NamespaceLabels, policy.ns, peer.namespaces)
    IN IF peer.ipBlock \/ (peer.pods = <<>> /\ peer.namespaces = <<>>) THEN {}
       ELSE IF peer.pods # <<>>
       THEN {PodId(p) : p \in {q \in ToSet(OfKind("Pod")) :
                q.ns \in spaces /\ SelectorMatches(peer.pods, q.labels)}}
       ELSE {NamespaceId(ns) : ns \in spaces}

RuleEdges(policy, rules, via) ==
    UNION {{Edge(Id(policy), to, <<via>>) : to \in PeerTargets(policy, peer)} :
        peer \in UNION {ToSet(rules[i]) : i \in DOMAIN rules}}

AppliesTo(policy) ==
    LET pods == {p \in ToSet(OfKind("Pod")) : p.ns = policy.ns /\ SelectorMatches(policy.pods, p.labels)}
    IN IF pods = {} THEN {NamespaceId(policy.ns)} ELSE {PodId(p) : p \in pods}

AddPolicyEdges ==
    /\ Doing("policy")
    /\ LET policy == Head(todo).object
           types == PolicyTypes(policy)
       IN edges' = edges \cup Drawable(
                {Edge(Id(policy), to, <<"NetworkPolicy.spec.podSelector">>) : to \in AppliesTo(policy)}
                \cup (IF "Ingress" \in types THEN RuleEdges(policy, policy.ingress, "from") ELSE {})
                \cup (IF "Egress" \in types THEN RuleEdges(policy, policy.egress, "to") ELSE {}),
                DOMAIN shown)
    /\ Done
    /\ UNCHANGED <<warnings, shown>>

Finish ==
    /\ outcome = "building" /\ todo = <<>>
    /\ outcome' = "done"
    /\ UNCHANGED <<chosen, files, objects, warnings, todo, shown, edges>>

Init ==
    /\ chosen \in Uploads /\ files = chosen
    /\ objects = <<>> /\ warnings = {} /\ todo = <<>>
    /\ shown = <<>> /\ edges = {}
    /\ outcome = "reading"

Next ==
    \/ ReadFile \/ FailUpload \/ StartBuild
    \/ AddObjectNode \/ AddObjectEdges \/ AddServiceEdges \/ AddPolicyEdges
    \/ Finish

Spec == Init /\ [][Next]_vars

-----------------------------------------------------------------------------
(* What is shown. *)

NodesOf(kind) == {id \in DOMAIN shown : shown[id].kind = kind}
Healthy(ids) == {id \in ids : shown[id].healthy}

\* clusterSummary
Summary ==
    [nodeReady |-> Cardinality(Healthy(NodesOf("Node"))), nodeTotal |-> Cardinality(NodesOf("Node")),
     podRunning |-> Cardinality(Healthy(NodesOf("Pod"))),
     podWarning |-> Cardinality(NodesOf("Pod") \ Healthy(NodesOf("Pod"))),
     namespaces |-> Cardinality(Namespaces)]

-----------------------------------------------------------------------------
(* Properties. *)

Uploaded == {o \in ToSet(objects) : Kind(o) # ""}

\* The texts and archives chosen, one by one, and the documents in those that parse: the
\* members of a List, and what else there is.
Texts == UNION {IF f.type = "archive" THEN ToSet(f.content) ELSE {f} : f \in ToSet(chosen)}

RECURSIVE Members(_)
Members(d) == IF d.kind = "List" THEN UNION {Members(x) : x \in ToSet(d.items)} ELSE {d}

Documents ==
    UNION {UNION {Members(d) : d \in ToSet(f.content)} :
               f \in {t \in Texts : t.type = "manifest" /\ ~t.broken}}

\* Every document with a kind and a name is a node, in whatever file its definition was, or
\* there is a warning that its kind is neither known nor defined; a file the parser does not
\* read and a manifest that does not parse leave one too. What is lost without a word is a
\* document that says no kind or no name, also the list of a typed kind such as a PodList,
\* and a file in an archive that is no manifest. Nothing else is shown, and nothing else is
\* warned of, than the cluster, its namespaces and what references ask for.
EveryDocumentIsAccountedFor ==
    outcome = "done" =>
        LET named == {d \in Documents : d.kind # "" /\ d.name # ""}
            strange == {d \in named : Kind(d) = ""}
            whole == {id \in DOMAIN shown : ~shown[id].placeholder}
        IN  /\ whole \ ({ClusterId} \cup {NamespaceId(ns) : ns \in Namespaces})
                   \subseteq {Id(d) : d \in named \ strange}
            /\ {Id(d) : d \in named \ strange} \subseteq whole
            /\ warnings = {<<"unsupported kind", d.kind>> : d \in strange}
                   \cup {<<"unparsed", f.name>> : f \in {t \in Texts : t.type = "manifest" /\ t.broken}}
                   \cup {<<"unsupported file", f.name>> : f \in {t \in ToSet(chosen) : t.type = "other"}}

\* Every relation between two uploaded objects is drawn, in whatever order their manifests
\* came: an owner that follows its Pod, a definition that follows its resources, a target
\* read from a later file.
NoRelationIsLost ==
    outcome = "done" =>
        \A o \in Uploaded :
            \A e \in EdgesToKnown(o) \cup ReferenceEdges(o) :
                e.from \in {Id(p) : p \in Uploaded} /\ e.to \in {Id(p) : p \in Uploaded} => e \in edges

\* What a NetworkPolicy allows is drawn as Kubernetes reads it: a peer without a namespace
\* selector is in the policy's own namespace, and Pod and namespace selectors of one peer
\* are both meant.
PeersAreTheAllowed ==
    outcome = "done" =>
        \A policy \in ToSet(OfKind("NetworkPolicy")), pod \in ToSet(OfKind("Pod")) :
            Edge(Id(policy), PodId(pod), <<"from">>) \in edges <=>
                \E same \in ToSet(OfKind("NetworkPolicy")), twin \in ToSet(OfKind("Pod")) :
                    /\ Id(same) = Id(policy) /\ Id(twin) = Id(pod)
                    /\ "Ingress" \in PolicyTypes(same)
                    /\ \E i \in DOMAIN same.ingress : \E peer \in ToSet(same.ingress[i]) :
                        /\ ~peer.ipBlock
                        /\ SelectorMatches(peer.pods, twin.labels)
                        /\ \/ peer.namespaces = <<>> /\ twin.ns = same.ns
                           \/ twin.ns \in Namespaces
                              /\ SelectorMatches(peer.namespaces, NamespaceLabels[twin.ns])

=============================================================================
