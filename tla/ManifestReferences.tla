-------------------------- MODULE ManifestReferences --------------------------
(***************************************************************************)
(* What manifests mean by their selectors and by the fields of a custom    *)
(* resource: labelSelector.ts and customResourceReferences.ts of the       *)
(* upload parser.                                                          *)
(*                                                                         *)
(* A label selector of a NetworkPolicy is a record: labels, a function     *)
(* from keys to values; expressions, a sequence of [key, operator,         *)
(* values]; extra, the other fields it has. An optional value is a         *)
(* sequence of at most one; "bad" is a key or a value the grammar of       *)
(* labels refuses.                                                         *)
(*                                                                         *)
(* A value of a custom resource's spec is a record: type "record", "list", *)
(* "text" or "null"; text; children, a sequence of <<key, value>>          *)
(* (<<"", value>> in a list); anchor, which two occurrences of one YAML    *)
(* alias share and is "" for a value written once. An alias inside itself  *)
(* is not modelled. A definition is a record [name, group, kind, versions, *)
(* scope].                                                                 *)
(***************************************************************************)
EXTENDS Integers, Sequences, SequencesExt, FiniteSets

CONSTANTS
    MaxSelector,        \* maxSelectorLabels, maxSelectorExpressions, maxExpressionValues
    MaxReferences, MaxTraversalDepth, MaxVisitedValues,
    NativeKinds,        \* supportedUploadKinds
    ClusterScopedKinds  \* clusterScopedKinds

----------------------------------------------------------------------------
(* Label selectors *)

Operators == {"In", "NotIn", "Exists", "DoesNotExist"}

MatchLabelsOk(labels) ==
    /\ Cardinality(DOMAIN labels) <= MaxSelector
    /\ \A key \in DOMAIN labels : "bad" \notin {key, labels[key]}

ExpressionOk(e) ==
    /\ e.key # "bad"
    /\ e.operator \in Operators
    /\ Len(e.values) <= MaxSelector /\ "bad" \notin ToSet(e.values)
    /\ e.operator \in {"In", "NotIn"} <=> e.values # <<>>

SelectorOk(selector) ==
    /\ selector.extra = {}
    /\ MatchLabelsOk(selector.labels)
    /\ Len(selector.expressions) <= MaxSelector
    /\ \A e \in ToSet(selector.expressions) : ExpressionOk(e)

Has(labels, key, values) == key \in DOMAIN labels /\ labels[key] \in values

ExpressionMatches(e, labels) ==
    \/ e.operator = "In" /\ Has(labels, e.key, ToSet(e.values))
    \/ e.operator = "NotIn" /\ ~Has(labels, e.key, ToSet(e.values))
    \/ e.operator = "Exists" /\ e.key \in DOMAIN labels
    \/ e.operator = "DoesNotExist" /\ e.key \notin DOMAIN labels

\* labelsMatch, for a Service's plain selector too.
LabelsMatch(labels, wanted) == \A key \in DOMAIN wanted : Has(labels, key, {wanted[key]})

\* labelSelectorMatches: a selector that does not parse, or is not there, matches nothing.
SelectorMatches(selector, labels) ==
    /\ selector # <<>>
    /\ SelectorOk(selector[1])
    /\ LabelsMatch(labels, selector[1].labels)
    /\ \A e \in ToSet(selector[1].expressions) : ExpressionMatches(e, labels)

\* matchingNetworkPolicyNamespaces; labelled maps the known namespaces to their labels.
MatchingNamespaces(labelled, own, selector) ==
    IF selector = <<>> THEN {own}
    ELSE {ns \in DOMAIN labelled : SelectorMatches(selector, labelled[ns])}

----------------------------------------------------------------------------
(* The references guessed from the names of the fields of a spec *)

NoDefinition == <<>>

\* The names of fields the model uses, of those the regular expression and the two
\* switches accept.
ReferenceFields == {"secretRef", "configMapRef", "serviceRef", "targetRefs", "ownerReference"}
KindFromKey(key) ==
    CASE key = "secretRef" -> "Secret"
      [] key = "configMapRef" -> "ConfigMap"
      [] key = "serviceRef" -> "Service"
      [] OTHER -> ""
KindFromNameKey(key) ==
    CASE key = "secretName" -> "Secret"
      [] key = "serviceName" -> "Service"
      [] OTHER -> ""

FieldText(value, key) ==
    LET found == SelectSeq(value.children, LAMBDA c : c[1] = key /\ c[2].type = "text")
    IN IF found = <<>> THEN "" ELSE found[1][2].text

\* customResourceDefinitionForReference: the first definition of the group, kind and version.
DefinitionFor(api, kind, definitions) ==
    LET found == SelectSeq(definitions,
                    LAMBDA d : d.group = api.group /\ d.kind = kind /\ api.version \in d.versions)
    IN IF api.group = "" \/ api.version = "" \/ found = <<>> THEN NoDefinition ELSE <<found[1]>>

TargetNamespace(kind, ns, definition) ==
    IF kind \in ClusterScopedKinds \/ (kind = "CustomResource" /\ definition.scope = "Cluster")
    THEN "" ELSE ns

\* An apiVersion by its text: "g/v1" in a reference.
ApiVersion(text) ==
    IF text = "g/v1" THEN [group |-> "g", version |-> "v1"] ELSE [group |-> "", version |-> text]

First(a, b) == IF a # "" THEN a ELSE b

\* customResourceReferenceFromObject: none or one.
ReferenceFromObject(value, fallback, path, ns, source, definitions) ==
    LET name == FieldText(value, "name")
        given == FieldText(value, "kind")
        custom == IF given = "" THEN NoDefinition
                  ELSE DefinitionFor(ApiVersion(FieldText(value, "apiVersion")), given, definitions)
        kind == IF custom # NoDefinition THEN "CustomResource"
                ELSE IF given \in NativeKinds THEN given ELSE fallback
        definition == IF custom = NoDefinition THEN source ELSE custom[1]
    IN IF name = "" \/ kind = "" THEN <<>>
       ELSE <<[kind |-> kind,
               ns |-> TargetNamespace(kind, First(FieldText(value, "namespace"), ns), definition),
               name |-> IF kind = "CustomResource" THEN <<given, name>> ELSE <<name>>,
               path |-> path]>>

Full(st) == Len(st.refs) >= MaxReferences \/ st.visited >= MaxVisitedValues
Push(st, refs) ==
    [st EXCEPT !.refs = IF Len(@) >= MaxReferences THEN @ ELSE @ \o refs]

\* What one field of a record adds before its own value is looked into: a reference, a list
\* of references, or a name under a telling key.
FieldReferences(record, key, child, path, ns, source, definitions, st) ==
    LET from(value, at) == ReferenceFromObject(value, KindFromKey(key), at, ns, source, definitions)
        records == SelectSeq([i \in DOMAIN child.children |->
                        <<child.children[i][2], Append(path, ToString(i - 1))>>],
                    LAMBDA item : item[1].type = "record")
        named == KindFromNameKey(key)
    IN IF key \in ReferenceFields /\ child.type = "record" THEN Push(st, from(child, path))
       ELSE IF key \in ReferenceFields /\ child.type = "list"
       THEN FoldLeft(LAMBDA acc, item : Push(acc, from(item[1], item[2])), st, records)
       ELSE IF named # "" /\ child.type = "text" /\ child.text # ""
       THEN Push(st, <<[kind |-> named,
                        ns |-> TargetNamespace(named, First(FieldText(record, "namespace"), ns), source),
                        name |-> <<child.text>>, path |-> path]>>)
       ELSE st

RECURSIVE Collect(_, _, _, _, _, _, _)
Collect(value, path, ns, source, definitions, st, depth) ==
    LET counted == [st EXCEPT !.visited = @ + 1]
        entered == [counted EXCEPT !.seen = @ \cup ({value.anchor} \ {""})]
        child(i) == value.children[i][2]
        at(i) == Append(path, IF value.type = "list" THEN ToString(i - 1) ELSE value.children[i][1])
        visit(acc, i) ==
            IF Full(acc) THEN acc
            ELSE Collect(child(i), at(i), ns, source, definitions,
                    IF value.type = "list" THEN acc
                    ELSE FieldReferences(value, value.children[i][1], child(i), at(i), ns, source,
                            definitions, acc),
                    depth + 1)
    IN IF Full(st) \/ depth > MaxTraversalDepth \/ value.type = "null" THEN st
       ELSE IF value.anchor \in st.seen THEN counted
       ELSE FoldLeft(visit, entered, [i \in DOMAIN value.children |-> i])

\* inferCustomResourceReferences
InferReferences(spec, ns, source, definitions) ==
    Collect(spec, <<"spec">>, ns, source, definitions,
            [refs |-> <<>>, seen |-> {}, visited |-> 0], 0).refs
=============================================================================
