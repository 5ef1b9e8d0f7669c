-------------------------- MODULE ServiceEndpoints --------------------------
(***************************************************************************)
(* Which Pods answer for a Service (provider/kubernetes_references.go):    *)
(* the endpoints the EndpointSlices list, and, from the Service's selector,*)
(* the Pods they do not list. Every loop is bounded, and each bound has    *)
(* its own way to give up.                                                 *)
(*                                                                         *)
(* An item is a record of the fields the code tells apart: "named" says    *)
(* that its identity is valid, "ok" that its content is, "labels" is the   *)
(* set of its labels and "selector" the set of labels a Service selects by.*)
(* An ExternalName Service, whose selector is never used, is one without a *)
(* selector.                                                               *)
(***************************************************************************)
EXTENDS Integers, Sequences, SequencesExt

CONSTANTS
    MaxVisits,          \* maxEndpointSliceEndpointVisits
    MaxReferences,      \* maxServiceEndpointResults
    MaxComparisons,     \* maxSelectorFallbackComparisons
    NoPod               \* an endpoint that targets no Pod

NoEndpoints == [total |-> 0, ready |-> 0]

Key(item) == <<item.ns, item.name>>
SliceKey(slice) == <<slice.ns, slice.service>>

Matches(selector, labels) == selector \subseteq labels

Reference(key, pod, ready, confidence) ==
    [service |-> key, pod |-> pod, ready |-> ready, confidence |-> confidence]

Counted(counter, ready) ==
    [total |-> counter.total + 1, ready |-> counter.ready + (IF ready THEN 1 ELSE 0)]

(***************************************************************************)
(* analyzeEndpointSlices                                                   *)
(***************************************************************************)
NoAnalysis(keys) ==
    [counts |-> [k \in keys |-> NoEndpoints], references |-> <<>>, invalid |-> 0,
     limited |-> FALSE, stopped |-> FALSE, slices |-> {}, endpoints |-> {}, pods |-> {},
     visits |-> 0]

VisitEndpoint(analysis, slice, endpoint) ==
    LET key == SliceKey(slice)
        counted == [analysis EXCEPT
                        !.endpoints = @ \cup {<<key, endpoint.id>>},
                        !.counts[key] = Counted(@, endpoint.ready)]
    IN IF ~endpoint.ok \/ <<key, endpoint.id>> \in analysis.endpoints
         THEN [analysis EXCEPT !.invalid = @ + 1]
       ELSE IF \/ endpoint.pod = NoPod
               \/ <<key, endpoint.pod>> \in analysis.pods
               \/ analysis.limited
         THEN counted
       ELSE IF Len(analysis.references) >= MaxReferences
         THEN [counted EXCEPT !.references = <<>>, !.limited = TRUE]
       ELSE [counted EXCEPT
                !.pods = @ \cup {<<key, endpoint.pod>>},
                !.references = Append(@, Reference(key, endpoint.pod, endpoint.ready, "observed"))]

VisitEndpoints(analysis, slice) ==
    LET after[n \in 0..Len(slice.endpoints)] ==
            IF n = 0 THEN analysis
            ELSE VisitEndpoint(after[n - 1], slice, slice.endpoints[n])
    IN after[Len(slice.endpoints)]

VisitSlice(analysis, slice) ==
    LET visits == analysis.visits + Len(slice.endpoints)
        visiting == [analysis EXCEPT !.slices = @ \cup {Key(slice)}, !.visits = visits]
    IN IF analysis.stopped
         THEN analysis
       ELSE IF ~slice.ok \/ Key(slice) \in analysis.slices
         THEN [analysis EXCEPT !.invalid = @ + 1]
       ELSE IF visits > MaxVisits
         THEN [analysis EXCEPT !.counts = [k \in DOMAIN @ |-> NoEndpoints],
                               !.references = <<>>, !.limited = TRUE, !.stopped = TRUE]
       ELSE VisitEndpoints(visiting, slice)

AnalyzeEndpointSlices(slices, keys) ==
    LET after[n \in 0..Len(slices)] ==
            IF n = 0 THEN NoAnalysis(keys) ELSE VisitSlice(after[n - 1], slices[n])
    IN after[Len(slices)]

(***************************************************************************)
(* serviceEndpointReferencesFromObserved: a Pod a selector matches is      *)
(* added when no EndpointSlice lists it for the Service. Whoever hits a    *)
(* bound falls back on what was observed.                                  *)
(***************************************************************************)
UniqueValidPods(items) ==
    {i \in DOMAIN items :
        /\ items[i].kind = "Pod" /\ items[i].named
        /\ \A j \in 1..(i - 1) :
              items[j].kind = "Pod" /\ items[j].named => Key(items[j]) # Key(items[i])}

SupportsSelectorInference(service) ==
    service.named /\ service.ok /\ service.selector # {}

InferPod(inference, service, pod) ==
    LET comparing == [inference EXCEPT !.comparisons = @ + 1]
        known == \E r \in ToSet(inference.references) :
                    r.service = Key(service) /\ r.pod = pod.name
    IN IF inference.gaveUp \/ pod.ns # service.ns
         THEN inference
       ELSE IF comparing.comparisons > MaxComparisons
         THEN [comparing EXCEPT !.gaveUp = TRUE]
       ELSE IF ~Matches(service.selector, pod.labels) \/ known
         THEN comparing
       ELSE IF Len(inference.references) >= MaxReferences
         THEN [comparing EXCEPT !.gaveUp = TRUE]
       ELSE [comparing EXCEPT !.references =
                Append(@, Reference(Key(service), pod.name, pod.ready, "inferred"))]

InferService(inference, service, items) ==
    LET after[n \in 0..Len(items)] ==
            IF n = 0 THEN [inference EXCEPT !.services = @ \cup {Key(service)}]
            ELSE IF n \in UniqueValidPods(items) THEN InferPod(after[n - 1], service, items[n])
            ELSE after[n - 1]
    IN IF Key(service) \in inference.services \/ ~SupportsSelectorInference(service)
       THEN inference
       ELSE after[Len(items)]

\* The Services and the Pods are those among the items.
EndpointReferences(observed, items) ==
    LET after[n \in 0..Len(items)] ==
            IF n = 0 THEN [references |-> observed, services |-> {}, comparisons |-> 0,
                           gaveUp |-> FALSE]
            ELSE IF items[n].kind = "Service" THEN InferService(after[n - 1], items[n], items)
            ELSE after[n - 1]
        inference == after[Len(items)]
    IN IF inference.gaveUp THEN observed ELSE inference.references

\* mergeReferenceEndpointCounts: a Service with observed endpoints keeps their counts.
MergeReferenceCounts(counts, references) ==
    LET after[n \in 0..Len(references)] ==
            IF n = 0 THEN counts
            ELSE LET r == references[n] IN
                IF r.confidence = "inferred" /\ counts[r.service].total = 0
                THEN [after[n - 1] EXCEPT ![r.service] = Counted(@, r.ready)]
                ELSE after[n - 1]
    IN after[Len(references)]
=============================================================================
