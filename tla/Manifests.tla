----------------------------- MODULE Manifests ------------------------------
(***************************************************************************)
(* One manifest, edited field by field, and the two readers of it: the     *)
(* upload parser in the browser and the server that finds it in a cluster. *)
(* The two were written by hand in two languages and are said to keep the  *)
(* same limits; the properties say how far they do.                        *)
(***************************************************************************)
EXTENDS LiveVerdicts

CONSTANTS
    Schemas,        \* which schema module reads the manifest
    Fresh,          \* schema -> a manifest
    Values,         \* schema -> field -> the values an edit may give the field
    MaxEdits        \* bound of the model

VARIABLES schema, manifest, edits
vars == <<schema, manifest, edits>>

Init == schema \in Schemas /\ manifest = Fresh[schema] /\ edits = 0

EditField ==
    /\ edits < MaxEdits
    /\ \E f \in DOMAIN Values[schema] :
        \E v \in Values[schema][f] \ {manifest[f]} : manifest' = [manifest EXCEPT ![f] = v]
    /\ edits' = edits + 1
    /\ UNCHANGED schema

Next == EditField
Spec == Init /\ [][Next]_vars

-----------------------------------------------------------------------------
(* What each reader makes of a manifest. *)

Reading(valid, refs, status) == [valid |-> valid, refs |-> refs, status |-> status]
If(valid, refs) == IF valid THEN refs ELSE {}

UploadReading(s, m) ==
    CASE s = "service" ->
            Reading(ServiceValid(m), If(ServiceInfers(m), {m.selector}), "")
      [] s = "workload" ->
            Reading(TemplateValid(m.template), If(TemplateValid(m.template), TemplateRefs(m.template)),
                    WorkloadStatus(m))
      [] s = "scaler" -> Reading(ScalerSpec(m), If(ScalerSpec(m), {m.target}), ScalerStatus(m))
      [] s = "ingress" -> Reading(IngressValid(m), IngressServices(m), IngressStatus(m))
      [] s = "storage" ->
            Reading(IF m.kind = "PersistentVolume" THEN VolumeSpec(m) ELSE ClaimSpec(m),
                    StorageReferences(m),
                    IF m.kind = "PersistentVolume" THEN VolumeStatus(m) ELSE ClaimStatus(m))
      [] s = "node" -> Reading(TRUE, {}, NodeStatus(m))
      [] s = "pod" -> Reading(TRUE, {}, PodStatus(m))
      [] s = "gateway" -> Reading(GatewayValid(m), {}, GatewayStatus(m))
      [] s = "route" -> Reading(RouteValid(m), RouteReferences(m), RouteStatus(m))
      [] s = "config" -> Reading(TRUE, {}, ConfigMapStatus(m))

LiveReading(s, m) ==
    CASE s = "service" -> Reading(LiveService(m), If(LiveInfers(m), {m.selector}), "")
      [] s = "workload" ->
            Reading(LiveTemplate(m.template), LiveTemplateRefs(m.template), LiveWorkloadStatus(m))
      [] s = "scaler" ->
            Reading(LiveScalerSpec(m), If(LiveScalerSpec(m), {m.target}), LiveScalerStatus(m))
      [] s = "ingress" -> Reading(LiveIngress(m), LiveIngressServices(m), LiveIngressStatus(m))
      [] s = "storage" -> Reading(LiveStorage(m), LiveStorageReferences(m), LiveStorageStatus(m))
      [] s = "node" -> Reading(TRUE, {}, LiveNodeStatus(m))
      [] s = "pod" -> Reading(TRUE, {}, LivePodStatus(m))
      [] s = "gateway" -> Reading(LiveGateway(m), {}, LiveGatewayStatus(m))
      [] s = "route" -> Reading(LiveRoute(m), LiveRouteReferences(m), LiveRouteStatus(m))
      [] s = "config" -> Reading(TRUE, {}, LiveConfigMapStatus(m))

-----------------------------------------------------------------------------
(* Where the two are known to differ. *)

\* Fields a cluster fills in when a Service is created: the upload parser reads manifests
\* from before that, the server only asks for them afterwards.
Allocated(s) ==
    /\ s.type = "NodePort" => s.ports # <<>> /\ \A p \in ToSet(s.ports) : p.nodePort # 0
    /\ s.type = "LoadBalancer" /\ s.external = "Local" => s.healthCheck # 0
    /\ s.policy = "RequireDualStack" => s.clusterIPs \o s.ipFamilies # <<>>

\* What the upload parser takes at its word and a Go decoder fills with a zero value: an
\* image set to "", a port that is 0, a path that is left out, a readiness left out.
Explicit(s, m) ==
    CASE s = "workload" -> \A c \in ToSet(AllContainers(m.template)) : c.image # "empty"
      [] s = "pod" -> \A c \in ToSet(AllStatuses(m)) : c.image # "empty" /\ c.ready # "bad"
      [] s = "ingress" ->
            /\ \A p \in ToSet(Paths(m)) : p.path # "unset"
            /\ \A b \in ToSet(Backends(m)) : b.portNumber # 0
      [] s = "route" ->
            \A r \in ToSet(m.parents \o RouteBackends(m)) : r.port # 0
      [] s = "node" -> ~(LiveNodeStatus(m) = "unknown" /\ NodeObserved(m))
      [] OTHER -> TRUE

\* Limits only one of the two has.
WithinBoth(s, m) ==
    CASE s = "workload" -> Cardinality(TemplateRefs(m.template)) <= Cap.entries
      [] s = "route" -> m.namespace # ""
      [] OTHER -> TRUE

\* Conditions and counts only one of the two looks at when it rates an object: the server
\* wants ready and available within the replicas that exist and reports a failed Job
\* before it looks at its completions; the upload parser asks a Gateway also for
\* ResolvedRefs and a bounded total of routes, and a route for all four conditions.
RatedAlike(s, m) ==
    CASE s = "workload" ->
            /\ m.kind \in {"Deployment", "ReplicaSet", "StatefulSet"} =>
                    Count(m.ready, 0) <= m.replicas /\ Count(m.available, 0) <= m.replicas
            /\ m.kind = "Job" /\ Count(m.failed, 0) > 0 => Counted(m.desired)
      [] s = "gateway" ->
            ~Unready(m.conditions, {"ResolvedRefs"}) /\ Attached(m.statuses) <= MaxCount
      [] s = "route" ->
            \A c \in ToSet(m.statuses) : ~Unready(c, {"Programmed", "Ready"})
      [] OTHER -> TRUE

-----------------------------------------------------------------------------
\* A manifest is read alike on both sides: accepted by both or by neither, and with the
\* same relations drawn from it, apart from the differences named above. The validators
\* are two bodies of code in two languages, tested each on its own.
SameVerdict ==
    LET up == UploadReading(schema, manifest)
        live == LiveReading(schema, manifest)
    IN IF schema = "service"
       THEN /\ live.valid <=> up.valid /\ Allocated(manifest)
            /\ live.valid => live.refs = up.refs
       ELSE Explicit(schema, manifest) /\ WithinBoth(schema, manifest) =>
                live.valid = up.valid /\ live.refs = up.refs

\* Where the two readers look at the same fields, they give the object the same status.
SameStatus ==
    (Explicit(schema, manifest) /\ WithinBoth(schema, manifest) /\ RatedAlike(schema, manifest))
        => LiveReading(schema, manifest).status = UploadReading(schema, manifest).status

=============================================================================
