---------------------------- MODULE LiveVerdicts ----------------------------
(***************************************************************************)
(* What the server says of the same manifests when a cluster holds them:   *)
(* the validators of src/server/internal/provider, kept by hand beside     *)
(* the upload parser's. A record is read as UploadVerdicts reads it, with  *)
(* one difference: a Go decoder takes a text that is not set and the text  *)
(* "" for the same value.                                                  *)
(***************************************************************************)
EXTENDS UploadVerdicts

-----------------------------------------------------------------------------
(* Service *)

LiveServicePort(s, port) ==
    /\ Port(port.number) /\ OneOf(port.protocol, {"TCP", "UDP", "SCTP"})
    /\ "bad" \notin {port.target, port.app}
    /\ CASE ServiceType(s) \in {"ClusterIP", "ExternalName"} -> port.nodePort = 0
         [] ServiceType(s) = "NodePort" -> Port(port.nodePort)
         [] OTHER -> port.nodePort = 0 \/ Port(port.nodePort)

LiveServicePorts(s) ==
    LET allocated == SelectSeq(s.ports, LAMBDA port : port.nodePort > 0)
    IN /\ Len(s.ports) <= Cap.servicePorts
       /\ \A port \in ToSet(s.ports) : LiveServicePort(s, port)
       /\ Distinct([i \in DOMAIN s.ports |-> <<Protocol(s.ports[i]), s.ports[i].number>>])
       /\ Distinct([i \in DOMAIN allocated |->
                        <<Protocol(allocated[i]), allocated[i].nodePort>>])
       /\ Len(s.ports) > 1 => \A port \in ToSet(s.ports) : port.name # ""
       /\ Distinct([i \in DOMAIN s.ports |-> s.ports[i].name])
       /\ "bad" \notin {port.name : port \in ToSet(s.ports)}
       /\ s.type = "NodePort" => s.ports # <<>>

LiveServiceIPs(s) ==
    LET headless == s.clusterIP = "None"
        dual == Len(s.clusterIPs) = (IF headless THEN 1 ELSE 2) /\ Len(s.ipFamilies) = 2
    IN IF s.type = "ExternalName"
       THEN s.clusterIP = "" /\ s.clusterIPs = <<>> /\ s.ipFamilies = <<>> /\ s.policy = ""
       ELSE /\ OneOf(s.policy, {"SingleStack", "PreferDualStack", "RequireDualStack"})
            /\ headless => ServiceType(s) = "ClusterIP"
            /\ s.clusterIP \in {"", "None"} \/ Address(s.clusterIP)
            /\ Len(s.clusterIPs) <= 2 /\ Len(s.ipFamilies) <= 2
            /\ s.clusterIPs # <<>> => s.clusterIP # "" /\ s.clusterIPs[1] = s.clusterIP
            /\ IF headless THEN s.clusterIPs \in {<<>>, <<"None">>}
               ELSE /\ Every(s.clusterIPs, Address)
                    /\ Distinct([i \in DOMAIN s.clusterIPs |-> Family[s.clusterIPs[i]]])
            /\ ToSet(s.ipFamilies) \subseteq {"IPv4", "IPv6"} /\ Distinct(s.ipFamilies)
            /\ FamiliesMatch(s)
            /\ OneOf(s.policy, {"SingleStack"}) =>
                    Len(s.clusterIPs) <= 1 /\ Len(s.ipFamilies) <= 1
            /\ s.policy = "RequireDualStack" => dual

LiveServiceTraffic(s) ==
    /\ Len(s.ports) <= Cap.servicePorts
    /\ OneOf(s.internal, {"Cluster", "Local"}) /\ OneOf(s.external, {"Cluster", "Local"})
    /\ CASE s.type = "ExternalName" ->
                s.internal = "" /\ s.external = "" /\ s.healthCheck = 0
                    /\ s.class = "" /\ s.allocate = ""
         [] s.type = "LoadBalancer" /\ s.external = "Local" ->
                /\ s.class # "bad" /\ Port(s.healthCheck)
                /\ ~\E port \in ToSet(s.ports) :
                        Protocol(port) = "TCP" /\ port.nodePort = s.healthCheck
         [] s.type = "LoadBalancer" -> s.class # "bad" /\ s.healthCheck = 0
         [] OTHER -> s.class = "" /\ s.allocate = "" /\ s.healthCheck = 0

LiveServiceSession(s) ==
    CASE s.type = "ExternalName" \/ OneOf(s.affinity, {"None"}) ->
            OneOf(s.affinity, {"None"}) /\ s.config = "unset"
      [] s.affinity = "ClientIP" ->
            s.config = "set" => s.timeout > 0 /\ s.timeout <= Cap.sessionSeconds
      [] OTHER -> FALSE

LiveServiceExposure(s) ==
    /\ Len(s.externalIPs) <= Cap.externalIPs
    /\ Every(s.externalIPs, Address) /\ Distinct(s.externalIPs)
    /\ Len(s.ranges) <= Cap.sourceRanges /\ Every(s.ranges, Named) /\ Distinct(s.ranges)
    /\ OneOf(s.distribution, {"PreferSameZone", "PreferSameNode", "PreferClose"})
    /\ s.loadBalancerIP = "" \/ Address(s.loadBalancerIP)
    /\ s.type = "ExternalName" => s.distribution = ""
    /\ s.ranges # <<>> \/ s.loadBalancerIP # "" => s.type = "LoadBalancer"

LiveService(s) ==
    /\ OneOf(s.type, {"ClusterIP", "NodePort", "LoadBalancer", "ExternalName"})
    /\ LiveServiceIPs(s) /\ LiveServicePorts(s) /\ s.selector # "bad" /\ LiveServiceTraffic(s)
    /\ LiveServiceSession(s) /\ LiveServiceExposure(s)
    /\ IF s.type = "ExternalName" THEN Named(s.externalName) ELSE s.externalName = ""

LiveInfers(s) == s.type # "ExternalName" /\ s.selector # "" /\ LiveService(s)

-----------------------------------------------------------------------------
(* Workloads *)

LiveContainer(c) ==
    /\ Named(c.name) /\ c.image # "bad"
    /\ Len(c.envFrom) <= Cap.entries /\ Len(c.env) <= Cap.entries
    /\ \A e \in ToSet(c.envFrom) \cup ToSet(c.env) :
            Cardinality(Sources(e)) = 1 /\ "bad" \notin {e[f] : f \in DOMAIN e}

LiveTemplate(t) ==
    LET all == AllContainers(t)
    IN /\ t.containers # <<>> /\ Len(all) <= Cap.containers
       /\ Len(t.pulls) <= Cap.entries /\ Len(t.volumes) <= Cap.entries
       /\ t.account # "bad"
       /\ Every(all, LiveContainer) /\ Distinct([i \in DOMAIN all |-> all[i].name])
       /\ Every(t.pulls, Named)
       /\ \A v \in ToSet(t.volumes) :
            Cardinality(Sources(v)) <= 1 /\ "bad" \notin {v[f] : f \in DOMAIN v}

\* podSpecRefs keeps the first maxPodReferenceResults, twice the entries of one collection:
\* the instances stay below it.
LiveTemplateRefs(t) == IF LiveTemplate(t) THEN TemplateRefs(t) ELSE {}

LiveReplicas(w) ==
    LET ready == Count(w.ready, 0)
        available == Count(w.available, 0)
    IN /\ Counted(w.desired) /\ Counted(w.ready) /\ Counted(w.available)
       /\ ready <= w.replicas /\ available <= w.replicas
       /\ (IF w.kind = "Deployment" THEN available ELSE ready) >= Count(w.desired, 1)

LiveJob(w) ==
    IF ~(Counted(w.ready) /\ Counted(w.failed) /\ w.active # "bad") THEN "warning"
    ELSE IF Count(w.failed, 0) > 0 THEN "error"
    ELSE IF Counted(w.desired) /\ Count(w.ready, 0) >= Count(w.desired, 1)
         THEN "healthy" ELSE "warning"

LiveWorkloadStatus(w) ==
    LET healthy ==
            CASE w.kind \in {"Deployment", "ReplicaSet", "StatefulSet"} -> LiveReplicas(w)
              [] w.kind = "DaemonSet" ->
                    /\ Counted(w.desired) /\ Counted(w.ready)
                    /\ Count(w.ready, 0) = Count(w.desired, 0)
              [] OTHER -> Named(w.schedule) /\ w.active # "bad"
    IN IF ~LiveTemplate(w.template) THEN "warning"
       ELSE IF w.kind = "Job" THEN LiveJob(w)
       ELSE IF healthy THEN "healthy" ELSE "warning"

-----------------------------------------------------------------------------
(* HorizontalPodAutoscaler: a metric that does not decode is invalid.      *)

LiveMetric(m, amounts) ==
    /\ m.sources = {m.type}
    /\ CASE m.type \in {"Resource", "ContainerResource"} ->
                /\ Named(m.name) /\ m.metric = ""
                /\ IF m.type = "Resource" THEN m.container = "" ELSE Named(m.container)
         [] OTHER -> /\ m.name = "" /\ m.container = "" /\ Named(m.metric)
                     /\ m.type = "Object" => Named(m.object)
    /\ "bad" \notin {m.value, m.average} /\ m.utilization # Malformed
    /\ Cardinality(Amounts(m)) = 1
    /\ Amounts(m) \subseteq
            amounts \cup (IF m.type \in {"Object", "External"} THEN {"value"}
                          ELSE IF m.type = "Pods" THEN {} ELSE {"utilization"})

LiveScalerSpec(h) ==
    /\ Named(h.target) /\ h.maximum # Absent /\ Len(h.metrics) <= Cap.metrics
    /\ Counted(h.minimum) /\ h.maximum > 0 /\ Counted(h.maximum)
    /\ Count(h.minimum, 1) <= h.maximum
    /\ \A m \in ToSet(h.metrics) :
            LiveMetric(m, {"average"}) /\ Amounts(m) = {m.kind} /\ m.utilization # 0
    /\ Count(h.minimum, 1) # 0
        \/ \E m \in ToSet(h.metrics) : m.type \in {"Object", "External"}

LiveScalerStatus(h) ==
    LET valid ==
            /\ {h.current, h.desired} \subseteq 0..MaxCount
            /\ Len(h.currents) <= Cap.metrics
            /\ \A m \in ToSet(h.currents) : LiveMetric(m, {"average"})
            /\ ConditionsOk(h.conditions, Cap.conditions) /\ \A c \in ToSet(h.conditions) : ScalerType(c.type)
        unready == \E c \in ToSet(h.conditions) :
                        c.type \in {"AbleToScale", "ScalingActive"} /\ c.status # "True"
    IN IF LiveScalerSpec(h) /\ valid /\ ~unready /\ (h.desired = 0 \/ h.current >= h.desired)
       THEN "healthy" ELSE "warning"

-----------------------------------------------------------------------------
(* Ingress *)

LiveIngressBackend(b) ==
    /\ (b.service = "") # (b.resource = "")
    /\ IF b.service # ""
       THEN /\ b.service # "bad"
            /\ \/ b.portNumber \in {Absent, 0} /\ Named(b.portName)
               \/ b.portName = "" /\ Port(b.portNumber)
       ELSE b.resource # "bad"

LiveIngressPath(p) ==
    /\ p.type \in {"Exact", "Prefix", "ImplementationSpecific"}
    /\ p.path = "/" \/ (p.path \in {"", "unset"} /\ p.type = "ImplementationSpecific")

LiveIngress(i) ==
    /\ i.class # "bad"
    /\ i.rules # <<>> \/ i.default # <<>>
    /\ Every(i.default, LiveIngressBackend)
    /\ Len(i.rules) <= Cap.rules /\ Len(i.tls) <= Cap.tls
    /\ \A r \in ToSet(i.rules) :
        /\ r.host # "bad" /\ r.paths # <<>> /\ Len(r.paths) <= Cap.paths
        /\ \A p \in ToSet(r.paths) : LiveIngressPath(p) /\ LiveIngressBackend(p.backend)
    /\ Len(Backends(i)) <= Cap.backends
    /\ \A t \in ToSet(i.tls) :
        Len(t.hosts) <= Cap.tlsHosts /\ t.secret # "bad" /\ Every(t.hosts, Named)
    /\ Len(TLSHosts(i)) <= Cap.allTLSHosts

LiveIngressServices(i) ==
    IF LiveIngress(i) THEN {b.service : b \in ToSet(Backends(i))} \ {""} ELSE {}

LiveIngressStatus(i) ==
    IF /\ LiveIngress(i) /\ Len(i.points) <= Cap.points
       /\ \A p \in ToSet(i.points) :
            /\ Len(p.ports) <= Cap.pointPorts /\ (p.ip # "") # (p.hostname # "")
            /\ p.ip # "bad" /\ p.hostname # "bad" /\ Every(p.ports, Named)
    THEN "healthy" ELSE "warning"

-----------------------------------------------------------------------------
(* Node and Pod status *)

LiveNodeStatus(n) ==
    LET observed == n.conditions # <<>> \/ n.capacity.set \/ n.allocatable.set \/ n.version # ""
        lists == {l \in {n.capacity, n.allocatable} : l.set}
        valid == /\ ConditionsOk(n.conditions, Cap.nodeConditions)
                 /\ \A l \in lists : l.entries <= Cap.amounts /\ l.cpu # "bad" /\ Counted(l.pods)
                 /\ PodAllocation(n)
                 /\ n.version # "bad"
        ready == \E c \in ToSet(n.conditions) : c.type = "Ready" /\ c.status = "True"
    IN IF ~observed THEN "unknown" ELSE IF valid /\ ready THEN "healthy" ELSE "warning"

LiveContainerState(s) ==
    /\ Cardinality(s.set) <= 1
    /\ s.set \in {{"waiting"}, {"terminated"}} => s.reason # "bad"
    /\ "terminated" \in s.set => s.exit \in 0..MaxCount

LivePodStatus(p) ==
    LET all == AllStatuses(p)
        valid == /\ PodPhase(p.phase) /\ Len(all) <= Cap.statuses
                 /\ Distinct([i \in DOMAIN all |-> all[i].name])
                 /\ \A c \in ToSet(all) :
                    /\ Named(c.name) /\ c.restarts \in 0..MaxCount /\ c.image # "bad"
                    /\ LiveContainerState(c.state) /\ LiveContainerState(c.last)
        running == p.statuses # <<>>
                    /\ \A c \in ToSet(p.statuses) : c.state.set = {"running"}
        ready == \A c \in ToSet(p.statuses) : c.ready = "true"
    IN CASE ~valid -> "warning"
         [] p.phase = "" -> "unknown"
         [] p.phase = "Failed" -> "error"
         [] p.phase = "Succeeded" -> "healthy"
         [] p.phase = "Running" /\ running /\ ready -> "healthy"
         [] OTHER -> "warning"

-----------------------------------------------------------------------------
(* Gateways and their routes *)

LiveGateway(g) ==
    /\ Named(g.class) /\ g.listeners # <<>> /\ Len(g.listeners) <= Cap.listeners
    /\ GatewayAddresses(g.addresses)
    /\ \A l \in ToSet(g.listeners) :
        Named(l.name) /\ Named(l.protocol) /\ Port(l.port) /\ l.hostname # "bad"
    /\ Distinct([i \in DOMAIN g.listeners |-> g.listeners[i].name])

LiveGatewayStatus(g) ==
    LET valid == /\ GatewayAddresses(g.assigned)
                 /\ ConditionsOk(g.conditions, Cap.conditions)
                 /\ Len(g.statuses) <= Cap.listeners
                 /\ \A l \in ToSet(g.statuses) :
                    /\ Named(l.name) /\ l.attached \in 0..MaxCount
                    /\ ConditionsOk(l.conditions, Cap.conditions)
                 /\ Distinct([i \in DOMAIN g.statuses |-> g.statuses[i].name])
    IN IF LiveGateway(g) /\ valid /\ ~Unready(g.conditions, {"Accepted", "Programmed", "Ready"})
       THEN "healthy" ELSE "warning"

LiveReference(r, route) == Named(r.name) /\ Named(Home(r, route))

LiveRoute(r) ==
    /\ Named(r.namespace) /\ Len(r.hostnames) <= Cap.hostnames
    /\ Len(r.parents) <= Cap.parents /\ Len(r.rules) <= Cap.rules
    /\ ~(r.kind \in {"TLSRoute", "TCPRoute"} /\ r.rules = <<>>)
    /\ ~(r.kind = "TCPRoute" /\ r.hostnames # <<>>)
    /\ Every(r.hostnames, Named)
    /\ \A p \in ToSet(r.parents) :
        LiveReference(p, r) /\ p.section # "bad" /\ p.port \in {Absent, 0} /\ p.kind # "bad"
    /\ \A rule \in ToSet(r.rules) :
        /\ Len(rule.backends) <= Cap.backendRefs
        /\ r.kind \in {"TLSRoute", "TCPRoute"} => rule.backends # <<>>
        /\ \A b \in ToSet(rule.backends) :
            /\ LiveReference(b, r) /\ b.section = "" /\ b.kind # "bad"
            /\ Port(b.port) \/ (b.port \in {Absent, 0} /\ b.kind \notin {"", "Service"})
        /\ r.kind = "GRPCRoute" => rule.method # "bad"
    /\ Len(RouteBackends(r)) <= Cap.backends

LiveRouteReferences(r) ==
    IF ~LiveRoute(r) THEN {}
    ELSE {Ref("Gateway", <<Home(p, r), p.name>>, "parentRefs") :
              p \in {q \in ToSet(r.parents) : q.kind \in {"", "Gateway"}}}
         \cup {Ref("Service", <<Home(b, r), b.name>>, "backendRefs") :
              b \in {c \in ToSet(RouteBackends(r)) : c.kind \in {"", "Service"}}}

LiveRouteStatus(r) ==
    IF /\ LiveRoute(r) /\ Len(r.statuses) <= Cap.parents
       /\ \A s \in ToSet(r.statuses) :
            /\ ConditionsOk(s, Cap.conditions)
            /\ ~Unready(s, {"Accepted", "ResolvedRefs"})
    THEN "healthy" ELSE "warning"

-----------------------------------------------------------------------------
(* Storage and ConfigMap *)

LiveAmounts(list, required) ==
    LET keys == IF list.set THEN list.keys ELSE {}
    IN /\ Cardinality(keys) <= Cap.amounts /\ "bad" \notin keys
       /\ keys # {} => list.amount # "bad"
       /\ required => "storage" \in keys

LiveModes(modes, required) ==
    /\ Len(modes) \in (IF required THEN 1 ELSE 0)..4 /\ Distinct(modes)
    /\ \A m \in ToSet(modes) : m \in AccessModes

LiveStorage(s) ==
    /\ LiveAmounts(s.amounts, s.kind = "PersistentVolume")
    /\ LiveModes(s.modes, s.kind = "PersistentVolume")
    /\ OneOf(s.mode, {"Filesystem", "Block"}) /\ s.class # "bad"
    /\ IF s.kind = "PersistentVolume" THEN OneOf(s.reclaim, {"Retain", "Recycle", "Delete"})
       ELSE s.volume # "bad"

LiveStorageReferences(s) ==
    LET volume == IF s.kind = "PersistentVolumeClaim" THEN {Ref("PersistentVolume", s.volume, "volumeName")}
                  ELSE {}
    IN IF LiveStorage(s)
       THEN {r \in volume \cup {Ref("StorageClass", s.class, "class")} : r.name # ""} ELSE {}

LiveStorageStatus(s) ==
    LET claim == s.kind = "PersistentVolumeClaim"
        phases == IF claim THEN {"Pending", "Bound", "Lost"}
                  ELSE {"Pending", "Available", "Bound", "Released", "Failed"}
    IN CASE ~(LiveStorage(s) /\ OneOf(s.phase, phases)) -> "warning"
         [] claim /\ ~(LiveAmounts(s.got, FALSE) /\ LiveModes(s.gotModes, FALSE)) -> "warning"
         [] OTHER -> CASE s.phase = "" -> "unknown"
                       [] s.phase \in {"Bound", "Available"} -> "healthy"
                       [] s.phase \in {"Lost", "Failed"} -> "error"
                       [] OTHER -> "warning"

LiveConfigMapStatus(c) ==
    IF /\ "bad" \notin c.data \cup c.binary \cup {c.immutable}
       /\ Cardinality(c.data) + Cardinality(c.binary) <= Cap.keys
       /\ c.data \cap c.binary = {}
    THEN "healthy" ELSE "warning"

=============================================================================
