--------------------------- MODULE UploadVerdicts ---------------------------
(***************************************************************************)
(* What the upload parser says of one manifest: whether its content is     *)
(* valid, its status, and the objects it refers to. One operator per       *)
(* schema module of src/website/src/features/upload; an invalid manifest   *)
(* is a warning and refers to nothing.                                     *)
(*                                                                         *)
(* A manifest is a record of its fields. A text is "" when it is not set   *)
(* and "bad" when its grammar or its type is refused; a number is Absent   *)
(* or Malformed in the same cases. A list is a sequence.                   *)
(***************************************************************************)
EXTENDS Integers, Sequences, FiniteSets, SequencesExt

CONSTANTS
    Cap,            \* the collection limits: a record of positive numbers
    MaxCount        \* maxSummaryCount

Absent == -1
Malformed == -2

Family == [four |-> "IPv4", four2 |-> "IPv4", six |-> "IPv6"]
Address(a) == a \in DOMAIN Family

Named(n) == n \notin {"", "bad"}
OneOf(value, values) == value \in values \cup {""}
Distinct(s) == IsInjective(s)
Every(s, Test(_)) == \A i \in DOMAIN s : Test(s[i])
Count(n, fallback) == IF n = Absent THEN fallback ELSE n
Counted(n) == n = Absent \/ n \in 0..MaxCount
Port(n) == n \in 1..65535

-----------------------------------------------------------------------------
(* Service *)

ServiceType(s) == IF s.type = "" THEN "ClusterIP" ELSE s.type
Protocol(port) == IF port.protocol = "" THEN "TCP" ELSE port.protocol

FamiliesMatch(s) ==
    LET addresses == IF s.clusterIPs # <<>> THEN s.clusterIPs
                     ELSE IF s.clusterIP # "" THEN <<s.clusterIP>> ELSE <<>>
    IN \/ s.clusterIP = "None" \/ s.ipFamilies = <<>> \/ addresses = <<>>
       \/ [i \in DOMAIN addresses |-> Family[addresses[i]]] = s.ipFamilies

\* Mutant: the addresses may be of one family.
ServiceAddressesAnyFamily(s) ==
    /\ s.clusterIP \in {""} \cup DOMAIN Family
        \/ (s.clusterIP = "None" /\ ServiceType(s) = "ClusterIP")
    /\ Len(s.clusterIPs) <= 2
    /\ s.clusterIPs # <<>> => s.clusterIP # "" /\ s.clusterIPs[1] = s.clusterIP
    /\ IF s.clusterIP = "None" THEN s.clusterIPs \in {<<>>, <<"None">>}
       ELSE Every(s.clusterIPs, Address) /\ Distinct(s.clusterIPs)

ServiceAddresses(s) ==
    /\ s.clusterIP \in {""} \cup DOMAIN Family
        \/ (s.clusterIP = "None" /\ ServiceType(s) = "ClusterIP")
    /\ Len(s.clusterIPs) <= 2
    /\ s.clusterIPs # <<>> => s.clusterIP # "" /\ s.clusterIPs[1] = s.clusterIP
    /\ IF s.clusterIP = "None" THEN s.clusterIPs \in {<<>>, <<"None">>}
       ELSE /\ Every(s.clusterIPs, Address)
            /\ \A i, j \in DOMAIN s.clusterIPs :
                    i # j => Family[s.clusterIPs[i]] # Family[s.clusterIPs[j]]

ServiceIPs(s) ==
    /\ OneOf(s.policy, {"SingleStack", "PreferDualStack", "RequireDualStack"})
    /\ ToSet(s.ipFamilies) \subseteq {"IPv4", "IPv6"} /\ Distinct(s.ipFamilies)
    /\ IF s.type = "ExternalName"
       THEN s.clusterIP = "" /\ s.clusterIPs = <<>> /\ s.ipFamilies = <<>> /\ s.policy = ""
       ELSE /\ ServiceAddresses(s)
            /\ FamiliesMatch(s)
            /\ OneOf(s.policy, {"SingleStack"}) =>
                    Len(s.clusterIPs) <= 1 /\ Len(s.ipFamilies) <= 1
            /\ s.policy = "RequireDualStack" /\ s.clusterIPs \o s.ipFamilies # <<>> =>
                    /\ Len(s.clusterIPs) = IF s.clusterIP = "None" THEN 1 ELSE 2
                    /\ Len(s.ipFamilies) = 2

ServicePort(s, port) ==
    /\ Port(port.number)
    /\ OneOf(port.protocol, {"TCP", "UDP", "SCTP"})
    /\ port.target # "bad" /\ port.app # "bad"
    /\ port.name = "" => Len(s.ports) = 1
    /\ port.name # "bad"
    /\ port.nodePort = 0
        \/ (Port(port.nodePort) /\ ServiceType(s) \notin {"ClusterIP", "ExternalName"})

ServicePorts(s) ==
    /\ Len(s.ports) <= Cap.servicePorts
    /\ \A port \in ToSet(s.ports) : ServicePort(s, port)
    /\ \A i, j \in DOMAIN s.ports :
        LET a == s.ports[i]
            b == s.ports[j]
        IN i # j => /\ a.name # b.name
                    /\ Protocol(a) = Protocol(b) =>
                        a.number # b.number /\ (a.nodePort = b.nodePort => a.nodePort = 0)

ServiceTraffic(s) ==
    /\ OneOf(s.internal, {"Cluster", "Local"}) /\ OneOf(s.external, {"Cluster", "Local"})
    /\ s.healthCheck = 0 \/ Port(s.healthCheck)
    /\ s.class # "bad"
    /\ ServiceType(s) # "LoadBalancer" => s.class = "" /\ s.allocate = ""
    /\ s.type = "ExternalName" => s.internal = "" /\ s.external = "" /\ s.healthCheck = 0
    /\ s.healthCheck # 0 =>
        /\ s.type = "LoadBalancer" /\ s.external = "Local"
        /\ \A port \in ToSet(s.ports) : Protocol(port) = "TCP" => port.nodePort # s.healthCheck

\* The timeout of ClientIP: Absent, or 1..maxSessionAffinitySeconds, which stands for a day.
ServiceSession(s) ==
    /\ OneOf(s.affinity, {"None", "ClientIP"})
    /\ s.type = "ExternalName" => OneOf(s.affinity, {"None"})
    /\ IF s.affinity = "ClientIP"
       THEN s.config \in {"unset", "empty"} \/ s.timeout \in 1..Cap.sessionSeconds
       ELSE s.config = "unset"

ServiceExposure(s) ==
    /\ Len(s.externalIPs) <= Cap.externalIPs /\ Distinct(s.externalIPs)
    /\ Every(s.externalIPs, Address)
    /\ Len(s.ranges) <= Cap.sourceRanges /\ Distinct(s.ranges) /\ "bad" \notin ToSet(s.ranges)
    /\ OneOf(s.distribution, {"PreferSameZone", "PreferSameNode", "PreferClose"})
    /\ s.loadBalancerIP = "" \/ Address(s.loadBalancerIP)
    /\ s.type # "LoadBalancer" => s.ranges = <<>> /\ s.loadBalancerIP = ""
    /\ s.type = "ExternalName" => s.distribution = ""

ServiceValid(s) ==
    /\ OneOf(s.type, {"ClusterIP", "NodePort", "LoadBalancer", "ExternalName"})
    /\ s.selector # "bad"
    /\ IF s.type = "ExternalName" THEN Named(s.externalName) ELSE s.externalName = ""
    /\ ServiceIPs(s) /\ ServicePorts(s) /\ ServiceTraffic(s) /\ ServiceSession(s)
    /\ ServiceExposure(s)

\* uploadServiceSupportsSelectorInference: whether Pods may be guessed from the selector.
ServiceInfers(s) == ServiceValid(s) /\ s.type # "ExternalName" /\ s.selector # ""

-----------------------------------------------------------------------------
(* Workloads: the Pod template and the counts *)

Ref(kind, name, via) == [kind |-> kind, name |-> name, via |-> via]

\* The sources a volume or an environment entry names. An entry of env is one with a
\* valueFrom; an image that is set to "" is "empty".
Sources(entry) == {f \in DOMAIN entry : entry[f] # ""}
RefsOf(entry, via) ==
    {Ref(f, entry[f], via) : f \in Sources(entry) \ {"field"}}

AllContainers(t) == t.inits \o t.containers

TemplateRefs(t) ==
    LET all == ToSet(AllContainers(t))
    IN (IF t.account = "" THEN {} ELSE {Ref("ServiceAccount", t.account, "account")})
        \cup {Ref("Secret", name, "pull") : name \in ToSet(t.pulls)}
        \cup UNION {RefsOf(v, "mounts") : v \in ToSet(t.volumes)}
        \cup UNION {RefsOf(e, "envFrom") : e \in UNION {ToSet(c.envFrom) : c \in all}}
        \cup UNION {RefsOf(e, "env") : e \in UNION {ToSet(c.env) : c \in all}}

ContainerOk(c) ==
    /\ Named(c.name) /\ c.image \notin {"bad", "empty"}
    /\ Len(c.envFrom) <= Cap.entries /\ Len(c.env) <= Cap.entries
    /\ \A e \in ToSet(c.envFrom \o c.env) : Cardinality(Sources(e)) = 1

TemplateValid(t) ==
    /\ t.containers # <<>> /\ Len(AllContainers(t)) <= Cap.containers
    /\ Len(t.pulls) <= Cap.entries /\ Len(t.volumes) <= Cap.entries
    /\ \A v \in ToSet(t.volumes) : Cardinality(Sources(v)) <= 1
    /\ Every(AllContainers(t), ContainerOk)
    /\ Distinct([i \in DOMAIN AllContainers(t) |-> AllContainers(t)[i].name])
    /\ \A r \in TemplateRefs(t) : Named(r.name)
    /\ Cardinality(TemplateRefs(t)) <= Cap.entries

WorkloadStatus(w) ==
    LET desired == Count(w.desired, IF w.kind = "DaemonSet" THEN 0 ELSE 1)
        ready == Count(w.ready, 0)
        counted == Counted(w.desired) /\ Counted(w.ready)
        enough == IF w.kind = "Deployment" THEN Count(w.available, 0) >= desired
                  ELSE ready >= desired
    IN CASE ~TemplateValid(w.template) -> "warning"
         [] w.kind \in {"Deployment", "ReplicaSet", "StatefulSet"} ->
                IF counted /\ Counted(w.available) /\ enough THEN "healthy" ELSE "warning"
         [] w.kind = "DaemonSet" ->
                IF counted /\ ready = desired THEN "healthy" ELSE "warning"
         [] w.kind = "Job" ->
                IF ~(counted /\ Counted(w.failed) /\ w.active # "bad") THEN "warning"
                ELSE IF Count(w.failed, 0) > 0 THEN "error"
                ELSE IF enough THEN "healthy" ELSE "warning"
         [] w.kind = "CronJob" ->
                IF Named(w.schedule) /\ w.active # "bad" THEN "healthy" ELSE "warning"

-----------------------------------------------------------------------------
(* HorizontalPodAutoscaler *)

MetricIdentity(m) ==
    CASE m.type = "Resource" -> Named(m.name) /\ m.container = "" /\ m.metric = ""
      [] m.type = "ContainerResource" -> Named(m.name) /\ Named(m.container) /\ m.metric = ""
      [] m.type = "Object" -> m.name = "" /\ m.container = "" /\ Named(m.metric) /\ Named(m.object)
      [] OTHER -> m.name = "" /\ m.container = "" /\ Named(m.metric)

\* The amounts a metric gives: a quantity, an average, a utilization.
Amounts(m) == {f \in {"value", "average"} : m[f] # ""}
                \cup (IF m.utilization = Absent THEN {} ELSE {"utilization"})
AmountsOk(m) == m.value # "bad" /\ m.average # "bad" /\ m.utilization # Malformed
Allowed(type) ==
    CASE type \in {"Resource", "ContainerResource"} -> {"average", "utilization"}
      [] type = "Pods" -> {"average"}
      [] OTHER -> {"value", "average"}

TargetMetric(m) ==
    /\ AmountsOk(m) /\ m.utilization # 0
    /\ m.kind \in Allowed(m.type) \cup {"average"}
    /\ Amounts(m) = {m.kind}
CurrentMetric(m) ==
    AmountsOk(m) /\ Cardinality(Amounts(m)) = 1 /\ Amounts(m) \subseteq Allowed(m.type)

MetricsOk(metrics) ==
    /\ Len(metrics) <= Cap.metrics
    /\ \A m \in ToSet(metrics) : m.sources = {m.type} /\ MetricIdentity(m)

ScalerSpec(h) ==
    /\ Named(h.target) /\ Counted(h.minimum) /\ Counted(h.maximum) /\ Count(h.maximum, 0) > 0
    /\ Count(h.minimum, 1) <= h.maximum
    /\ MetricsOk(h.metrics) /\ \A m \in ToSet(h.metrics) : TargetMetric(m)
    /\ Count(h.minimum, 1) = 0 =>
        \E m \in ToSet(h.metrics) : m.type \in {"Object", "External"}

\* The conditions of a status: of known types, each once.
ConditionsOk(conditions, limit) ==
    /\ Len(conditions) <= limit
    /\ \A c \in ToSet(conditions) : Named(c.type) /\ c.status # "bad"
    /\ Distinct([i \in DOMAIN conditions |-> conditions[i].type])

ScalerType(type) == type \in {"AbleToScale", "ScalingActive", "ScalingLimited"}
ScalerStatusOk(h) ==
    /\ Counted(h.current) /\ Counted(h.desired) /\ Absent \notin {h.current, h.desired}
    /\ MetricsOk(h.currents) /\ \A m \in ToSet(h.currents) : CurrentMetric(m)
    /\ ConditionsOk(h.conditions, Cap.conditions) /\ \A c \in ToSet(h.conditions) : ScalerType(c.type)

ScalerStatus(h) ==
    IF /\ ScalerSpec(h) /\ ScalerStatusOk(h)
       /\ \A c \in ToSet(h.conditions) :
            c.type \in {"AbleToScale", "ScalingActive"} => c.status = "True"
       /\ h.desired = 0 \/ h.current >= h.desired
    THEN "healthy" ELSE "warning"

-----------------------------------------------------------------------------
(* Ingress: a port number that is not set is Absent; a path that is not set *)
(* is "unset", since "" is a path of its own.                               *)

IngressBackend(b) ==
    /\ (b.service = "") # (b.resource = "")
    /\ b.resource # "bad"
    /\ b.service # "" =>
        /\ Named(b.service)
        /\ \/ Named(b.portName) /\ b.portNumber = Absent
           \/ Port(b.portNumber) /\ b.portName = ""

IngressPath(p) ==
    \/ p.path = "/" /\ p.type \in {"Exact", "Prefix", "ImplementationSpecific"}
    \/ p.path = "" /\ p.type = "ImplementationSpecific"

Paths(i) == FlattenSeq([r \in DOMAIN i.rules |-> i.rules[r].paths])
Backends(i) == i.default \o [p \in DOMAIN Paths(i) |-> Paths(i)[p].backend]
TLSHosts(i) == FlattenSeq([t \in DOMAIN i.tls |-> i.tls[t].hosts])

IngressValid(i) ==
    /\ i.class # "bad"
    /\ i.rules \o i.default # <<>> /\ Len(i.rules) <= Cap.rules /\ Len(i.tls) <= Cap.tls
    /\ \A r \in ToSet(i.rules) : r.host # "bad" /\ Len(r.paths) \in 1..Cap.paths
    /\ Every(Paths(i), IngressPath) /\ Every(Backends(i), IngressBackend)
    /\ Len(Backends(i)) <= Cap.backends
    /\ \A t \in ToSet(i.tls) : t.secret # "bad" /\ Len(t.hosts) <= Cap.tlsHosts
    /\ Every(TLSHosts(i), Named) /\ Len(TLSHosts(i)) <= Cap.allTLSHosts

IngressServices(i) ==
    IF IngressValid(i) THEN {b.service : b \in ToSet(Backends(i))} \ {""} ELSE {}

IngressStatusOk(i) ==
    /\ Len(i.points) <= Cap.points
    /\ \A p \in ToSet(i.points) :
        /\ (p.ip = "") # (p.hostname = "") /\ "bad" \notin {p.ip, p.hostname}
        /\ Len(p.ports) <= Cap.pointPorts /\ Every(p.ports, Named)

IngressStatus(i) == IF IngressValid(i) /\ IngressStatusOk(i) THEN "healthy" ELSE "warning"

-----------------------------------------------------------------------------
(* PersistentVolumeClaim, PersistentVolume and StorageClass. A list of     *)
(* amounts is a record: whether it is set, its keys, and one amount.       *)

AmountsListed(list, required) ==
    /\ required => list.set /\ "storage" \in list.keys
    /\ list.set => /\ Cardinality(list.keys) <= Cap.amounts
                   /\ "bad" \notin list.keys /\ (list.keys # {} => list.amount # "bad")

AccessModes == {"ReadWriteOnce", "ReadOnlyMany", "ReadWriteMany", "ReadWriteOncePod"}
AccessModesOk(modes, required) ==
    /\ Len(modes) <= 4 /\ (required => modes # <<>>)
    /\ ToSet(modes) \subseteq AccessModes /\ Distinct(modes)

ClaimSpec(c) ==
    /\ AmountsListed(c.amounts, FALSE) /\ AccessModesOk(c.modes, FALSE)
    /\ "bad" \notin {c.volume, c.class} /\ OneOf(c.mode, {"Filesystem", "Block"})
ClaimStatus(c) ==
    IF ~(ClaimSpec(c) /\ AmountsListed(c.got, FALSE) /\ AccessModesOk(c.gotModes, FALSE)
         /\ OneOf(c.phase, {"Pending", "Bound", "Lost"})) THEN "warning"
    ELSE CASE c.phase = "" -> "unknown"
           [] c.phase = "Bound" -> "healthy"
           [] c.phase = "Lost" -> "error"
           [] OTHER -> "warning"

VolumeSpec(v) ==
    /\ AmountsListed(v.amounts, TRUE) /\ AccessModesOk(v.modes, TRUE)
    /\ v.class # "bad" /\ OneOf(v.mode, {"Filesystem", "Block"})
    /\ OneOf(v.reclaim, {"Retain", "Recycle", "Delete"})
VolumeStatus(v) ==
    IF ~(VolumeSpec(v) /\ OneOf(v.phase, {"Pending", "Available", "Bound", "Released", "Failed"}))
    THEN "warning"
    ELSE CASE v.phase = "" -> "unknown"
           [] v.phase \in {"Bound", "Available"} -> "healthy"
           [] v.phase = "Failed" -> "error"
           [] OTHER -> "warning"

StorageReferences(s) ==
    LET class == IF s.class = "" THEN {} ELSE {Ref("StorageClass", s.class, "class")}
    IN IF s.kind = "PersistentVolume" THEN IF VolumeSpec(s) THEN class ELSE {}
       ELSE IF ~ClaimSpec(s) THEN {}
       ELSE class \cup (IF s.volume = "" THEN {} ELSE {Ref("PersistentVolume", s.volume, "volumeName")})

-----------------------------------------------------------------------------
(* Node status. Each part may also be set and empty: conditionsSet, infoSet. *)

NodeObserved(n) ==
    \/ n.conditionsSet \/ n.conditions # <<>>
    \/ n.capacity.set \/ n.allocatable.set
    \/ n.infoSet \/ n.version # ""

NodeAmounts(list) ==
    list.set => /\ list.entries <= Cap.amounts /\ list.cpu # "bad"
                /\ Counted(list.pods)

PodAllocation(n) ==
    LET set == {list \in {n.capacity, n.allocatable} : list.set /\ list.pods # Absent}
    IN n.capacity \in set /\ n.allocatable \in set => n.allocatable.pods <= n.capacity.pods

NodeValid(n) ==
    /\ NodeAmounts(n.capacity) /\ NodeAmounts(n.allocatable) /\ PodAllocation(n)
    /\ ConditionsOk(n.conditions, Cap.nodeConditions)
    /\ n.version # "bad"

NodeStatus(n) ==
    IF ~NodeObserved(n) THEN "unknown"
    ELSE IF NodeValid(n) /\ [type |-> "Ready", status |-> "True"] \in ToSet(n.conditions)
         THEN "healthy" ELSE "warning"

-----------------------------------------------------------------------------
(* Pod runtime. A container state names the states that are set; an image  *)
(* that is set to "" is "empty".                                           *)

ContainerState(s) ==
    \/ s.set = {}
    \/ s.set = {"running"}
    \/ s.set = {"waiting"} /\ s.reason # "bad"
    \/ s.set = {"terminated"} /\ s.reason # "bad" /\ s.exit \in 0..MaxCount

RuntimeStatus(c) ==
    /\ Named(c.name) /\ c.ready \in {"true", "false"} /\ c.restarts \in 0..MaxCount
    /\ c.image \notin {"bad", "empty"}
    /\ ContainerState(c.state) /\ ContainerState(c.last)

AllStatuses(p) == p.statuses \o p.initStatuses

PodPhase(phase) == OneOf(phase, {"Pending", "Running", "Succeeded", "Failed", "Unknown"})

PodRuntimeValid(p) ==
    /\ PodPhase(p.phase)
    /\ Every(AllStatuses(p), RuntimeStatus)
    /\ Distinct([i \in DOMAIN AllStatuses(p) |-> AllStatuses(p)[i].name])
    /\ Len(AllStatuses(p)) <= Cap.statuses

PodStatus(p) ==
    LET up == /\ p.statuses # <<>>
              /\ \A c \in ToSet(p.statuses) : c.ready = "true" /\ c.state.set = {"running"}
    IN CASE ~PodRuntimeValid(p) -> "warning"
         [] p.phase = "" -> "unknown"
         [] p.phase = "Failed" -> "error"
         [] p.phase = "Succeeded" \/ (p.phase = "Running" /\ up) -> "healthy"
         [] OTHER -> "warning"

-----------------------------------------------------------------------------
(* Gateways and their routes *)

GatewayAddress(a) ==
    /\ a.type \in {"", "IPAddress", "Hostname", "NamedAddress", "example.com/custom"}
    /\ Named(a.value)
GatewayAddresses(addresses) == Len(addresses) <= Cap.addresses /\ Every(addresses, GatewayAddress)

NamedListeners(listeners) ==
    /\ Len(listeners) <= Cap.listeners
    /\ \A l \in ToSet(listeners) : Named(l.name)
    /\ Distinct([i \in DOMAIN listeners |-> listeners[i].name])

GatewayValid(g) ==
    /\ Named(g.class) /\ g.listeners # <<>> /\ NamedListeners(g.listeners)
    /\ \A l \in ToSet(g.listeners) : Named(l.protocol) /\ Port(l.port) /\ l.hostname # "bad"
    /\ GatewayAddresses(g.addresses)

Attached(listeners) == FoldSeq(LAMBDA l, n : l.attached + n, 0, listeners)

GatewayStatusOk(g) ==
    /\ GatewayAddresses(g.assigned) /\ ConditionsOk(g.conditions, Cap.conditions)
    /\ NamedListeners(g.statuses)
    /\ \A l \in ToSet(g.statuses) :
        l.attached \in 0..MaxCount /\ ConditionsOk(l.conditions, Cap.conditions)
    /\ Attached(g.statuses) <= MaxCount

Unready(conditions, types) == \E c \in ToSet(conditions) : c.type \in types /\ c.status # "True"
ReadyTypes == {"Accepted", "Programmed", "Ready", "ResolvedRefs"}

GatewayStatus(g) ==
    IF GatewayValid(g) /\ GatewayStatusOk(g) /\ ~Unready(g.conditions, ReadyTypes)
    THEN "healthy" ELSE "warning"

\* A route without a namespace is read as well; a reference names its own or the route's.
ReferenceIdentity(r) == Named(r.name) /\ r.namespace # "bad"
Home(r, route) == IF r.namespace = "" THEN route.namespace ELSE r.namespace

ParentReference(p) ==
    ReferenceIdentity(p) /\ p.section # "bad" /\ p.port = Absent /\ p.kind # "bad"

BackendReference(b) ==
    /\ ReferenceIdentity(b) /\ b.section = "" /\ b.kind # "bad"
    /\ IF b.kind \in {"", "Service"} THEN Port(b.port) ELSE b.port = Absent \/ Port(b.port)

RouteBackends(r) == FlattenSeq([i \in DOMAIN r.rules |-> r.rules[i].backends])

RouteValid(r) ==
    /\ r.namespace # "bad"
    /\ Len(r.hostnames) <= Cap.hostnames /\ Every(r.hostnames, Named)
    /\ r.kind = "TCPRoute" => r.hostnames = <<>>
    /\ Len(r.parents) <= Cap.parents /\ Every(r.parents, ParentReference)
    /\ Len(r.rules) <= Cap.rules
    /\ r.kind \in {"TLSRoute", "TCPRoute"} =>
        r.rules # <<>> /\ \A rule \in ToSet(r.rules) : rule.backends # <<>>
    /\ \A rule \in ToSet(r.rules) :
        /\ Len(rule.backends) <= Cap.backendRefs
        /\ r.kind = "GRPCRoute" => rule.method # "bad"
    /\ Every(RouteBackends(r), BackendReference) /\ Len(RouteBackends(r)) <= Cap.backends

RouteReferences(r) ==
    IF ~RouteValid(r) THEN {}
    ELSE {Ref("Gateway", <<Home(p, r), p.name>>, "parentRefs") :
              p \in {q \in ToSet(r.parents) : q.kind \in {"", "Gateway"}}}
         \cup {Ref("Service", <<Home(b, r), b.name>>, "backendRefs") :
              b \in {c \in ToSet(RouteBackends(r)) : c.kind \in {"", "Service"}}}

RouteStatusOk(r) ==
    Len(r.statuses) <= Cap.parents
    /\ \A s \in ToSet(r.statuses) : ConditionsOk(s, Cap.conditions)

RouteStatus(r) ==
    IF RouteValid(r) /\ RouteStatusOk(r) /\ ~\E s \in ToSet(r.statuses) : Unready(s, ReadyTypes)
    THEN "healthy" ELSE "warning"

-----------------------------------------------------------------------------
(* ConfigMap: the keys of its two fields; a field that is not an object of *)
(* texts has the key "bad".                                                *)

KeyField(keys) == "bad" \notin keys /\ Cardinality(keys) <= Cap.keys

ConfigMapStatus(c) ==
    IF /\ KeyField(c.data) /\ KeyField(c.binary) /\ c.immutable # "bad"
       /\ c.data \cap c.binary = {} /\ Cardinality(c.data \cup c.binary) <= Cap.keys
    THEN "healthy" ELSE "warning"

=============================================================================
