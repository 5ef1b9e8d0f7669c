-------------------------- MODULE ManifestCatalogue --------------------------
(***************************************************************************)
(* What Upload and Manifests are checked on.                               *)
(*                                                                         *)
(* Upload: a small catalogue of manifests, every order of at most Size of  *)
(* them, each in a file of its own or all in one List; and a few sets of   *)
(* files that are archives, do not parse or are not manifests.             *)
(*                                                                         *)
(* Manifests: for each schema one ordinary manifest                        *)
(* and, for each of its fields, the values that meet the schema's guards   *)
(* on both sides of every limit. Every collection limit is cut down to one *)
(* or two; what is said of a collection does not depend on its limit.      *)
(***************************************************************************)
EXTENDS Integers, SequencesExt

CONSTANTS
    Size,               \* bound: the manifests of an upload
    MaxCount,
    Absent, Malformed   \* a number that is left out, and one that is none

CollectionLimits == [servicePorts |-> 2, externalIPs |-> 1, sourceRanges |-> 1, sessionSeconds |-> 2,
          containers |-> 2, entries |-> 2, metrics |-> 1, conditions |-> 2,
          rules |-> 1, tls |-> 1, paths |-> 2, backends |-> 2, tlsHosts |-> 2, allTLSHosts |-> 1,
          points |-> 1, pointPorts |-> 1, amounts |-> 1, nodeConditions |-> 2, statuses |-> 2,
          addresses |-> 1, listeners |-> 2, hostnames |-> 1, parents |-> 1, backendRefs |-> 1,
          keys |-> 2]

Sched(status) == <<[type |-> "Ready", status |-> status]>>

(* Service *)
SPort(number, protocol, name, nodePort) ==
    [number |-> number, protocol |-> protocol, name |-> name, nodePort |-> nodePort,
     target |-> "", app |-> ""]
Service ==
    [type |-> "", selector |-> "app", externalName |-> "", clusterIP |-> "", clusterIPs |-> <<>>,
     ipFamilies |-> <<>>, policy |-> "", ports |-> <<SPort(80, "", "", 0)>>, internal |-> "",
     external |-> "", healthCheck |-> 0, class |-> "", allocate |-> "", affinity |-> "",
     config |-> "unset", timeout |-> 0, externalIPs |-> <<>>, ranges |-> <<>>,
     distribution |-> "", loadBalancerIP |-> ""]
ServiceValues ==
    [type |-> {"NodePort", "LoadBalancer", "ExternalName", "bad"}, selector |-> {"", "bad"},
     externalName |-> {"db.example"}, clusterIP |-> {"None", "four", "six", "bad"},
     clusterIPs |-> {<<"None">>, <<"four">>, <<"four", "six">>, <<"four", "four2">>},
     ipFamilies |-> {<<"IPv4">>, <<"IPv4", "IPv6">>, <<"IPv6", "IPv4">>},
     policy |-> {"PreferDualStack", "RequireDualStack", "bad"},
     ports |-> {<<>>, <<SPort(80, "", "", 30001)>>, <<SPort(80, "TCP", "a", 0), SPort(80, "UDP", "b", 0)>>,
                <<SPort(80, "TCP", "a", 30001), SPort(81, "", "b", 30001)>>,
                <<SPort(80, "TCP", "a", 0), SPort(81, "", "", 0)>>},
     external |-> {"Local"}, healthCheck |-> {30001, 30002}, class |-> {"example.com/lb"},
     allocate |-> {"true"}, affinity |-> {"None", "ClientIP"}, config |-> {"empty", "set"},
     timeout |-> {2, 3}, externalIPs |-> {<<"four">>, <<"four", "six">>},
     ranges |-> {<<"ten">>}, distribution |-> {"PreferClose", "bad"}, loadBalancerIP |-> {"four"}]

(* Workload *)
Entry(field, name) ==
    [f \in {"ConfigMap", "Secret", "field"} |-> IF f = field THEN name ELSE ""]
Both == [ConfigMap |-> "one", Secret |-> "two", field |-> ""]
Container(name, image, env) == [name |-> name, image |-> image, envFrom |-> <<>>, env |-> env]
Template(containers) ==
    [account |-> "", pulls |-> <<>>, volumes |-> <<>>, inits |-> <<>>, containers |-> containers]
Plain == Template(<<Container("app", "img", <<>>)>>)
Workload ==
    [kind |-> "Deployment", template |-> Plain, desired |-> 1, ready |-> 1, available |-> 1,
     replicas |-> 1, failed |-> Absent, schedule |-> "hourly", active |-> ""]
Volume(kind, name) ==
    [f \in {"ConfigMap", "Secret", "PersistentVolumeClaim"} |-> IF f = kind THEN name ELSE ""]
WorkloadValues ==
    [kind |-> {"ReplicaSet", "DaemonSet", "Job", "CronJob"},
     template |->
        {Template(<<>>), [Plain EXCEPT !.account = "robot"], [Plain EXCEPT !.account = "bad"],
         [Plain EXCEPT !.account = "robot", !.pulls = <<"one", "two">>],
         [Plain EXCEPT !.volumes = <<Volume("Secret", "one"), Volume("ConfigMap", "two")>>],
         [Plain EXCEPT !.volumes = <<[Volume("Secret", "one") EXCEPT !.ConfigMap = "two"]>>],
         [Plain EXCEPT !.inits = <<Container("app", "img", <<>>)>>],
         Template(<<Container("app", "empty", <<>>)>>), Template(<<Container("app", "bad", <<>>)>>),
         Template(<<Container("app", "img", <<Entry("Secret", "one"), Entry("field", "ref")>>)>>),
         Template(<<Container("app", "img", <<Both>>)>>),
         Template(<<Container("a", "img", <<Entry("Secret", "bad")>>), Container("b", "img", <<>>)>>)},
     desired |-> {Absent, Malformed, 0, 2}, ready |-> {Absent, 0, 2}, available |-> {0, 2},
     replicas |-> {0, 2}, failed |-> {Malformed, 0, 1}, schedule |-> {"bad"}, active |-> {"bad"}]

(* HorizontalPodAutoscaler *)
Metric(type, kind) ==
    [type |-> type, sources |-> {type}, name |-> IF type = "Resource" THEN "cpu" ELSE "",
     container |-> "", metric |-> IF type = "Resource" THEN "" ELSE "rate", object |-> "obj",
     kind |-> kind, value |-> IF kind = "value" THEN "1" ELSE "",
     average |-> IF kind = "average" THEN "1" ELSE "",
     utilization |-> IF kind = "utilization" THEN 1 ELSE Absent]
Scaler ==
    [target |-> "web", minimum |-> 1, maximum |-> 2, metrics |-> <<>>, current |-> 1, desired |-> 1,
     currents |-> <<>>, conditions |-> <<>>]
Metrics ==
    {<<Metric("Resource", "utilization")>>, <<Metric("External", "value")>>,
     <<Metric("Pods", "value")>>, <<Metric("Resource", "value")>>, <<Metric("Object", "average")>>,
     <<[Metric("Resource", "average") EXCEPT !.sources = {"Resource", "Pods"}]>>,
     <<[Metric("Resource", "average") EXCEPT !.utilization = 1]>>,
     <<[Metric("Resource", "utilization") EXCEPT !.utilization = 0]>>,
     <<Metric("Resource", "average"), Metric("Pods", "average")>>}
ScalerValues ==
    [target |-> {"bad"}, minimum |-> {Absent, 0, 3}, maximum |-> {Absent, 0, 1}, metrics |-> Metrics,
     current |-> {Absent, 0, 2}, desired |-> {Malformed, 0, 2}, currents |-> Metrics,
     conditions |-> {<<[type |-> "AbleToScale", status |-> "True"]>>,
                     <<[type |-> "ScalingActive", status |-> "False"]>>,
                     <<[type |-> "ScalingLimited", status |-> "False"]>>,
                     <<[type |-> "Other", status |-> "True"]>>}]

(* Ingress *)
Backend(service, name, number) ==
    [service |-> service, resource |-> "", portName |-> name, portNumber |-> number]
IPath(path, type) == [path |-> path, type |-> type, backend |-> Backend("web", "", 80)]
Rule(paths) == [host |-> "h", paths |-> paths]
Ingress ==
    [class |-> "", default |-> <<>>, rules |-> <<Rule(<<IPath("/", "Prefix")>>)>>, tls |-> <<>>,
     points |-> <<>>]
IngressValues ==
    [class |-> {"nginx", "bad"},
     default |-> {<<Backend("other", "http", Absent)>>, <<Backend("other", "http", 0)>>,
                  <<Backend("other", "http", 80)>>, <<Backend("", "", Absent)>>,
                  <<[Backend("", "", Absent) EXCEPT !.resource = "bucket"]>>,
                  <<[Backend("other", "", 80) EXCEPT !.resource = "bucket"]>>},
     rules |-> {<<>>, <<Rule(<<>>)>>, <<Rule(<<IPath("unset", "ImplementationSpecific")>>)>>,
                <<Rule(<<IPath("", "ImplementationSpecific"), IPath("/", "Exact")>>)>>,
                <<Rule(<<IPath("", "Prefix")>>)>>, <<Rule(<<IPath("/", "bad")>>)>>,
                <<[Rule(<<IPath("/", "Exact")>>) EXCEPT !.host = "bad"]>>,
                <<Rule(<<IPath("/", "Exact")>>), Rule(<<IPath("/", "Exact")>>)>>},
     tls |-> {<<[hosts |-> <<"h">>, secret |-> "cert"]>>, <<[hosts |-> <<"h", "h2">>, secret |-> ""]>>,
              <<[hosts |-> <<"bad">>, secret |-> ""]>>},
     points |-> {<<[ip |-> "four", hostname |-> "", ports |-> <<"ok">>]>>,
                 <<[ip |-> "four", hostname |-> "h", ports |-> <<>>]>>,
                 <<[ip |-> "", hostname |-> "h", ports |-> <<"bad">>]>>}]

(* Storage *)
List(set, keys, amount) == [set |-> set, keys |-> keys, amount |-> amount]
Claim ==
    [kind |-> "PersistentVolumeClaim", amounts |-> List(TRUE, {"storage"}, "1Gi"),
     modes |-> <<"ReadWriteOnce">>, volume |-> "vol", class |-> "fast", mode |-> "", reclaim |-> "",
     phase |-> "Bound", got |-> List(FALSE, {}, ""), gotModes |-> <<>>]
Lists == {List(FALSE, {}, ""), List(TRUE, {}, ""), List(TRUE, {"gpu"}, "1"),
          List(TRUE, {"storage", "gpu"}, "1"), List(TRUE, {"storage"}, "bad"), List(TRUE, {"bad"}, "1")}
Modes == {<<>>, <<"ReadWriteOnce", "ReadOnlyMany">>, <<"ReadWriteOnce", "ReadWriteOnce">>, <<"bad">>}
ClaimValues ==
    [kind |-> {"PersistentVolume"}, amounts |-> Lists, modes |-> Modes, volume |-> {"", "bad"},
     class |-> {"", "bad"}, mode |-> {"Block", "bad"}, reclaim |-> {"Recycle", "bad"},
     phase |-> {"", "Pending", "Lost", "Available", "Failed", "bad"}, got |-> Lists, gotModes |-> Modes]

(* Node and Pod *)
Amount(pods, cpu, entries) == [set |-> TRUE, pods |-> pods, cpu |-> cpu, entries |-> entries]
Nothing == [set |-> FALSE, pods |-> Absent, cpu |-> "", entries |-> 0]
Node ==
    [conditionsSet |-> FALSE, conditions |-> <<>>, capacity |-> Nothing, allocatable |-> Nothing,
     infoSet |-> FALSE, version |-> ""]
NodeValues ==
    [conditionsSet |-> {TRUE},
     conditions |-> {Sched("True"), Sched("False"), Sched("True") \o Sched("True"),
                     Sched("True") \o <<[type |-> "MemoryPressure", status |-> "False"]>>,
                     <<[type |-> "bad", status |-> "True"]>>},
     capacity |-> {Amount(2, "4", 1), Amount(1, "4", 1), Amount(Malformed, "", 1), Amount(Absent, "", 2)},
     allocatable |-> {Amount(2, "4", 1), Amount(Absent, "bad", 1), Amount(MaxCount + 1, "", 1)},
     infoSet |-> {TRUE}, version |-> {"v1", "bad"}]

State(set, reason, exit) == [set |-> set, reason |-> reason, exit |-> exit]
Up == State({"running"}, "", 0)
Ran(name, ready, image, state) ==
    [name |-> name, ready |-> ready, restarts |-> 0, image |-> image, state |-> state,
     last |-> State({}, "", 0)]
Pod == [phase |-> "Running", statuses |-> <<Ran("app", "true", "img", Up)>>, initStatuses |-> <<>>]
Statuses ==
    {<<>>, <<Ran("app", "true", "img", Up)>>, <<Ran("app", "false", "img", State({"waiting"}, "Pull", 0))>>,
     <<Ran("app", "true", "img", State({"waiting"}, "bad", 0))>>,
     <<Ran("app", "true", "img", State({"terminated"}, "Done", Absent))>>,
     <<Ran("app", "true", "img", State({"terminated", "running"}, "", 0))>>,
     <<Ran("app", "true", "img", State({"running"}, "bad", Absent))>>,
     <<[Ran("app", "true", "img", Up) EXCEPT !.last = State({"terminated"}, "Killed", 1)]>>,
     <<[Ran("app", "true", "img", Up) EXCEPT !.restarts = MaxCount + 1]>>,
     <<Ran("app", "bad", "img", Up)>>, <<Ran("app", "true", "empty", Up)>>,
     <<Ran("bad", "true", "img", Up)>>, <<Ran("init", "false", "img", Up)>>,
     <<Ran("app", "true", "img", Up), Ran("side", "false", "img", Up)>>}
PodValues ==
    [phase |-> {"", "Pending", "Succeeded", "Failed", "bad"}, statuses |-> Statuses,
     initStatuses |-> Statuses]

(* Gateways and routes *)
Listener(name, port) == [name |-> name, protocol |-> "HTTP", port |-> port, hostname |-> ""]
Assigned(type, value) == <<[type |-> type, value |-> value]>>
Seen(name, attached) == [name |-> name, attached |-> attached, conditions |-> <<>>]
Gateway ==
    [class |-> "gw", listeners |-> <<Listener("a", 80)>>, addresses |-> <<>>, assigned |-> <<>>,
     conditions |-> <<>>, statuses |-> <<>>]
Conditions(type) == {<<[type |-> type, status |-> "True"]>>, <<[type |-> type, status |-> "False"]>>}
GatewayValues ==
    [class |-> {"", "bad"},
     listeners |-> {<<>>, <<Listener("a", 80), Listener("b", 0)>>, <<Listener("a", 80), Listener("a", 81)>>,
                    <<[Listener("a", 80) EXCEPT !.hostname = "bad"]>>,
                    <<[Listener("a", 80) EXCEPT !.protocol = "bad"]>>},
     addresses |-> {Assigned("", "four"), Assigned("Hostname", ""), Assigned("bad", "four")},
     assigned |-> {Assigned("IPAddress", "four"), Assigned("", "bad"),
                   Assigned("", "four") \o Assigned("", "six")},
     conditions |-> Conditions("Accepted") \cup Conditions("ResolvedRefs") \cup Conditions("bad")
                        \cup Conditions("Other"),
     statuses |-> {<<Seen("a", 1), Seen("b", 1)>>, <<Seen("a", MaxCount), Seen("b", 1)>>,
                   <<Seen("a", 0), Seen("a", 0)>>, <<Seen("a", MaxCount + 1)>>}]

Target(name, kind, port) ==
    [name |-> name, namespace |-> "", kind |-> kind, section |-> "", port |-> port]
RRule(backends) == [backends |-> backends, method |-> ""]
Route ==
    [kind |-> "HTTPRoute", namespace |-> "n1", hostnames |-> <<>>,
     parents |-> <<Target("gw", "", Absent)>>, rules |-> <<RRule(<<Target("web", "", 80)>>)>>,
     statuses |-> <<>>]
RouteValues ==
    [kind |-> {"GRPCRoute", "TLSRoute", "TCPRoute"}, namespace |-> {"", "bad"},
     hostnames |-> {<<"h">>, <<"bad">>, <<"h", "h2">>},
     parents |-> {<<>>, <<Target("gw", "Gateway", 0)>>, <<Target("mesh", "Other", Absent)>>,
                  <<Target("gw", "", 80)>>, <<Target("bad", "", Absent)>>,
                  <<[Target("gw", "", Absent) EXCEPT !.namespace = "n2"]>>,
                  <<[Target("gw", "", Absent) EXCEPT !.namespace = "bad"]>>,
                  <<[Target("gw", "", Absent) EXCEPT !.section = "http"]>>},
     rules |-> {<<>>, <<RRule(<<>>)>>, <<RRule(<<Target("web", "Service", Absent)>>)>>,
                <<RRule(<<Target("web", "Other", 0)>>)>>, <<RRule(<<Target("web", "Other", Absent)>>)>>,
                <<RRule(<<[Target("web", "", 80) EXCEPT !.section = "http"]>>)>>,
                <<RRule(<<[Target("web", "Service", 80) EXCEPT !.namespace = "n2"]>>)>>,
                <<RRule(<<Target("web", "", 80), Target("api", "", 80)>>)>>,
                <<[RRule(<<Target("web", "", 80)>>) EXCEPT !.method = "bad"]>>},
     statuses |-> {<<c>> : c \in Conditions("Accepted") \cup Conditions("Programmed")
                                    \cup Conditions("Other") \cup Conditions("bad")}]

(* ConfigMap *)
ConfigMap == [data |-> {"a"}, binary |-> {}, immutable |-> ""]
ConfigMapValues ==
    [data |-> {{}, {"a", "b"}, {"bad"}}, binary |-> {{"a"}, {"c"}, {"c", "d"}, {"c", "d", "e"}},
     immutable |-> {"true", "bad"}]

FreshManifests ==
    [service |-> Service, workload |-> Workload, scaler |-> Scaler, ingress |-> Ingress,
     storage |-> Claim, node |-> Node, pod |-> Pod, gateway |-> Gateway, route |-> Route,
     config |-> ConfigMap]
FieldValues ==
    [service |-> ServiceValues, workload |-> WorkloadValues, scaler |-> ScalerValues,
     ingress |-> IngressValues, storage |-> ClaimValues, node |-> NodeValues, pod |-> PodValues,
     gateway |-> GatewayValues, route |-> RouteValues, config |-> ConfigMapValues]
AllSchemas == DOMAIN FreshManifests

-----------------------------------------------------------------------------
(***************************** uploads *************************************)
Natives == {"Cluster", "Namespace", "Node", "Deployment", "ReplicaSet", "Pod", "ServiceAccount",
             "Service", "Ingress", "HTTPRoute", "Gateway", "HorizontalPodAutoscaler", "NetworkPolicy",
             "ConfigMap", "Secret", "PersistentVolumeClaim", "PersistentVolume",
             "CustomResourceDefinition"}
ClusterScoped == {"Cluster", "Namespace", "Node", "PersistentVolume", "StorageClass",
                    "CustomResourceDefinition"}

None == [type |-> "null", text |-> "", children |-> <<>>, anchor |-> ""]
Text(s) == [None EXCEPT !.type = "text", !.text = s]
Record(fields) == [None EXCEPT !.type = "record", !.children = fields]
Items(list) == [None EXCEPT !.type = "list", !.children = [i \in DOMAIN list |-> <<"", list[i]>>]]

Object(kind, ns, name) ==
    [kind |-> kind, api |-> [group |-> "", version |-> "v1"], ns |-> ns, name |-> name, items |-> <<>>,
     labels |-> <<>>, healthy |-> TRUE, ok |-> TRUE, owners |-> {}, refs |-> {}, selector |-> <<>>,
     pods |-> <<>>, types |-> {}, ingress |-> <<>>, egress |-> <<>>,
     group |-> "", names |-> "", served |-> {}, storage |-> "", scope |-> "-", spec |-> None]
Ref(via, kind, ns, name) == [via |-> via, kind |-> kind, ns |-> ns, name |-> name]
Owner(kind, name) == [kind |-> kind, name |-> name]
X == [x |-> "1"]
Selecting(labels) == [labels |-> labels, expressions |-> <<>>, extra |-> {}]
Expecting(key, operator, values) ==
    [labels |-> <<>>, extra |-> {},
     expressions |-> <<[key |-> key, operator |-> operator, values |-> values]>>]
Peer(pods, namespaces) == [ipBlock |-> FALSE, pods |-> pods, namespaces |-> namespaces]

OnePod ==
    [Object("Pod", "n", "p") EXCEPT
        !.labels = X, !.owners = {Owner("ReplicaSet", "r"), Owner("Node", "node"), Owner("Widget", "w")},
        !.refs = {Ref("nodeName", "Node", "", "node"), Ref("envFrom", "ConfigMap", "n", "c"),
                  Ref("claim", "PersistentVolumeClaim", "n", "v")}]
Other == [Object("Pod", "m", "q") EXCEPT !.labels = X, !.healthy = FALSE, !.ok = FALSE]
ReplicaSet ==
    [Object("ReplicaSet", "n", "r") EXCEPT
        !.owners = {Owner("Deployment", "d")}, !.refs = {Ref("mounts", "Secret", "n", "s")}]
OneScaler == [Object("HorizontalPodAutoscaler", "n", "h") EXCEPT !.refs = {Ref("target", "Deployment", "n", "d")}]
OneService == [Object("Service", "n", "s") EXCEPT !.selector = <<X>>]
OneRoute ==
    [Object("HTTPRoute", "m", "h") EXCEPT
        !.refs = {Ref("parent", "Gateway", "n", "g"), Ref("backend", "Service", "n", "s")}]
CustomDefinition ==
    [Object("CustomResourceDefinition", "", "widgets.g") EXCEPT
        !.group = "g", !.names = "Widget", !.served = {"v1"}]
Widget(ns, name, spec) ==
    [Object("Widget", ns, name) EXCEPT !.api = [group |-> "g", version |-> "v1"], !.spec = spec]
Reference(kind, api, name) ==
    Record(<<<<"name", Text(name)>>, <<"kind", Text(kind)>>, <<"apiVersion", Text(api)>>>>)
Shared == [Record(<<<<"secretName", Text("s")>>>>) EXCEPT !.anchor = "a"]
WidgetSpec ==
    Record(<<<<"serviceRef", Record(<<<<"name", Text("s")>>>>)>>,
             <<"targetRefs", Items(<<Reference("Widget", "g/v1", "w2"), Text("s"),
                                     Reference("Node", "v1", "node")>>)>>,
             <<"secretName", Text("s")>>, <<"one", Shared>>, <<"two", Items(<<Shared, None>>)>>>>)
Allowing(types, ingress, egress) ==
    [Object("NetworkPolicy", "n", "np") EXCEPT
        !.pods = <<Selecting(X)>>, !.types = types, !.ingress = ingress, !.egress = egress]

Catalogue ==
    {OnePod, [OnePod EXCEPT !.labels = <<>>], [OnePod EXCEPT !.ns = ""], Other, ReplicaSet, [ReplicaSet EXCEPT !.ok = FALSE],
     Object("Deployment", "n", "d"), OneScaler, Object("Node", "", "node"), OneService, OneRoute,
     [Object("Namespace", "", "m") EXCEPT !.labels = X], Object("Namespace", "", "m"),
     Object("Secret", "n", "s"),
     CustomDefinition, [CustomDefinition EXCEPT !.served = {}, !.storage = "v1", !.scope = "Cluster"],
     Widget("n", "w", WidgetSpec), Widget("n", "w2", Record(<<>>)),
     Allowing({}, <<<<Peer(<<Selecting(X)>>, <<>>)>>>>, <<>>),
     Allowing({}, <<<<Peer(<<Selecting(<<>>)>>, <<Selecting(X)>>)>>>>, <<<<Peer(<<>>, <<Selecting(<<>>)>>)>>>>),
     Allowing({"Egress"}, <<<<Peer(<<Selecting(X)>>, <<>>)>>>>,
              <<<<Peer(<<Expecting("x", "NotIn", <<"1">>)>>, <<Expecting("x", "DoesNotExist", <<>>)>>),
                  [Peer(<<>>, <<>>) EXCEPT !.ipBlock = TRUE]>>>>),
     Allowing({"Ingress"}, <<<<Peer(<<Expecting("x", "In", <<"1", "bad">>)>>, <<>>)>>>>, <<>>)}

File(type, name, content) == [type |-> type, name |-> name, broken |-> FALSE, content |-> content]
ListOf(objects_) == [Object("List", "", "") EXCEPT !.items = objects_]

Apart(list) == [i \in DOMAIN list |-> File("manifest", "a", <<list[i]>>)]
Mixed ==
    LET good == File("manifest", "good", <<OnePod, ReplicaSet>>)
        lists == File("manifest", "lists", <<ListOf(<<OnePod, ListOf(<<OneService, Object("", "", "x")>>)>>), Object("PodList", "", "")>>)
        bad == [File("manifest", "bad", <<Object("Deployment", "n", "d")>>) EXCEPT !.broken = TRUE]
        text == File("other", "text", <<>>)
        zip == File("archive", "zip", <<good, text, bad>>)
    IN {<<lists>>, <<good, bad, text>>, <<zip, File("manifest", "a", <<Object("Deployment", "n", "d")>>)>>,
        <<good, [zip EXCEPT !.broken = TRUE], lists>>}

AllUploads ==
    {Apart(s) : s \in BoundedSeq(Catalogue, Size)}
        \cup {<<File("manifest", "all", <<ListOf(s)>>)>> : s \in BoundedSeq(Catalogue, Size)} \cup Mixed
=============================================================================
