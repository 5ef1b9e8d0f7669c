-------------------------- MODULE MCResourceExplorer --------------------------
EXTENDS ResourceExplorer

R(kind, namespace, name, status, labels) ==
    [kind |-> kind, namespace |-> namespace, name |-> name, status |-> status, labels |-> labels]

FourResources ==
    [api |-> R("Service", "b", "api", "healthy", {}),
     web |-> R("Pod", "a", "web", "warning", {[key |-> "app", value |-> "x"]}),
     job |-> R("Pod", "b", "job", "healthy", {}),
     ns |-> R("Namespace", "", "a", "healthy", {})]

\* The names in order: a (ns), api, job, web; the kinds: Namespace, Pod, Service.
\* Of one kind, the fallback goes by namespace and name; that of a descending order
\* still ascends.
TheOrder == [s \in {"kind-asc", "kind-desc", "name-desc"} |->
    CASE s = "kind-asc" -> <<"ns", "web", "job", "api">>
      [] s = "kind-desc" -> <<"api", "web", "job", "ns">>
      [] s = "name-desc" -> <<"web", "job", "api", "ns">>]

\* The list API already knows the pod that the live snapshot does not show.
ThreeTopologies == [mock |-> <<"api", "web">>, upload |-> <<"ns", "web">>, live |-> <<"web", "api">>]
TheListed == {"web", "job"}
=============================================================================
