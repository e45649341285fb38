------------------------------ MODULE Startup ------------------------------
(***************************************************************************)
(* How the extension starts (src/main.go): it reviews its permissions      *)
(* (src/client/permissions.go), makes the informers that permissions and   *)
(* configuration allow (CreateClient), waits for their caches and then     *)
(* registers discoveries and actions one group after the other.  From then *)
(* on these look things up in the informers' stores: a lookup in a store   *)
(* that was not made is a nil pointer.                                     *)
(***************************************************************************)
EXTENDS Naturals, Sequences

CONSTANTS Configs,  \* the configurations to start with
          Grants    \* the sets of permissions the cluster may grant

(* A permission stands for the verbs that are always asked for together.   *)
Required == {"workloads/read", "nodes/read", "events/read"}
Graceful ==
  {"horizontalpodautoscalers/read", "poddisruptionbudgets/read",
   "namespaces/read", "deployments/patch", "deployments/scale",
   "replicasets/scale", "statefulsets/scale", "pods/delete", "pods/eviction",
   "nodes/patch", "pods/exec", "ingresses/read", "ingresses/write",
   "ingressclasses/read"}
ArgoPermissions  == {"rollouts/read", "rollouts/patch", "rollouts/scale"}
EnvoyPermissions ==
  {"httproutes/read", "gateways/read", "gatewayclasses/read",
   "backendtrafficpolicies/write"}
Permissions == Required \cup Graceful \cup ArgoPermissions \cup EnvoyPermissions

(* What can be disabled, in the order in which main looks at it.           *)
Groups == << "argo", "envoy", "deployment", "replicaset", "pod", "statefulset",
             "daemonset", "ingress", "node", "container", "cluster" >>
GroupNames == {Groups[i] : i \in 1 .. Len(Groups)}

Config ==
  [disabled    : SUBSET GroupNames,
   namespaced  : BOOLEAN,   \* only one namespace is looked at
   memoryStats : BOOLEAN]   \* PrintMemoryStatsInterval is set

ASSUME StartupAssumption ==
  /\ Configs \subseteq Config
  /\ Grants \subseteq SUBSET Permissions

VARIABLES
  config,     \* chosen once
  granted,    \* what the cluster grants, chosen once
  ok,         \* the permissions that the review found granted
  phase,      \* how far main got
  stores,     \* the informers that were made, and the dynamic client
  synced,     \* the informers whose store holds what the server has
  group,      \* main is done with the groups before this one
  registered, \* discoveries and actions
  lookup      \* the last lookup: whose, in which stores that were not made,
              \* and in which that had not synced

vars == << config, granted, ok, phase, stores, synced, group, registered, lookup >>

Enabled(g) == g \notin config.disabled

-----------------------------------------------------------------------------
(* The permission review                                                   *)

getRequiredPermissions ==
  Required \cup Graceful
    \cup (IF Enabled("argo") THEN ArgoPermissions ELSE {})
    \cup (IF Enabled("envoy") THEN EnvoyPermissions ELSE {})

hasPermissions(wanted) == wanted \subseteq ok

Nothing == [part |-> "none", missing |-> {}, unsynced |-> {}]

Init ==
  /\ config \in Configs
  /\ granted \in Grants
  /\ ok = {} /\ phase = "start" /\ stores = {} /\ synced = {}
  /\ group = 1 /\ registered = {} /\ lookup = Nothing

(* A review that fails counts as refused.  Without a required permission   *)
(* the process ends.                                                       *)
checkPermissions ==
  /\ phase = "start"
  /\ ok' = getRequiredPermissions \cap granted
  /\ phase' = IF Required \subseteq granted THEN "reviewed" ELSE "exited"
  /\ UNCHANGED << config, granted, stores, synced, group, registered, lookup >>

-----------------------------------------------------------------------------
(* CreateClient                                                            *)

Core == {"daemonSet", "deployment", "pod", "replicaSet", "service",
         "statefulSet", "event"}
Gateways == {"httpRoute", "gateway", "gatewayClass"}
Dynamic  == {"argoRollout"} \cup Gateways

(* The permission to list and watch what the informer's store holds        *)
(* (external).                                                             *)
ReadPermission(s) ==
  CASE s \in Core           -> IF s = "event" THEN "events/read" ELSE "workloads/read"
    [] s = "node"           -> "nodes/read"
    [] s = "namespace"      -> "namespaces/read"
    [] s = "hpa"            -> "horizontalpodautoscalers/read"
    [] s = "pdb"            -> "poddisruptionbudgets/read"
    [] s = "ingress"        -> "ingresses/read"
    [] s = "ingressClass"   -> "ingressclasses/read"
    [] s = "argoRollout"    -> "rollouts/read"
    [] s = "httpRoute"      -> "httproutes/read"
    [] s = "gateway"        -> "gateways/read"
    [] s = "gatewayClass"   -> "gatewayclasses/read"

When(condition, set) == IF condition THEN set ELSE {}

(* Mutant: informers that do not ask for permission.                       *)
UncheckedInformers ==
  Core
    \cup When(~config.namespaced, {"namespace", "node", "ingress", "ingressClass"})
    \cup {"hpa", "pdb"}

(* The typed informers.                                                    *)
TypedInformers ==
  Core
    \cup When(~config.namespaced,
           {"node"}
             \cup When(hasPermissions({"namespaces/read"}), {"namespace"})
             \cup When(hasPermissions({"ingresses/read"}), {"ingress"})
             \cup When(hasPermissions({"ingressclasses/read"}), {"ingressClass"}))
    \cup When(hasPermissions({"horizontalpodautoscalers/read"}), {"hpa"})
    \cup When(hasPermissions({"poddisruptionbudgets/read"}), {"pdb"})

(* The informers of resources that are not part of Kubernetes, made        *)
(* without a look at the permissions.                                      *)
DynamicInformers ==
  When(Enabled("argo"), {"argoRollout"})
    \cup When(Enabled("envoy") /\ ~config.namespaced, Gateways)

DynamicClient == When(Enabled("argo") \/ Enabled("envoy"), {"dynamicClient"})

CreateClient ==
  /\ phase = "reviewed"
  /\ stores' = TypedInformers \cup DynamicInformers \cup DynamicClient
  /\ phase' = "syncing"
  /\ UNCHANGED << config, granted, ok, synced, group, registered, lookup >>

Running == {"syncing", "registering", "ready"}

(* The informers' goroutines (external): a store fills when its resource   *)
(* may be listed.  The typed ones are as good as filled together.          *)
SyncTyped ==
  LET filled == {s \in stores \cap TypedInformers : ReadPermission(s) \in granted}
  IN  /\ phase \in Running /\ ~ filled \subseteq synced
      /\ synced' = synced \cup filled
      /\ UNCHANGED << config, granted, ok, phase, stores, group, registered, lookup >>

(* The resource's definition may be installed at any time, or never.       *)
SyncDynamic ==
  LET filled == {s \in stores \cap Dynamic : ReadPermission(s) \in granted}
  IN  /\ phase \in Running /\ ~ filled \subseteq synced
      /\ synced' = synced \cup filled
      /\ UNCHANGED << config, granted, ok, phase, stores, group, registered, lookup >>

(* Mutant: waiting for none.                                               *)
NoInformers == {}

informerSyncList == TypedInformers

WaitForCacheSync ==
  /\ phase = "syncing"
  /\ informerSyncList \subseteq synced
  /\ phase' = "registering"
  /\ UNCHANGED << config, granted, ok, stores, synced, group, registered, lookup >>

-----------------------------------------------------------------------------
(* Registration in main: what a group holds, if it is registered at all,   *)
(* and which parts of it ask for permissions of their own.                 *)

Always ==
  [argo        |-> {"rolloutDiscovery"},
   envoy       |-> {"httpRouteDiscovery"},
   deployment  |-> {"deploymentDiscovery", "rolloutStatusCheck", "deploymentPodCount"},
   replicaset  |-> {"replicaSetDiscovery", "replicaSetPodCount"},
   pod         |-> {"podDiscovery"},
   statefulset |-> {"statefulSetDiscovery", "statefulSetPodCount"},
   daemonset   |-> {"daemonSetDiscovery", "daemonSetPodCount"},
   ingress     |-> {"ingressDiscovery", "haproxyAttack", "nginxBlock", "nginxDelay"},
   node        |-> {"nodeDiscovery", "nodeCount"},
   container   |-> {"containerDiscovery"},
   cluster     |-> {"podCountMetrics", "events"}]

PermittedParts ==
  [argo        |-> When(hasPermissions({"rollouts/patch"}), {"rolloutRestart"})
                     \cup When(hasPermissions({"rollouts/scale"}), {"scaleRollout"}),
   envoy       |-> When(hasPermissions({"backendtrafficpolicies/write"}), {"envoyAttack"}),
   deployment  |-> When(hasPermissions({"deployments/patch"}),
                        {"deploymentRestart", "setImage"})
                     \cup When(hasPermissions({"deployments/scale"}), {"scaleDeployment"}),
   replicaset  |-> When(hasPermissions({"replicasets/scale"}), {"scaleReplicaSet"}),
   pod         |-> When(hasPermissions({"pods/delete"}), {"deletePod"})
                     \cup When(hasPermissions({"pods/exec"}), {"crashLoop"}),
   statefulset |-> When(hasPermissions({"statefulsets/scale"}), {"scaleStatefulSet"}),
   daemonset   |-> {},
   ingress     |-> {},
   node        |-> When(hasPermissions({"pods/eviction", "nodes/patch"}),
                        {"drainNode", "taintNode"}),
   container   |-> {},
   cluster     |-> {}]

(* Mutant: the ingress group asks for what the attacks need, not for what  *)
(* the discoveries look up.                                                *)
IsOpenForAttacks(g) ==
  /\ Enabled(g)
  /\ g \in {"envoy", "ingress", "node"} => ~config.namespaced
  /\ g = "envoy" => hasPermissions({"httproutes/read"})
  /\ g = "ingress" => hasPermissions({"ingresses/read", "ingresses/write"})

IsOpen(g) ==
  /\ Enabled(g)
  /\ g \in {"envoy", "ingress", "node"} => ~config.namespaced
  /\ g = "envoy" => hasPermissions({"httproutes/read"})
  /\ g = "ingress" =>
       hasPermissions({"ingresses/read", "ingressclasses/read", "ingresses/write"})

Register ==
  /\ phase = "registering" /\ group <= Len(Groups)
  /\ LET g == Groups[group]
     IN  registered' = registered \cup When(IsOpen(g), Always[g] \cup PermittedParts[g])
  /\ group' = group + 1
  /\ UNCHANGED << config, granted, ok, phase, stores, synced, lookup >>

Listen ==
  /\ phase = "registering" /\ group > Len(Groups)
  /\ phase' = "ready"
  /\ UNCHANGED << config, granted, ok, stores, synced, group, registered, lookup >>

-----------------------------------------------------------------------------
(* Lookups: the stores they read without asking whether these are there.   *)
(* Lookups of autoscalers, disruption budgets, routes, gateways and events *)
(* ask.                                                                    *)

Nodes          == When(~config.namespaced, {"node"})
Namespaces     == When(~config.namespaced, {"namespace"})
Ingresses      == When(~config.namespaced, {"ingress"})
IngressClasses == When(~config.namespaced, {"ingressClass"})

AddNamespaceLabels == When(hasPermissions({"namespaces/read"}), Namespaces)

OwnerReferences ==
  {"replicaSet", "daemonSet", "deployment", "statefulSet"}
    \cup When(Enabled("argo"), {"argoRollout"})

OfPods == {"pod", "service"} \cup Nodes \cup AddNamespaceLabels

Discoveries ==
  {"rolloutDiscovery", "httpRouteDiscovery", "deploymentDiscovery",
   "replicaSetDiscovery", "podDiscovery", "statefulSetDiscovery",
   "daemonSetDiscovery", "ingressDiscovery", "nodeDiscovery", "containerDiscovery"}

Lookups(part) ==
  UNION {
    When(part \in Discoveries \ {"httpRouteDiscovery", "ingressDiscovery"}, OfPods),
    When(part \in {"httpRouteDiscovery", "ingressDiscovery"}, AddNamespaceLabels),
    When(part \in {"replicaSetDiscovery", "podDiscovery", "containerDiscovery",
                   "nodeDiscovery"}, OwnerReferences),
    When(part \in {"deploymentDiscovery", "deploymentPodCount", "scaleDeployment",
                   "setImage", "podCountMetrics"}, {"deployment"}),
    When(part \in {"deploymentDiscovery", "replicaSetDiscovery",
                   "replicaSetPodCount", "scaleReplicaSet"}, {"replicaSet"}),
    When(part \in {"statefulSetDiscovery", "statefulSetPodCount",
                   "scaleStatefulSet"}, {"statefulSet"}),
    When(part \in {"daemonSetDiscovery", "daemonSetPodCount"}, {"daemonSet"}),
    When(part \in {"crashLoop", "nginxDelay"}, {"pod"}),
    When(part = "nodeCount", Nodes),
    When(part \in {"rolloutDiscovery", "scaleRollout"}, {"argoRollout"}),
    When(part \in {"rolloutRestart", "envoyAttack"}, {"dynamicClient"}),
    When(part = "ingressDiscovery", Ingresses),
    When(part \in {"haproxyAttack", "nginxBlock", "nginxDelay"}, {"ingress"}),
    When(part \in {"ingressDiscovery", "nginxDelay"}, IngressClasses) }

(* A discovery works as soon as it is registered, an action when main      *)
(* listens.                                                                *)
Result(part, read) ==
  [part     |-> part,
   missing  |-> read \ stores,
   unsynced |-> (read \ {"dynamicClient"}) \ synced]

LookUp(part) ==
  /\ part \in registered
  /\ \/ part \in Discoveries /\ phase = "registering"
     \/ phase = "ready"
  /\ lookup' = Result(part, Lookups(part))
  /\ UNCHANGED << config, granted, ok, phase, stores, synced, group, registered >>

(* PrintMemoryUsage goes over all typed informers but that of disruption   *)
(* budgets; a nil pointer in its goroutine ends the process.               *)
MemoryUsage == Core \cup {"namespace", "node", "hpa", "ingress", "ingressClass"}

PrintMemoryUsage ==
  /\ phase = "ready" /\ config.memoryStats
  /\ lookup' = Result("memoryStats", MemoryUsage)
  /\ phase' = IF MemoryUsage \subseteq stores THEN phase ELSE "exited"
  /\ UNCHANGED << config, granted, ok, stores, synced, group, registered >>

Main == checkPermissions \/ CreateClient \/ WaitForCacheSync \/ Register \/ Listen

Next ==
  \/ Main \/ SyncTyped \/ SyncDynamic \/ PrintMemoryUsage
  \/ \E part \in registered : LookUp(part)

Spec     == Init /\ [][Next]_vars
FairSpec == Spec /\ WF_vars(Main) /\ WF_vars(SyncTyped)

-----------------------------------------------------------------------------
(* Properties                                                              *)

Stores == Core \cup Dynamic \cup {"node", "namespace", "hpa", "pdb", "ingress", "ingressClass"}
Parts  == UNION {Always[g] : g \in GroupNames}
            \cup {"rolloutRestart", "scaleRollout", "envoyAttack", "deploymentRestart",
                  "setImage", "scaleDeployment", "scaleReplicaSet", "deletePod",
                  "crashLoop", "scaleStatefulSet", "drainNode", "taintNode"}

(* The types of the variables of main and of the client.                   *)
TypeOK ==
  /\ config \in Config /\ granted \subseteq Permissions /\ ok \subseteq Permissions
  /\ phase \in {"start", "reviewed"} \cup Running \cup {"exited"}
  /\ stores \subseteq Stores \cup {"dynamicClient"} /\ synced \subseteq Stores
  /\ group \in 1 .. Len(Groups) + 1 /\ registered \subseteq Parts
  /\ lookup \in [part     : Parts \cup {"none", "memoryStats"},
                 missing  : SUBSET (Stores \cup {"dynamicClient"}),
                 unsynced : SUBSET Stores]

(* Whatever is disabled, filtered or refused, no discovery and no action   *)
(* that main registered looks into a store CreateClient did not make: the  *)
(* conditions of main, of CreateClient and of the lookups, written in      *)
(* three places, fit each other.                                           *)
NoMissingStore == lookup.part \in registered => lookup.missing = {}

(* What is looked up has synced, so that an action never takes an empty    *)
(* cache for an empty cluster; only resources whose definition may not be  *)
(* installed are read unsynced.                                            *)
SyncedBeforeUse == lookup.unsynced \cap stores \subseteq Dynamic

(* With the required permissions the extension gets ready, whatever        *)
(* optional permission is missing: it never waits for the cache of an      *)
(* informer that may not list.                                             *)
StartsUp == (phase = "start" /\ Required \subseteq granted) ~> (phase = "ready")

(* Optional permissions cost features only: the process does not end when  *)
(* the required ones are granted.                                          *)
KeepsRunning == phase = "exited" => ~ Required \subseteq granted
=============================================================================
