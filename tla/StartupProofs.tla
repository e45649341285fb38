---------------------------- MODULE StartupProofs ----------------------------
(***************************************************************************)
(* Proofs about Startup, for every set of configurations and permissions.  *)
(***************************************************************************)
EXTENDS Startup, TLAPS

(* What CreateClient makes.                                                *)
Made == TypedInformers \cup DynamicInformers \cup DynamicClient

(* What main registers of a group.                                         *)
PartsOf(g) == Always[g] \cup PermittedParts[g]

(* The parts whose lookups every client serves.                            *)
LEMMA PlainParts ==
  ASSUME NEW g \in {"deployment", "replicaset", "pod", "statefulset", "daemonset",
                    "container", "cluster"},
         NEW p \in PartsOf(g)
  PROVE  Lookups(p) \subseteq Made
<1>1. /\ OfPods \subseteq Made
      /\ OwnerReferences \subseteq Made
      /\ Core \subseteq Made
  BY DEF OfPods, OwnerReferences, Made, TypedInformers, DynamicInformers, Core, When,
         Nodes, Namespaces, AddNamespaceLabels
<1>2. p \notin {"httpRouteDiscovery", "ingressDiscovery", "nodeCount", "rolloutDiscovery",
                "scaleRollout", "rolloutRestart", "envoyAttack", "haproxyAttack",
                "nginxBlock", "nginxDelay"}
  BY DEF PartsOf, Always, PermittedParts, When
<1>. QED
  BY <1>1, <1>2 DEF Lookups, When, Core

(* The parts on Argo rollouts.                                             *)
LEMMA ArgoParts ==
  ASSUME IsOpen("argo"), NEW p \in PartsOf("argo")
  PROVE  Lookups(p) \subseteq Made
<1>1. p \in {"rolloutDiscovery", "rolloutRestart", "scaleRollout"}
  BY DEF PartsOf, Always, PermittedParts, When
<1>2. {"argoRollout", "dynamicClient"} \subseteq Made /\ OfPods \subseteq Made
  BY DEF IsOpen, Made, DynamicInformers, DynamicClient, When, OfPods, TypedInformers, Core,
         Nodes, Namespaces, AddNamespaceLabels
<1>. QED
  BY <1>1, <1>2 DEF Lookups, When, Discoveries

(* The parts on routes.                                                    *)
LEMMA EnvoyParts ==
  ASSUME IsOpen("envoy"), NEW p \in PartsOf("envoy")
  PROVE  Lookups(p) \subseteq Made
<1>1. p \in {"httpRouteDiscovery", "envoyAttack"}
  BY DEF PartsOf, Always, PermittedParts, When
<1>2. {"dynamicClient"} \subseteq Made /\ AddNamespaceLabels \subseteq Made
  BY DEF IsOpen, Made, DynamicClient, When, TypedInformers, Namespaces, AddNamespaceLabels
<1>. QED
  BY <1>1, <1>2 DEF Lookups, When, Discoveries

(* The parts on ingresses.                                                 *)
LEMMA IngressParts ==
  ASSUME IsOpen("ingress"), NEW p \in PartsOf("ingress")
  PROVE  Lookups(p) \subseteq Made
<1>1. p \in {"ingressDiscovery", "haproxyAttack", "nginxBlock", "nginxDelay"}
  BY DEF PartsOf, Always, PermittedParts
<1>2. /\ ~config.namespaced
      /\ hasPermissions({"ingresses/read"}) /\ hasPermissions({"ingressclasses/read"})
  BY DEF IsOpen, hasPermissions
<1>3. {"ingress", "ingressClass", "pod"} \subseteq Made /\ AddNamespaceLabels \subseteq Made
  BY <1>2 DEF Made, When, TypedInformers, Core, Namespaces, AddNamespaceLabels
<1>. QED
  BY <1>1, <1>3 DEF Lookups, When, Discoveries, Ingresses, IngressClasses

(* The parts on nodes.                                                     *)
LEMMA NodeParts ==
  ASSUME IsOpen("node"), NEW p \in PartsOf("node")
  PROVE  Lookups(p) \subseteq Made
<1>1. p \in {"nodeDiscovery", "nodeCount", "drainNode", "taintNode"}
  BY DEF PartsOf, Always, PermittedParts, When
<1>2. Nodes \subseteq Made /\ OfPods \subseteq Made /\ OwnerReferences \subseteq Made
  BY DEF Made, DynamicInformers, When, OfPods, TypedInformers, Core, Nodes, Namespaces,
         AddNamespaceLabels, OwnerReferences
<1>. QED
  BY <1>1, <1>2 DEF Lookups, When, Discoveries

(* Whatever main registers finds the stores it reads.                      *)
LEMMA PartsAreServed ==
  ASSUME NEW g \in GroupNames, IsOpen(g), NEW p \in PartsOf(g)
  PROVE  Lookups(p) \subseteq Made
<1>1. g \in {"argo", "envoy", "deployment", "replicaset", "pod", "statefulset",
             "daemonset", "ingress", "node", "container", "cluster"}
  BY DEF GroupNames, Groups
<1>. QED
  BY <1>1, PlainParts, ArgoParts, EnvoyParts, IngressParts, NodeParts

(* No part has the name under which the memory statistics look things up.  *)
LEMMA NoPartIsMemoryStats ==
  ASSUME NEW g \in GroupNames
  PROVE  "memoryStats" \notin PartsOf(g)
<1>1. g \in {"argo", "envoy", "deployment", "replicaset", "pod", "statefulset",
             "daemonset", "ingress", "node", "container", "cluster"}
  BY DEF GroupNames, Groups
<1>. QED
  BY <1>1 DEF PartsOf, Always, PermittedParts, When

-----------------------------------------------------------------------------
(* The inductive invariant: nothing is registered before the client is     *)
(* made, the client stays as it was made, and it serves what is            *)
(* registered.                                                             *)
ClientAsMade == phase \in Running => stores = Made
NothingEarly == phase \in {"start", "reviewed"} => registered = {}
Served ==
  /\ "memoryStats" \notin registered
  /\ \A p \in registered : Lookups(p) \subseteq Made

OnlyStatsMiss == lookup.part # "memoryStats" => lookup.missing = {}

IInv == /\ phase \in {"start", "reviewed", "exited"} \cup Running
        /\ group \in Nat \ {0}
        /\ ClientAsMade /\ NothingEarly /\ Served /\ OnlyStatsMiss

LEMMA InitIInv == Init => IInv
BY DEF Init, IInv, ClientAsMade, NothingEarly, Served, OnlyStatsMiss, Running, Nothing

(* What the client would be made of depends on the configuration and on    *)
(* the outcome of the review alone.                                        *)
LEMMA MadeStays ==
  ASSUME UNCHANGED << config, ok >>
  PROVE  Made' = Made /\ \A p : Lookups(p)' = Lookups(p)
BY DEF Made, TypedInformers, DynamicInformers, DynamicClient, Enabled, hasPermissions,
       Lookups, OfPods, OwnerReferences, Nodes, Namespaces, Ingresses, IngressClasses,
       AddNamespaceLabels

LEMMA NextIInv == IInv /\ [Next]_vars => IInv'
<1>. SUFFICES ASSUME IInv, [Next]_vars PROVE IInv'
  OBVIOUS
<1>. USE DEF IInv, ClientAsMade, NothingEarly, Served, OnlyStatsMiss, Running
<1>1. CASE checkPermissions
  BY <1>1 DEF checkPermissions
<1>2. CASE CreateClient
  <2>1. Made' = Made /\ \A p : Lookups(p)' = Lookups(p)
    BY <1>2, MadeStays DEF CreateClient
  <2>. QED
    BY <1>2, <2>1 DEF CreateClient, Made
<1>3. CASE WaitForCacheSync \/ Listen \/ SyncTyped \/ SyncDynamic
  <2>1. Made' = Made /\ \A p : Lookups(p)' = Lookups(p)
    BY <1>3, MadeStays DEF WaitForCacheSync, Listen, SyncTyped, SyncDynamic
  <2>. QED
    BY <1>3, <2>1 DEF WaitForCacheSync, Listen, SyncTyped, SyncDynamic
<1>4. CASE Register
  <2>1. Made' = Made /\ \A p : Lookups(p)' = Lookups(p)
    BY <1>4, MadeStays DEF Register
  <2>2. PICK g \in GroupNames :
          registered' = registered \cup When(IsOpen(g), PartsOf(g))
    <3>1. group \in 1 .. Len(Groups)
      BY <1>4 DEF Register, Groups
    <3>2. Groups[group] \in GroupNames
      BY <3>1 DEF GroupNames
    <3>. QED
      BY <1>4, <3>2 DEF Register, PartsOf
  <2>3. \A p \in registered' : p \in registered \/ (IsOpen(g) /\ p \in PartsOf(g))
    BY <2>2 DEF When
  <2>4. \A p \in registered' : Lookups(p) \subseteq Made /\ p # "memoryStats"
    BY <2>3, PartsAreServed, NoPartIsMemoryStats
  <2>5. group' \in Nat \ {0} /\ phase' \in Running
    BY <1>4 DEF Register
  <2>6. ClientAsMade' /\ NothingEarly' /\ OnlyStatsMiss'
    BY <1>4, <2>1 DEF Register
  <2>7. Served'
    BY <2>1, <2>4
  <2>. QED
    BY <2>5, <2>6, <2>7 DEF IInv
<1>5. ASSUME NEW p \in registered, LookUp(p) PROVE IInv'
  <2>1. Made' = Made /\ \A q : Lookups(q)' = Lookups(q)
    BY <1>5, MadeStays DEF LookUp
  <2>2. Lookups(p) \subseteq stores
    BY <1>5 DEF LookUp
  <2>. QED
    BY <1>5, <2>1, <2>2 DEF LookUp, Result
<1>6. CASE PrintMemoryUsage
  <2>1. Made' = Made /\ \A q : Lookups(q)' = Lookups(q)
    BY <1>6, MadeStays DEF PrintMemoryUsage
  <2>. QED
    BY <1>6, <2>1 DEF PrintMemoryUsage, Result
<1>7. CASE UNCHANGED vars
  <2>1. Made' = Made /\ \A q : Lookups(q)' = Lookups(q)
    BY <1>7, MadeStays DEF vars
  <2>. QED
    BY <1>7, <2>1 DEF vars
<1>. QED
  BY <1>1, <1>2, <1>3, <1>4, <1>5, <1>6, <1>7 DEF Next, Main

(* For every configuration and whatever is refused, nothing that main      *)
(* registered looks into a store that CreateClient did not make.           *)
THEOREM StoresAreThere == Spec => []NoMissingStore
<1>1. IInv => NoMissingStore
  BY DEF IInv, Served, OnlyStatsMiss, NoMissingStore
<1>. QED
  BY <1>1, InitIInv, NextIInv, PTL DEF Spec

-----------------------------------------------------------------------------
(* Main registers nothing before the caches it waits for have synced, and  *)
(* what has synced stays so.                                               *)
Waited == phase \in {"registering", "ready"} => TypedInformers \subseteq synced
LookedUpSynced ==
  /\ phase \in {"start", "reviewed"} => stores = {} /\ lookup.unsynced = {}
  /\ stores \subseteq Made
  /\ lookup.unsynced \cap Made \subseteq Dynamic

SInv == IInv /\ Waited /\ LookedUpSynced

LEMMA InitSInv == Init => SInv
BY InitIInv DEF Init, SInv, Waited, LookedUpSynced, Nothing

(* What was made and need not be waited for is a dynamic informer's or the *)
(* dynamic client.                                                         *)
LEMMA UnsyncedIsDynamic ==
  ASSUME TypedInformers \subseteq synced, NEW part, NEW read
  PROVE  Result(part, read).unsynced \cap Made \subseteq Dynamic
BY DEF Result, Made, DynamicInformers, DynamicClient, Dynamic, When

LEMMA NextSInv == SInv /\ [Next]_vars => SInv'
<1>. SUFFICES ASSUME SInv, [Next]_vars PROVE SInv'
  OBVIOUS
<1>1. IInv'
  BY NextIInv DEF SInv
<1>. SUFFICES Waited' /\ LookedUpSynced'
  BY <1>1 DEF SInv
<1>. USE DEF SInv, Waited, LookedUpSynced, Running
<1>2. CASE checkPermissions
  BY <1>2 DEF checkPermissions
<1>3. ASSUME UNCHANGED << config, ok >>
      PROVE  Made' = Made /\ TypedInformers' = TypedInformers
  BY <1>3 DEF Made, TypedInformers, DynamicInformers, DynamicClient, Enabled,
              hasPermissions
<1>4. CASE CreateClient \/ WaitForCacheSync \/ Register \/ Listen \/ SyncTyped
            \/ SyncDynamic \/ UNCHANGED vars
  BY <1>3, <1>4 DEF CreateClient, Made, WaitForCacheSync, informerSyncList, Register, Listen,
                    SyncTyped, SyncDynamic, vars
<1>5. ASSUME NEW p \in registered, LookUp(p)
      PROVE  Waited' /\ LookedUpSynced'
  <2>1. lookup' = Result(p, Lookups(p)) /\ phase' = phase /\ phase \in {"registering", "ready"}
    BY <1>5 DEF LookUp
  <2>2. Result(p, Lookups(p)).unsynced \cap Made \subseteq Dynamic
    BY <2>1, UnsyncedIsDynamic
  <2>. QED
    BY <1>3, <1>5, <2>1, <2>2 DEF LookUp
<1>6. CASE PrintMemoryUsage
  <2>1. lookup' = Result("memoryStats", MemoryUsage) /\ phase = "ready"
    BY <1>6 DEF PrintMemoryUsage
  <2>2. Result("memoryStats", MemoryUsage).unsynced \cap Made \subseteq Dynamic
    BY <2>1, UnsyncedIsDynamic
  <2>. QED
    BY <1>3, <1>6, <2>1, <2>2 DEF PrintMemoryUsage
<1>. QED
  BY <1>2, <1>4, <1>5, <1>6 DEF Next, Main

(* Every lookup after the wait finds the stores it waited for synced.      *)
THEOREM CachesAreFull == Spec => []SyncedBeforeUse
<1>1. SInv => SyncedBeforeUse
  BY DEF SInv, LookedUpSynced, SyncedBeforeUse
<1>. QED
  BY <1>1, InitSInv, NextSInv, PTL DEF Spec
=============================================================================
