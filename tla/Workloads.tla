----------------------------- MODULE Workloads -----------------------------
(***************************************************************************)
(* The targets that the discoveries of pods, containers, nodes, replica    *)
(* sets, deployments, stateful sets, daemon sets and Argo rollouts make of *)
(* the informers' stores, and the lookups they use (src/client/client.go,  *)
(* owners.go), for one namespace.                                          *)
(*                                                                         *)
(* Every informer lags on its own, so the stores hold any mixture of       *)
(* versions, of a pod and of a workload that was deleted and made again    *)
(* under the same name, say.  An owner reference carries a name and a UID: *)
(* the pods' targets follow the names, the workloads' targets the UIDs,    *)
(* and a rollout's target follows labels.                                  *)
(***************************************************************************)
EXTENDS Naturals, Sequences, FiniteSets, SequencesExt, FiniteSetsExt

CONSTANTS Objects,     \* set of [kind, name]
          Versions,    \* [Objects -> what a store may hold of the object]
          Services,    \* [name of a service -> its selector, a set of labels]
          MaxPodCount, \* DiscoveryMaxPodCount
          ArgoEnabled  \* ~DiscoveryDisabledArgoRollout

WorkloadsAssumption == MaxPodCount \in Nat /\ ArgoEnabled \in BOOLEAN

(* A version is [uid, owners, excluded, labels, running, ids, node]: uid   *)
(* tells objects of one name apart, owners is a sequence of [kind, name,   *)
(* uid]; labels are the pod's or, of a workload, its pod template's; ids   *)
(* are those of the started containers.                                    *)
VARIABLE store    \* [Objects -> the version the lister has, or Absent]

Absent == [uid |-> 0, owners |-> << >>, excluded |-> FALSE, labels |-> {}, running |-> FALSE,
           ids |-> {}, node |-> "none"]

WorkloadKinds == {"replicaset", "daemonset", "deployment", "statefulset", "rollout"}

None == "none"

-----------------------------------------------------------------------------
Of(kind) == {o \in Objects : o.kind = kind /\ store[o] # Absent}

onlyRunningPods(pods) == {p \in pods : store[p].running}

(* A label of the object itself.                                           *)
IsExcludedFromDiscovery(o) == store[o].excluded

(* What the discovery of a kind lists; of the pods only those that run.    *)
Listed(kind) ==
  {o \in IF kind = "pod" THEN onlyRunningPods(Of(kind)) ELSE Of(kind) :
     ~IsExcludedFromDiscovery(o)}

(* The object a reference names, whatever its UID; other kinds are not     *)
(* looked up.                                                              *)
getResource(ref) ==
  {o \in Objects : /\ store[o] # Absent
                   /\ o.kind \in WorkloadKinds /\ o.kind = ref.kind /\ o.name = ref.name
                   /\ o.kind = "rollout" => ArgoEnabled}

(* The owners of an object, their owners, and so on, depth first; of a     *)
(* rollout the owners are not known.                                       *)
RECURSIVE OwnerReferences(_)
OwnerReferences(o) ==
  IF o.kind = "rollout" THEN << >>
  ELSE FoldLeft(LAMBDA refs, ref :
                  refs \o FlattenSeq(SetToSeq({<< w >> \o OwnerReferences(w) :
                                                 w \in getResource(ref)})),
                << >>, store[o].owners)

(* Every owner overwrites an earlier one of its kind; the workload is the  *)
(* last one.                                                               *)
OwnerAttributes(o) ==
  LET refs == OwnerReferences(o)
      OfKind(kind) == SelectSeq(refs, LAMBDA w : w.kind = kind)
  IN  [owner    |-> [kind \in WorkloadKinds |->
                       IF OfKind(kind) = << >> THEN None ELSE Last(OfKind(kind)).name],
       type     |-> IF refs = << >> THEN None ELSE Last(refs).kind,
       workload |-> IF refs = << >> THEN None ELSE Last(refs).name]

-----------------------------------------------------------------------------
(* The lookups of pods and services.                                       *)

OwnedBy(o, w) ==
  \E i \in DOMAIN store[o].owners :
    store[o].owners[i] = [kind |-> w.kind, name |-> w.name, uid |-> store[w].uid]

(* Mutant: every pod that a replica set of the deployment's name owns.     *)
PodsOwnedByName(d) ==
  onlyRunningPods({p \in Of("pod") : \E w \in ToSet(OwnerReferences(p)) : w = d})

PodsByOwnerUid(w) == onlyRunningPods({p \in Of("pod") : OwnedBy(p, w)})

PodsOwnedByDeployment(d) ==
  LET replicaSets == {rs \in Of("replicaset") : OwnedBy(rs, d)}
  IN  onlyRunningPods({p \in Of("pod") : \E rs \in replicaSets : OwnedBy(p, rs)})

PodsByLabelSelector(labels) ==
  onlyRunningPods({p \in Of("pod") : labels \subseteq store[p].labels})

ServicesMatchingToPodLabels(labels) == {s \in DOMAIN Services : Services[s] \subseteq labels}

PodsOf(w) ==
  CASE w.kind = "deployment" -> PodsOwnedByDeployment(w)
    [] w.kind = "rollout"    -> PodsByLabelSelector(store[w].labels)
    [] OTHER                 -> PodsByOwnerUid(w)

ContainerIds(pods) == UNION {store[p].ids : p \in pods}

GetPodBasedAttributes(pods) ==
  IF Cardinality(pods) > MaxPodCount
  THEN [tooMany |-> TRUE, pods |-> {}, ids |-> {}, hosts |-> {}]
  ELSE [tooMany |-> FALSE, pods |-> pods, ids |-> ContainerIds(pods),
        hosts |-> {store[p].node : p \in pods}]

-----------------------------------------------------------------------------
(* The targets, and the data that enriches containers.                     *)

WorkloadTarget(w) ==
  [pods |-> GetPodBasedAttributes(PodsOf(w)),
   services |-> ServicesMatchingToPodLabels(store[w].labels)]

PodTarget(p) ==
  [owners |-> OwnerAttributes(p), ids |-> store[p].ids, host |-> store[p].node,
   services |-> ServicesMatchingToPodLabels(store[p].labels)]

ContainerEnrichment ==
  UNION {{[id |-> id, owners |-> OwnerAttributes(p)] : id \in store[p].ids} : p \in Listed("pod")}

(* A node names the owners of its pods, but no rollouts.                   *)
NodeTarget(node) ==
  LET pods == {p \in Listed("pod") : store[p].node = node}
      refs == UNION {ToSet(OwnerReferences(p)) : p \in pods}
  IN  [pods  |-> pods,
       ids   |-> ContainerIds(pods),
       owner |-> [kind \in WorkloadKinds \ {"rollout"} |-> {w.name : w \in {r \in refs : r.kind = kind}}]]

-----------------------------------------------------------------------------
Init == store = [o \in Objects |-> Absent]

(* An informer delivers a version of an object, or its deletion (external).*)
Deliver(o) ==
  \E v \in Versions[o] \cup {Absent} : store' = [store EXCEPT ![o] = v]

Next == \E o \in Objects : Deliver(o)

Spec == Init /\ [][Next]_store

-----------------------------------------------------------------------------
(* Properties                                                              *)

(* What the stores have of an object's owners is what it was made with.    *)
RECURSIVE InSync(_)
InSync(o) ==
  \A i \in DOMAIN store[o].owners :
    LET ref == store[o].owners[i]
    IN  ref.kind \in WorkloadKinds =>
          \E w \in getResource(ref) : store[w].uid = ref.uid /\ InSync(w)

Workloads == UNION {Listed(kind) : kind \in WorkloadKinds \ {"rollout"}}
Owner(p, kind) == PodTarget(p).owners.owner[kind]

(* The pod, or one of the objects its references lead to by name, refers   *)
(* to this very workload and not just to one of its name.                  *)
Refers(p, w) == \E o \in {p} \cup ToSet(OwnerReferences(p)) : OwnedBy(o, w)

(* The targets agree with each other.  A workload lists only pods whose    *)
(* target names it and which refer to it, so a workload made again never   *)
(* inherits the pods of its predecessor; and once the stores have caught   *)
(* up, every running pod that names a workload is listed by it, unless     *)
(* there are too many (and, for a rollout, if it has the template's        *)
(* labels).  The containers' data and the nodes' targets name the same     *)
(* workloads.                                                              *)
TargetsAgree ==
  /\ \A w \in Workloads, p \in Listed("pod") :
       LET target == WorkloadTarget(w).pods
       IN  /\ p \in target.pods => Owner(p, w.kind) = w.name /\ Refers(p, w)
           /\ /\ InSync(p) /\ ~target.tooMany
              /\ Owner(p, w.kind) = w.name
              => p \in target.pods /\ store[p].ids \subseteq target.ids
  /\ \A r \in Listed("rollout"), p \in Listed("pod") :
       LET target == WorkloadTarget(r).pods
       IN  /\ InSync(p) /\ ~target.tooMany
           /\ Owner(p, "rollout") = r.name /\ store[r].labels \subseteq store[p].labels
           => p \in target.pods
  /\ \A c \in ContainerEnrichment, p \in Listed("pod") :
       c.id \in store[p].ids => c.owners = PodTarget(p).owners
  /\ \A p \in Listed("pod"), kind \in WorkloadKinds \ {"rollout"} :
       Owner(p, kind) # None => Owner(p, kind) \in NodeTarget(store[p].node).owner[kind]
=============================================================================
