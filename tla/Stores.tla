------------------------------- MODULE Stores -------------------------------
(***************************************************************************)
(* What becomes of an object's fields on the way into an informer's store. *)
(*                                                                         *)
(* Each informer has a transformer (src/client/transformers.go) that drops *)
(* what is not needed, to save memory; a reader of the store finds a field *)
(* that was dropped unset.  Who needs which field is spread over the whole *)
(* extension, and the scoring writes into the objects it gets from the     *)
(* stores.  A behaviour follows one field of one object; a value stands    *)
(* for everything the field may hold.                                      *)
(***************************************************************************)
EXTENDS Naturals, FiniteSets

VARIABLES
  field,     \* [kind, name] of the field
  disabled,  \* DiscoveryDisabledReplicaSet
  server,    \* the field's value in the cluster
  delivered, \* history: its value in the version the informer got last
  store      \* its value in the informer's store

vars == << field, disabled, server, delivered, store >>

Unset   == 0
Written == 9     \* what the scoring writes
Values  == {1, 2}

Of(kind, names) == [kind : {kind}, name : names]

Meta == {"labels", "ownerReferences"}

-----------------------------------------------------------------------------
(* What the transformers keep.  All of them drop managedFields, and most   *)
(* of them the annotations.                                                *)

transformDaemonSet   == Of("DaemonSet", Meta \cup {"spec", "desiredNumberScheduled", "numberReady"})
transformDeployment  == Of("Deployment", Meta \cup {"spec", "replicas", "readyReplicas", "availableReplicas"})
transformPod         ==
  Of("Pod", Meta \cup {"nodeName", "hostPID", "container.name", "container.imagePullPolicy",
                       "container.probes", "container.resources", "container.args",
                       "phase", "containerStatuses"})
transformNamespace   == Of("Namespace", Meta)
transformService     == Of("Service", {"ownerReferences", "selector"})
transformEvents      == Of("Event", {"lastTimestamp", "reason", "annotations"})
transformNodes       == Of("Node", Meta \cup {"conditions", "addresses"})
transformPDB         == Of("PodDisruptionBudget", Meta \cup {"selector"})
transformIngress     == Of("Ingress", Meta \cup {"ingressClassName", "annotations.class", "rules", "tls"})
transformIngressClass ==
  Of("IngressClass", Meta \cup {"controller", "annotations.default", "annotations.operator",
                                "annotations.releaseNamespace", "annotations.releaseName"})

(* The objects are v2, the transformer looks for v1: nothing is dropped.   *)
transformHPA         ==
  Of("HorizontalPodAutoscaler", Meta \cup {"scaleTargetRef", "minReplicas", "annotations", "managedFields"})

(* Mutant: of the replicas no number stays.                                *)
StatefulSetSpec      == Of("StatefulSet", Meta \cup {"spec"})

transformStatefulSet == Of("StatefulSet", Meta \cup {"spec", "readyReplicas"})

transformReplicaSet  ==
  Of("ReplicaSet", Meta \cup (IF disabled THEN {} ELSE {"annotations.revision", "spec", "readyReplicas"}))

Kept ==
  UNION {transformDaemonSet, transformDeployment, transformPod, transformNamespace, transformService,
         transformEvents, transformNodes, transformPDB, transformIngress, transformIngressClass,
         transformHPA, transformStatefulSet, transformReplicaSet}

(* The scoring stamps the objects and their pod templates, in the store.   *)
Stamped ==
  [kind : {"Deployment", "DaemonSet", "StatefulSet"}, name : {"typeMeta", "template.namespace"}]
    \cup Of("Service", {"typeMeta"}) \cup Of("HorizontalPodAutoscaler", {"typeMeta"})

-----------------------------------------------------------------------------
(* Who reads what.                                                         *)

Discoveries ==
  UNION {[kind : {"Pod", "Deployment", "StatefulSet", "DaemonSet", "Ingress", "Namespace", "Node"},
          name : {"labels"}],
         Of("Pod", {"ownerReferences", "nodeName", "containerStatuses", "phase"}),
         [kind : {"Deployment", "StatefulSet", "DaemonSet"}, name : {"spec"}],
         Of("ReplicaSet", {"ownerReferences"}),
         IF disabled THEN {}
         ELSE Of("ReplicaSet", {"labels", "annotations.revision", "spec"}),
         Of("Service", {"selector"}), Of("Node", {"addresses"}),
         Of("HorizontalPodAutoscaler", {"scaleTargetRef", "minReplicas"}),
         Of("PodDisruptionBudget", {"selector"}),
         Of("Ingress", {"ingressClassName", "annotations.class", "rules"}),
         Of("IngressClass", {"controller", "annotations.default"})}

Actions ==
  UNION {Of("Deployment", {"spec", "readyReplicas"}), Of("StatefulSet", {"spec", "readyReplicas"}),
         Of("DaemonSet", {"desiredNumberScheduled", "numberReady"}),
         IF disabled THEN {} ELSE Of("ReplicaSet", {"spec", "readyReplicas"}),
         Of("Pod", {"hostPID", "containerStatuses"}), Of("Node", {"conditions"}),
         Of("Event", {"lastTimestamp", "reason"})}

ModuleValidation ==
  Of("IngressClass", {"controller", "annotations.operator", "annotations.releaseNamespace",
                      "annotations.releaseName"})
    \cup Of("Pod", {"labels", "phase", "container.name", "container.args", "container.image"})

(* The metrics of the pod count checks and of the pod count metrics.       *)
PodCountMetrics ==
  [kind : {"Deployment", "StatefulSet"}, name : {"spec", "replicas", "readyReplicas", "availableReplicas"}]

Readers == UNION {Discoveries, Actions, ModuleValidation, PodCountMetrics}

Fields ==
  UNION {Kept, Stamped, Readers,
         [kind : {f.kind : f \in Kept}, name : {"annotations", "managedFields"}],
         Of("Deployment", {"conditions"}), Of("Service", {"labels"}), Of("Node", {"spec"})}

-----------------------------------------------------------------------------
Init ==
  /\ disabled \in BOOLEAN
  /\ field \in Fields
  /\ server \in Values
  /\ delivered = server
  /\ store = IF field \in Kept THEN server ELSE Unset

(* The object changes in the cluster (external).                           *)
Change ==
  /\ server' \in Values \ {server}
  /\ UNCHANGED << field, disabled, delivered, store >>

(* The informer gets it and puts what the transformer leaves of it into    *)
(* its store.                                                              *)
Deliver ==
  /\ delivered # server
  /\ delivered' = server
  /\ store' = IF field \in Kept THEN server ELSE Unset
  /\ UNCHANGED << field, disabled, server >>

(* GetKubeScoreForDeployment and its siblings.                             *)
Score ==
  /\ field \in Stamped
  /\ store' = Written
  /\ UNCHANGED << field, disabled, server, delivered >>

Next == Change \/ Deliver \/ Score

Spec == Init /\ [][Next]_vars

-----------------------------------------------------------------------------
(* Properties                                                              *)

(* Fields that are read although they are dropped: the numbers of a        *)
(* stateful set's metrics, and the images of the NGINX controllers.        *)
Forgotten ==
  Of("StatefulSet", {"replicas", "availableReplicas"}) \cup Of("Pod", {"container.image"})

(* Whoever reads a field of the store finds what the cluster had when the  *)
(* informer got the object: no transformer drops it, and nobody writes     *)
(* over it in the store.                                                   *)
ReadersSeeTheServer == field \in Readers \ Forgotten => store = delivered

(* "Deployment and StatefulSet Pod Count Checks now emit pod-count         *)
(* metrics" (CHANGELOG.md:49): the numbers are those of the cluster.       *)
PodCountMetricsAreReal == field \in PodCountMetrics => store = delivered
=============================================================================
