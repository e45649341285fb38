-------------------------- MODULE MCKubectlAction --------------------------
(***************************************************************************)
(* Instances of KubectlAction: two executions on one target.  Every attack *)
(* has a setting that disturbs it as much as its properties allow: where   *)
(* the value has to be restored nobody else writes it, and where the end   *)
(* of kubectl has to be reported no signal ends it.                        *)
(***************************************************************************)
EXTENDS KubectlAction, TLC

CONSTANTS e1, e2

MCValues == 0 .. 2

Faults ==
  [ofDeployment |-> FALSE, oneAtATime |-> TRUE, freshCache |-> TRUE, othersWrite |-> FALSE,
   lateRequests |-> FALSE, lostAnswers |-> TRUE, lostStarts |-> FALSE,
   signals |-> TRUE, crashes |-> TRUE]

SameValue  == [attack |-> "taint", new |-> [e \in Executions |-> 0]] @@ Faults
OwnValues  == [attack |-> "scaleDeployment", new |-> (e1 :> 0 @@ e2 :> 1)] @@ Faults

Scale     == OwnValues

(* The other scale attacks, one fault each; a replica set that belongs to  *)
(* a deployment is left alone.                                             *)
NoFaults         == [OwnValues EXCEPT !.lostAnswers = FALSE, !.signals = FALSE, !.crashes = FALSE]
ScaleStatefulSet == [NoFaults EXCEPT !.attack = "scaleStatefulSet", !.lostAnswers = TRUE]
ScaleReplicaSet  == [NoFaults EXCEPT !.attack = "scaleReplicaSet", !.crashes = TRUE]
OfDeployment     == [ScaleReplicaSet EXCEPT !.ofDeployment = TRUE]
ScaleRollout     == [NoFaults EXCEPT !.attack = "scaleRollout", !.signals = TRUE]

Taint     == SameValue
Drain     == [SameValue EXCEPT !.attack = "drain", !.lostAnswers = FALSE]
SetImage  == [OwnValues EXCEPT !.attack = "setImage", !.oneAtATime = FALSE,
               !.freshCache = FALSE, !.othersWrite = TRUE, !.lateRequests = TRUE,
               !.lostAnswers = FALSE, !.signals = FALSE, !.crashes = FALSE]
DeletePod == [SameValue EXCEPT !.attack = "deletePod", !.lostStarts = TRUE,
               !.signals = FALSE]

(* The node may be deleted before it is uncordoned.                        *)
LostNode  == [Drain EXCEPT !.othersWrite = TRUE, !.freshCache = FALSE,
               !.signals = FALSE, !.crashes = FALSE]

MCSettings == {Scale, ScaleStatefulSet, ScaleReplicaSet, OfDeployment, ScaleRollout, Taint,
                 Drain, LostNode, SetImage, DeletePod}

(* A request of the rollback precondition may fail.                        *)
MCDrainSettings == {[Drain EXCEPT !.lostAnswers = TRUE]}

(* A signal may end kubectl.                                               *)
MCSignalSettings == {[DeletePod EXCEPT !.signals = TRUE]}
=============================================================================
