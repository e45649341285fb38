--------------------------- MODULE KubectlAction ---------------------------
(***************************************************************************)
(* The attacks that run kubectl in the background and roll back with       *)
(* another kubectl command (src/extcommon/action_kubectl.go): scale a      *)
(* deployment, stateful set, replica set or Argo rollout, set image,       *)
(* taint, drain and delete pod, on one target.                             *)
(*                                                                         *)
(* The platform calls Prepare, Start, Status and Stop and keeps the action *)
(* state between the calls; the state of a call that fails is lost.  The   *)
(* extension keeps the command states in memory only.  A kubectl process   *)
(* sends one request that changes the target; the API server handles it    *)
(* some time later, even when the process has been killed meanwhile.       *)
(***************************************************************************)
EXTENDS Naturals, FiniteSets

CONSTANTS Executions,
          Values,   \* what the target's attacked field may hold
          Gone,     \* the target does not exist (any more)
          Initial,  \* value before the first action
          Settings  \* which attack, and what happens around the extension

Scales  == {"scaleDeployment", "scaleStatefulSet", "scaleReplicaSet", "scaleRollout"}
Attacks == Scales \cup {"setImage", "taint", "drain", "deletePod"}

Setting ==
  [attack       : Attacks,
   new          : [Executions -> Values], \* the configured new value
   ofDeployment : BOOLEAN,  \* the target's workload type is deployment
   oneAtATime   : BOOLEAN,  \* actions on the target do not overlap
   freshCache   : BOOLEAN,  \* the informer has caught up when Prepare reads it
   othersWrite  : BOOLEAN,  \* somebody else writes the field or deletes the target
   lateRequests : BOOLEAN,  \* a killed kubectl's request may still be under way
                            \*   when the next kubectl runs
   lostAnswers  : BOOLEAN,  \* a request may take effect or fail unnoticed
   lostStarts   : BOOLEAN,  \* the platform may miss the answer to Start
   signals      : BOOLEAN,  \* kubectl may die from a signal that Stop did not send
   crashes      : BOOLEAN]  \* the extension may restart

ASSUME KubectlAssumption ==
  /\ Gone \notin Values
  /\ Initial \in Values
  /\ Settings \subseteq Setting

VARIABLES
  setting,   \* chosen once
  value,     \* the field on the API server
  cache,     \* the field in the informer's cache
  opts,      \* [e -> KubectlOpts]; NoOpts before Prepare
  phase,     \* [e -> how far the platform got with the action]
  spawned,   \* executions with a CmdStateID in the platform's state
  completed, \* executions with CommandCompleted in the platform's state
  reported,  \* [e -> what Status has told the platform]
  stop,      \* [e -> where the Stop handler stands]
  process,   \* [e -> the kubectl process]
  inflight,  \* executions whose request the server has yet to handle
  registry   \* executions with a command state in the extension's memory

platform == << opts, phase, spawned, completed, reported >>
command  == << process, inflight, registry >>
around   == << cache, setting >>
vars     == << setting, value, cache, opts, phase, spawned, completed, reported,
               stop, process, inflight, registry >>

Field  == Values \cup {Gone}
NoOpts == [command |-> "none"]

-----------------------------------------------------------------------------
(* The options providers.  A kubectl command finds its field in one of the *)
(* values it expects, or fails; then it writes.                            *)

Run(expects, writes) == [expects |-> expects, writes |-> writes]
Never                == Run({}, Gone)   \* no rollback command

Options(cmd, rollback, precondition, duration) ==
  [command |-> cmd, rollback |-> rollback,
   precondition |-> precondition, duration |-> duration]

(* --current-replicas guards the command; nothing guards its rollback.     *)
scaleDeployment(old, new) ==
  Options(Run({old}, new), Run(Values, old), FALSE, TRUE)

scaleStatefulSet(old, new) ==
  Options(Run({old}, new), Run(Values, old), FALSE, TRUE)

scaleReplicaSet(old, new) ==
  Options(Run({old}, new), Run(Values, old), FALSE, TRUE)

(* A count that is not set is taken for the default, 1, in old.            *)
scaleArgoRollout(old, new) ==
  Options(Run({old}, new), Run(Values, old), FALSE, TRUE)

setImage(old, new) ==
  Options(Run(Values, new), Run(Values, old), FALSE, TRUE)

(* "new" is the tainted node; the rollback wants the taint to be there.    *)
taintNode(old, new) ==
  Options(Run(Values \ {new}, new), Run({new}, Initial), FALSE, TRUE)

(* "new" is the cordoned node; uncordon is done only when the node can be  *)
(* fetched.                                                                *)
drainNode(old, new) ==
  Options(Run(Values, new), Run(Values, Initial), TRUE, TRUE)

deletePod == Options(Run(Values, Gone), Never, FALSE, FALSE)

OptionsFor(e, old) ==
  CASE setting.attack = "scaleDeployment"  -> scaleDeployment(old, setting.new[e])
    [] setting.attack = "scaleStatefulSet" -> scaleStatefulSet(old, setting.new[e])
    [] setting.attack = "scaleReplicaSet"  -> scaleReplicaSet(old, setting.new[e])
    [] setting.attack = "scaleRollout"     -> scaleArgoRollout(old, setting.new[e])
    [] setting.attack = "setImage"         -> setImage(old, setting.new[e])
    [] setting.attack = "taint"            -> taintNode(old, setting.new[e])
    [] setting.attack = "drain"            -> drainNode(old, setting.new[e])
    [] setting.attack = "deletePod"        -> deletePod

-----------------------------------------------------------------------------
Init ==
  /\ setting \in Settings
  /\ value = Initial /\ cache = Initial
  /\ opts = [e \in Executions |-> NoOpts]
  /\ phase = [e \in Executions |-> "new"]
  /\ spawned = {} /\ completed = {}
  /\ reported = [e \in Executions |-> "nothing"]
  /\ stop = [e \in Executions |-> "idle"]
  /\ process = [e \in Executions |-> "none"]
  /\ inflight = {} /\ registry = {}

Alive    == {"running", "answered"}
Inactive == {e \in Executions : phase[e] = "new" \/ stop[e] = "done"}

(* The old value comes from the informer's cache.  The scale attacks and   *)
(* set image refuse a target that is not there; a replica set whose count  *)
(* a deployment decides is not scaled.                                     *)
Prepare(e) ==
  /\ phase[e] = "new"
  /\ setting.oneAtATime => Inactive = Executions
  /\ setting.freshCache => cache = value
  /\ setting.attack \in Scales \cup {"setImage"} => cache # Gone
  /\ ~(setting.attack = "scaleReplicaSet" /\ setting.ofDeployment)
  /\ opts' = [opts EXCEPT ![e] = OptionsFor(e, cache)]
  /\ phase' = [phase EXCEPT ![e] = "prepared"]
  /\ UNCHANGED << value, around, spawned, completed, reported, stop, command >>

Spawn(e) ==
  /\ phase[e] = "prepared" /\ stop[e] = "idle"
  /\ process' = [process EXCEPT ![e] = "running"]
  /\ registry' = registry \cup {e}
  /\ UNCHANGED << value, around, opts, completed, reported, stop, inflight >>

Start(e) ==
  /\ Spawn(e)
  /\ spawned' = spawned \cup {e}
  /\ phase' = [phase EXCEPT ![e] = "started"]

(* kubectl runs, but the platform does not learn its CmdStateID.           *)
StartUnanswered(e) ==
  /\ setting.lostStarts
  /\ Spawn(e)
  /\ phase' = [phase EXCEPT ![e] = "startFailed"]
  /\ UNCHANGED spawned

(* cmd.Start fails after the command state was registered.                 *)
StartFails(e) ==
  /\ phase[e] = "prepared" /\ stop[e] = "idle"
  /\ phase' = [phase EXCEPT ![e] = "startFailed"]
  /\ registry' = registry \cup {e}
  /\ UNCHANGED << value, around, opts, spawned, completed, reported, stop,
                  process, inflight >>

-----------------------------------------------------------------------------
(* The kubectl process and the API server (external).                      *)

SendRequest(e) ==
  /\ process[e] = "running" /\ e \notin inflight
  /\ inflight' = inflight \cup {e}
  /\ UNCHANGED << value, around, platform, stop, process, registry >>

(* kubectl ends without having reached the server.                         *)
GiveUp(e) ==
  /\ process[e] = "running" /\ e \notin inflight
  /\ process' = [process EXCEPT ![e] = "exit1"]
  /\ UNCHANGED << value, around, platform, stop, inflight, registry >>

Answer(e, outcome) ==
  process' = IF process[e] = "running"
             THEN [process EXCEPT ![e] = outcome] ELSE process

Accept(e) ==
  /\ e \in inflight
  /\ value \in opts[e].command.expects
  /\ value' = opts[e].command.writes
  /\ inflight' = inflight \ {e}
  /\ \/ Answer(e, "answered")
     \/ setting.lostAnswers /\ Answer(e, "exit1")
  /\ UNCHANGED << around, platform, stop, registry >>

(* The expectation is not met, or the server fails the request.            *)
Refuse(e) ==
  /\ e \in inflight
  /\ inflight' = inflight \ {e}
  /\ Answer(e, "exit1")
  /\ UNCHANGED << value, around, platform, stop, registry >>

(* A drain goes on after the cordon: it evicts, and that may fail.         *)
Exit(e) ==
  /\ process[e] = "answered"
  /\ \/ process' = [process EXCEPT ![e] = "exit0"]
     \/ setting.attack = "drain" /\ process' = [process EXCEPT ![e] = "exit1"]
  /\ UNCHANGED << value, around, platform, stop, inflight, registry >>

KilledBySignal(e) ==
  /\ setting.signals
  /\ process[e] \in Alive
  /\ process' = [process EXCEPT ![e] = "signalled"]
  /\ UNCHANGED << value, around, platform, stop, inflight, registry >>

-----------------------------------------------------------------------------
(* Status                                                                  *)

Polled(e) == phase[e] = "started" /\ stop[e] = "idle" /\ reported[e] = "nothing"

(* The extension has restarted: the command state is not there.            *)
StatusLost(e) ==
  /\ Polled(e) /\ e \notin completed /\ e \notin registry
  /\ reported' = [reported EXCEPT ![e] = "error"]
  /\ UNCHANGED << value, around, opts, phase, spawned, completed, stop, command >>

(* Mutants: an exit code of 1 is not looked at; an action without duration *)
(* is left running.                                                        *)
StatusReports(e, report) ==
  /\ Polled(e) /\ e \notin completed /\ e \in registry
  /\ process[e] \in {"exit0", "exit1"}
  /\ completed' = completed \cup {e}
  /\ reported' = [reported EXCEPT ![e] = report]
  /\ UNCHANGED << value, around, opts, phase, spawned, stop, command >>

StatusIgnoresExit(e) ==
  StatusReports(e, IF opts[e].duration THEN "nothing" ELSE "completed")

StatusNeverEnds(e) ==
  StatusReports(e, IF process[e] = "exit1" THEN "error" ELSE "nothing")

(* ExitCode is -1 while kubectl runs and also when a signal ended it: both *)
(* are "still running", and so is nothing to report.                       *)
StatusExited(e) ==
  /\ Polled(e) /\ e \notin completed /\ e \in registry
  /\ process[e] \in {"exit0", "exit1"}
  /\ completed' = completed \cup {e}
  /\ reported' = [reported EXCEPT ![e] =
                    IF process[e] = "exit1" THEN "error"
                    ELSE IF opts[e].duration THEN "nothing" ELSE "completed"]
  /\ UNCHANGED << value, around, opts, phase, spawned, stop, command >>

-----------------------------------------------------------------------------
(* Stop                                                                    *)

Stoppable(e) == phase[e] # "new" /\ stop[e] \in {"idle", "failed"}

(* Mutant: no rollback for a command that was interrupted.                 *)
AfterInterruption(e) ==
  IF e \notin completed THEN "done"
  ELSE IF opts[e].precondition THEN "precondition"
  ELSE IF opts[e].rollback # Never THEN "rollback" ELSE "done"

AfterKill(e) ==
  IF opts[e].precondition THEN "precondition"
  ELSE IF opts[e].rollback # Never THEN "rollback" ELSE "done"

(* Mutants: kubectl is left alone; what was not started is rolled back.    *)
StopWithoutKill(e) ==
  /\ Stoppable(e)
  /\ stop' = [stop EXCEPT ![e] = IF e \notin spawned THEN "done" ELSE AfterKill(e)]
  /\ registry' = IF e \notin spawned THEN registry ELSE registry \ {e}
  /\ UNCHANGED << value, around, platform, process, inflight >>

StopUnstarted(e) ==
  /\ Stoppable(e)
  /\ process' = IF e \notin completed /\ process[e] \in Alive
                THEN [process EXCEPT ![e] = "signalled"] ELSE process
  /\ registry' = registry \ {e}
  /\ stop' = [stop EXCEPT ![e] = AfterKill(e)]
  /\ UNCHANGED << value, around, platform, inflight >>

(* The process ID of a process that has ended is killed just the same.     *)
StopCall(e) ==
  /\ Stoppable(e)
  /\ IF e \notin spawned
     THEN /\ stop' = [stop EXCEPT ![e] = "done"]
          /\ UNCHANGED << process, registry >>
     ELSE /\ process' = IF e \notin completed /\ process[e] \in Alive
                        THEN [process EXCEPT ![e] = "signalled"] ELSE process
          /\ registry' = registry \ {e}
          /\ stop' = [stop EXCEPT ![e] = AfterKill(e)]
  /\ UNCHANGED << value, around, platform, inflight >>

Settled(e) == setting.lateRequests \/ e \notin inflight

StopPrecondition(e) ==
  /\ stop[e] = "precondition" /\ Settled(e)
  /\ value # Gone
  /\ stop' = [stop EXCEPT ![e] = "rollback"]
  /\ UNCHANGED << value, around, platform, command >>

(* The node is gone, or kubectl get fails for whatever reason.             *)
StopPreconditionFails(e) ==
  /\ stop[e] = "precondition" /\ Settled(e)
  /\ value = Gone \/ setting.lostAnswers
  /\ stop' = [stop EXCEPT ![e] = "done"]
  /\ UNCHANGED << value, around, platform, command >>

StopRollback(e) ==
  /\ stop[e] = "rollback" /\ Settled(e)
  /\ value \in opts[e].rollback.expects
  /\ value' = opts[e].rollback.writes
  /\ \/ stop' = [stop EXCEPT ![e] = "done"]
     \/ setting.lostAnswers /\ stop' = [stop EXCEPT ![e] = "failed"]
  /\ UNCHANGED << around, platform, command >>

StopRollbackFails(e) ==
  /\ stop[e] = "rollback" /\ Settled(e)
  /\ value \notin opts[e].rollback.expects \/ setting.lostAnswers
  /\ stop' = [stop EXCEPT ![e] = "failed"]
  /\ UNCHANGED << value, around, platform, command >>

-----------------------------------------------------------------------------
(* Around the extension.                                                   *)

CacheSync ==
  /\ cache # value
  /\ cache' = value
  /\ UNCHANGED << setting, value, platform, stop, command >>

OtherWrite ==
  /\ setting.othersWrite
  /\ value # Gone
  /\ value' \in Field \ {value}
  /\ UNCHANGED << around, platform, stop, command >>

(* The kubectl processes end with the container.                           *)
Crash ==
  /\ setting.crashes
  /\ registry # {} \/ \E e \in Executions : stop[e] \in {"precondition", "rollback"}
  /\ registry' = {}
  /\ process' = [e \in Executions |->
                   IF process[e] \in Alive THEN "signalled" ELSE process[e]]
  /\ stop' = [e \in Executions |->
                IF stop[e] \in {"precondition", "rollback"} THEN "failed" ELSE stop[e]]
  /\ UNCHANGED << value, around, platform, inflight >>

CommandStep(e) ==
  SendRequest(e) \/ GiveUp(e) \/ Accept(e) \/ Refuse(e) \/ Exit(e)
Status(e) == StatusLost(e) \/ StatusExited(e)
StopStep(e) ==
  \/ StopPrecondition(e) \/ StopPreconditionFails(e)
  \/ StopRollback(e) \/ StopRollbackFails(e)

Next ==
  \/ \E e \in Executions :
       \/ Prepare(e) \/ Start(e) \/ StartUnanswered(e) \/ StartFails(e)
       \/ CommandStep(e) \/ KilledBySignal(e)
       \/ Status(e) \/ StopCall(e) \/ StopStep(e)
  \/ CacheSync \/ OtherWrite \/ Crash

(* kubectl and the server make progress, the platform polls the status of  *)
(* a started action, and a Stop handler runs to its end.  Nothing makes    *)
(* the platform call Stop while it has been told nothing.                  *)
Fairness ==
  \A e \in Executions :
    WF_vars(CommandStep(e)) /\ WF_vars(Status(e)) /\ WF_vars(StopStep(e))

Spec     == Init /\ [][Next]_vars
FairSpec == Spec /\ Fairness

-----------------------------------------------------------------------------
(* Properties                                                              *)

AllOptions == {NoOpts} \cup {OptionsFor(e, old) : e \in Executions, old \in Field}

TypeOK ==
  /\ setting \in Settings
  /\ value \in Field /\ cache \in Field
  /\ opts \in [Executions -> AllOptions]
  /\ phase \in [Executions -> {"new", "prepared", "started", "startFailed"}]
  /\ spawned \subseteq Executions /\ completed \subseteq spawned
  /\ reported \in [Executions -> {"nothing", "error", "completed"}]
  /\ stop \in [Executions -> {"idle", "precondition", "rollback", "failed", "done"}]
  /\ process \in [Executions -> Alive \cup {"none", "exit0", "exit1", "signalled"}]
  /\ inflight \subseteq Executions /\ registry \subseteq Executions

(* When the actions on a target come one after the other, nobody else      *)
(* writes it and the cache is up to date, the target is back at its        *)
(* original value whenever no action is active: whether Start failed or    *)
(* not, Stop came early, twice, or after a restart of the extension, and   *)
(* kubectl was killed before, during or after its request ("The deployment *)
(* will be scaled back to the original value after the action.",           *)
(* extdeployment/attack_scale_deployment.go:53; "The node will be          *)
(* uncordoned after the action.", extnode/attack_drain_node.go:38).        *)
Undisturbed ==
  /\ setting.oneAtATime /\ setting.freshCache /\ ~setting.othersWrite
  /\ ~setting.lateRequests /\ ~setting.lostStarts

Restored ==
  Undisturbed /\ setting.attack # "deletePod" /\ Inactive = Executions
    => value = Initial

(* An undisturbed attack with a rollback is one of AbstractAttack: it      *)
(* begins on an untouched target, changes it once at most, restores it     *)
(* only when no Start, process or request could change it again, and ends  *)
(* only when it is restored.                                               *)
Reversible == Undisturbed /\ setting.attack # "deletePod"

MayChange(e) ==
  \/ phase[e] = "prepared" /\ stop[e] = "idle"
  \/ process[e] = "running" \/ e \in inflight

AttackOf(e) ==
  IF phase[e] = "new" THEN "new"
  ELSE IF stop[e] = "done" THEN "done"
  ELSE IF MayChange(e) THEN "armed" ELSE "spent"

attacks == [e \in Executions |-> AttackOf(e)]
Attack  == INSTANCE AbstractAttack WITH attack <- attacks

ImplementsAttack == Reversible => Attack!Spec

(* An action that is rolled back, or never started, writes the target no   *)
(* more once its Stop is done.  A pod may still be deleted then: Stop does *)
(* not wait for the request of the kubectl it kills.                       *)
NoEffectAfterStop ==
  [][~setting.lateRequests /\ ~setting.lostStarts =>
       \A e \in Executions :
         Accept(e) /\ opts[e].rollback # Never => stop[e] # "done"]_vars

(* What was never started is not rolled back: the target keeps whatever    *)
(* others made of it meanwhile.                                            *)
UnstartedNotRolledBack ==
  [][\A e \in Executions : StopStep(e) /\ value' # value => process[e] # "none"]_vars

(* The platform hears that a pod was deleted only when it is gone, not    *)
(* when kubectl ended without an answer, was killed or was forgotten.      *)
SuccessIsReal ==
  \A e \in Executions : reported[e] = "completed" => value = opts[e].command.writes

(* "if the action does not define a duration, the action is stopped after  *)
(* the command has completed" (action_kubectl.go:26): once kubectl of a    *)
(* started action has ended, Status says so, unless Stop was called first. *)
EndIsReported ==
  \A e \in Executions :
    phase[e] = "started" /\ ~opts[e].duration /\ process[e] \notin Alive
      ~> reported[e] # "nothing" \/ stop[e] # "idle"
=============================================================================
