--------------------------- MODULE RolloutActions ---------------------------
(***************************************************************************)
(* The actions on the rollout of one workload: the rollout check and the   *)
(* restart of a deployment, which ask kubectl, and the restart of an Argo  *)
(* rollout, which patches it (src/extdeployment/check_rollout_ready.go,    *)
(* attack_rollout_restart.go, src/extargorollout/attack_rollout_restart.go)*)
(*                                                                         *)
(* Every change of the pod template is a new generation; the controller    *)
(* first observes it and some time later has rolled it out.                *)
(***************************************************************************)
EXTENDS Integers

CONSTANTS Durations,      \* configured timeouts of the check; 0 is none
          MaxGeneration,  \* bound on the changes of the pod template
          MaxTime         \* bound on the clock before a timeout is fixed

RolloutAssumption ==
  Durations \subseteq Nat /\ MaxGeneration \in Nat /\ MaxTime \in Nat

VARIABLES
  generation, observed, rolledOut, \* metadata.generation, the generation the
                                   \*   controller has seen, and has rolled out
  restartAt,     \* spec.restartAt of an Argo rollout, in seconds
  now,           \* the clock, in seconds
  phase,         \* "new", "rejected", "prepared", "running" or "ended"
  check,         \* [action, wait, checkBefore, duration], from the configuration
  timeout,       \* EndOffset; NoEnd for none
  verdict,       \* what the platform has been told at the end
  mine,          \* history: the generation of the action's own restart
  metAtPrepare,  \* history: the generation when Prepare was called
  seen           \* history: whether a call saw the rollout complete

rollout == << generation, observed, rolledOut, restartAt >>
vars    == << rollout, now, phase, check, timeout, verdict, mine, metAtPrepare, seen >>

Checks  == [action : {"check"}, wait : {FALSE}, checkBefore : {FALSE}, duration : Durations]
             \cup [action : {"restart"}, wait : BOOLEAN, checkBefore : BOOLEAN, duration : {0}]
             \cup [action : {"argoRestart"}, wait : {FALSE}, checkBefore : {FALSE}, duration : {0}]
NoEnd   == -1

-----------------------------------------------------------------------------
(* kubectl rollout status --watch=false: "waiting" until the controller    *)
(* has observed the generation and rolled it out (external).               *)
Waiting == observed < generation \/ rolledOut < generation

checkRolloutStatus == IF Waiting THEN "waiting" ELSE "complete"

EndOffset == IF check.duration = 0 THEN NoEnd ELSE now + check.duration

End(outcome) == phase' = "ended" /\ verdict' = outcome

Init ==
  /\ generation = 1 /\ observed = 1 /\ rolledOut \in {0, 1} /\ restartAt = NoEnd
  /\ now = 0 /\ phase = "new"
  /\ check \in Checks
  /\ timeout = NoEnd /\ verdict = "none"
  /\ mine = 0 /\ metAtPrepare = 0 /\ seen = {}

(* Mutant: Prepare does not ask for the rollout.                           *)
PrepareUnchecked ==
  /\ phase = "new"
  /\ phase' = "prepared"
  /\ timeout' = EndOffset
  /\ metAtPrepare' = generation
  /\ UNCHANGED << rollout, now, check, verdict, mine, seen >>

Prepare ==
  /\ phase = "new"
  /\ check.checkBefore => checkRolloutStatus = "complete"
  /\ phase' = "prepared"
  /\ timeout' = EndOffset
  /\ metAtPrepare' = generation
  /\ UNCHANGED << rollout, now, check, verdict, mine, seen >>

(* A rollout is under way, or kubectl fails.                               *)
PrepareFails ==
  /\ phase = "new" /\ check.checkBefore
  /\ phase' = "rejected"
  /\ UNCHANGED << rollout, now, check, timeout, verdict, mine, metAtPrepare, seen >>

StartCheck ==
  /\ phase = "prepared" /\ check.action = "check"
  /\ phase' = "running"
  /\ UNCHANGED << rollout, now, check, timeout, verdict, mine, metAtPrepare, seen >>

(* kubectl rollout restart changes the pod template.                       *)
StartRestart ==
  /\ phase = "prepared" /\ check.action = "restart"
  /\ generation < MaxGeneration
  /\ generation' = generation + 1
  /\ mine' = generation'
  /\ phase' = "running"
  /\ UNCHANGED << observed, rolledOut, restartAt, now, check, timeout, verdict,
                  metAtPrepare, seen >>

(* The patch carries the time in whole seconds, so a second restart within *)
(* the second changes nothing.  There is no Status.                        *)
StartArgoRestart ==
  /\ phase = "prepared" /\ check.action = "argoRestart"
  /\ generation < MaxGeneration
  /\ restartAt' = now
  /\ generation' = generation + (IF restartAt = now THEN 0 ELSE 1)
  /\ mine' = generation'
  /\ End("passed")
  /\ UNCHANGED << observed, rolledOut, now, check, timeout, metAtPrepare, seen >>

StartFails ==
  /\ phase = "prepared" /\ check.action # "check"
  /\ End("errored")
  /\ UNCHANGED << rollout, now, check, timeout, mine, metAtPrepare, seen >>

(* Past its end the check fails without another look.                      *)
TimesOut ==
  /\ phase = "running"
  /\ timeout # NoEnd /\ now > timeout
  /\ End("failed")
  /\ UNCHANGED << rollout, now, check, timeout, mine, metAtPrepare, seen >>

(* Mutant: a restart completes with its first Status.                      *)
StatusOfRestart ==
  /\ phase = "running" /\ ~(timeout # NoEnd /\ now > timeout)
  /\ seen' = seen \cup {checkRolloutStatus}
  /\ IF checkRolloutStatus = "complete" \/ check.action = "restart"
     THEN End("passed") ELSE UNCHANGED << phase, verdict >>
  /\ UNCHANGED << rollout, now, check, timeout, mine, metAtPrepare >>

(* A restart that is not to wait does not look.                            *)
StatusWithoutWait ==
  /\ phase = "running" /\ check.action = "restart" /\ ~check.wait
  /\ End("passed")
  /\ UNCHANGED << rollout, now, check, timeout, mine, metAtPrepare, seen >>

Status ==
  /\ phase = "running" /\ ~(timeout # NoEnd /\ now > timeout)
  /\ check.action = "restart" => check.wait
  /\ seen' = seen \cup {checkRolloutStatus}
  /\ IF checkRolloutStatus = "complete" THEN End("passed") ELSE UNCHANGED << phase, verdict >>
  /\ UNCHANGED << rollout, now, check, timeout, mine, metAtPrepare >>

(* kubectl fails: the deployment is gone, its progress deadline has passed,*)
(* or the API server does not answer.                                      *)
StatusFails ==
  /\ phase = "running" /\ ~(timeout # NoEnd /\ now > timeout)
  /\ check.action = "restart" => check.wait
  /\ End("errored")
  /\ UNCHANGED << rollout, now, check, timeout, mine, metAtPrepare, seen >>

-----------------------------------------------------------------------------
(* The workload's controller and other writers (external).                 *)

OthersChange ==
  /\ phase \notin {"rejected", "ended"}
  /\ generation < MaxGeneration
  /\ generation' = generation + 1
  /\ restartAt' \in {restartAt, now}
  /\ UNCHANGED << observed, rolledOut, now, phase, check, timeout, verdict,
                  mine, metAtPrepare, seen >>

Observe ==
  /\ observed < generation
  /\ observed' = generation
  /\ UNCHANGED << generation, rolledOut, restartAt, now, phase, check, timeout, verdict,
                  mine, metAtPrepare, seen >>

RollOut ==
  /\ rolledOut < observed
  /\ rolledOut' = observed
  /\ UNCHANGED << generation, observed, restartAt, now, phase, check, timeout, verdict,
                  mine, metAtPrepare, seen >>

Tick ==
  /\ phase \in {"new", "prepared", "running"}
  /\ now < MaxTime \/ now <= timeout
  /\ now' = now + 1
  /\ UNCHANGED << rollout, phase, check, timeout, verdict, mine, metAtPrepare, seen >>

Polled     == TimesOut \/ StatusWithoutWait \/ Status \/ StatusFails
Controller == Observe \/ RollOut

Next ==
  \/ Prepare \/ PrepareFails
  \/ StartCheck \/ StartRestart \/ StartArgoRestart \/ StartFails
  \/ Polled
  \/ OthersChange \/ Controller \/ Tick

(* Time passes, the platform calls Status and the controller works.        *)
Fairness == WF_vars(Tick) /\ WF_vars(Polled) /\ WF_vars(Controller)

Spec     == Init /\ [][Next]_vars
FairSpec == Spec /\ Fairness

-----------------------------------------------------------------------------
(* Properties                                                              *)

TypeOK ==
  /\ generation \in 1 .. MaxGeneration /\ observed \in 1 .. generation
  /\ rolledOut \in 0 .. observed
  /\ now \in Nat /\ restartAt \in Nat \cup {NoEnd}
  /\ phase \in {"new", "rejected", "prepared", "running", "ended"}
  /\ check \in Checks
  /\ timeout \in Nat \cup {NoEnd}
  /\ verdict \in {"none", "passed", "failed", "errored"}
  /\ mine \in 0 .. MaxGeneration /\ metAtPrepare \in 0 .. MaxGeneration
  /\ seen \subseteq {"waiting", "complete"}

(* "Wait for rollout completion": a restart that has waited is over only   *)
(* when its own change has been rolled out, although the controller may    *)
(* not have seen it when the first Status comes, and others may change the *)
(* workload again meanwhile (attack_rollout_restart.go:70).                *)
WaitedMeansRolledOut ==
  verdict = "passed" /\ check.wait => rolledOut >= mine

(* "Fail on already running rollout": a restart that meets an unfinished   *)
(* rollout was overtaken by a change made after Prepare had asked          *)
(* (attack_rollout_restart.go:76).                                         *)
WasComplete            == check.checkBefore => rolledOut >= metAtPrepare
MeetsOnlyLaterRollouts == [][StartRestart => WasComplete]_vars

(* A check that passes saw the rollout complete; one that times out has    *)
(* never seen it complete, and its time is over (check_rollout_ready.go).  *)
RolloutVerdict ==
  check.action = "check" =>
    /\ verdict = "passed" => "complete" \in seen
    /\ verdict = "failed" => "complete" \notin seen /\ now > timeout

(* Changes come to an end, so a rollout completes and what waits for it    *)
(* comes to a verdict, with or without a timeout.                          *)
ReachesVerdict == phase = "running" ~> verdict # "none"
=============================================================================
