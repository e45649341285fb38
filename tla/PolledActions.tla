--------------------------- MODULE PolledActions ---------------------------
(***************************************************************************)
(* The actions the platform polls, side by side: a behaviour is one        *)
(* execution of the action named by which.  The other actions' own         *)
(* variables stay as they are; those the modules have in common (now,      *)
(* phase, check, ...) belong to the action that runs.                      *)
(***************************************************************************)
EXTENDS Integers, Sequences, FiniteSets

CONSTANTS MaxPods, HasMetrics,                   \* PodCountCheck
          Duration,                              \* the three count actions
          Nodes,                                 \* NodeCountCheck
          MaxGeneration,                         \* RolloutActions
          Deployments, MetricNames, MaxReplicas, \* PodCountMetrics
          Events, Second, Lag,                   \* K8sEvents
          Order, MaxInstance,                    \* CrashLoop
          Durations,                             \* RolloutActions and K8sEvents
          RolloutTime, LastTick                  \* bounds on the clocks of these two

VARIABLES
  which, now, phase, check, timeout, verdict, seen, initialCount, lastMetrics, shown,
  found, desired, ready, deviation,
  readyNodes,
  generation, observed, rolledOut, restartAt, mine, metAtPrepare,
  counts, end,
  duration, lastTimestamp, lastEventOffset, endOffset, sent, overtaken, since,
  store, call,
  pod, container, prepared, hit

polled   == << now, check, timeout, verdict, seen >>
widget   == << lastMetrics, shown >>
podVars  == << found, desired, ready, deviation >>
rollVars == << generation, observed, rolledOut, restartAt, mine, metAtPrepare >>
metVars  == << counts, end >>
eventVars == << duration, lastTimestamp, lastEventOffset, endOffset, sent, overtaken, since >>
crashVars == << pod, container, prepared, hit >>

vars == << which, phase, polled, initialCount, widget, podVars, readyNodes, rollVars,
           metVars, eventVars, store, call, crashVars >>

Pods     == INSTANCE PodCountCheck
Ready    == INSTANCE NodeCountCheck
Rollouts == INSTANCE RolloutActions WITH MaxTime <- RolloutTime
Metrics  == INSTANCE PodCountMetrics
Log      == INSTANCE K8sEvents WITH MaxTime <- LastTick
Crash    == INSTANCE CrashLoop

ASSUME ActionsAssumption ==
  /\ Pods!CheckAssumption /\ Ready!NodeCountAssumption /\ Rollouts!RolloutAssumption
  /\ Metrics!MetricsAssumption /\ Log!EventsAssumption /\ Crash!CrashLoopAssumption

-----------------------------------------------------------------------------
No == 0      \* the value of a variable that no action uses

NoPolled == now = No /\ check = No /\ timeout = No /\ verdict = No /\ seen = No
NoWidget == lastMetrics = No /\ shown = No
NoPods   == found = No /\ desired = No /\ ready = No /\ deviation = No
NoRoll   == /\ generation = No /\ observed = No /\ rolledOut = No
            /\ restartAt = No /\ mine = No /\ metAtPrepare = No
NoMet    == counts = No /\ end = No
NoEvents == /\ duration = No /\ lastTimestamp = No /\ lastEventOffset = No /\ endOffset = No
            /\ sent = No /\ overtaken = No /\ since = No
NoCrash  == pod = No /\ container = No /\ prepared = No /\ hit = No
NoStore  == store = No /\ call = No

Init ==
  \/ /\ which = "pods" /\ Pods!Init
     /\ readyNodes = No /\ NoRoll /\ NoMet /\ NoEvents /\ NoStore /\ NoCrash
  \/ /\ which = "nodes" /\ Ready!Init
     /\ NoWidget /\ NoPods /\ NoRoll /\ NoMet /\ NoEvents /\ NoStore /\ NoCrash
  \/ /\ which = "rollouts" /\ Rollouts!Init
     /\ initialCount = No /\ NoWidget /\ NoPods /\ readyNodes = No
     /\ NoMet /\ NoEvents /\ NoStore /\ NoCrash
  \/ /\ which = "metrics" /\ Metrics!Init
     /\ check = No /\ timeout = No /\ verdict = No /\ seen = No
     /\ initialCount = No /\ NoPods /\ readyNodes = No
     /\ NoRoll /\ NoEvents /\ NoStore /\ NoCrash
  \/ /\ which = "events" /\ Log!Init
     /\ check = No /\ timeout = No /\ verdict = No /\ seen = No
     /\ initialCount = No /\ NoWidget /\ NoPods /\ readyNodes = No
     /\ NoRoll /\ NoMet /\ NoCrash
  \/ /\ which = "crashLoop" /\ Crash!Init
     /\ NoPolled /\ initialCount = No /\ NoWidget /\ NoPods /\ readyNodes = No
     /\ NoRoll /\ NoMet /\ NoEvents

OnlyPods ==
  which = "pods" /\ UNCHANGED << which, readyNodes, rollVars, metVars, eventVars, store, call, crashVars >>
OnlyReady ==
  which = "nodes" /\ UNCHANGED << which, widget, podVars, rollVars, metVars, eventVars, store, call, crashVars >>
OnlyRollouts ==
  which = "rollouts" /\ UNCHANGED << which, initialCount, widget, podVars, readyNodes, metVars, eventVars,
                                      store, call, crashVars >>
OnlyMetrics ==
  which = "metrics" /\ UNCHANGED << which, check, timeout, verdict, seen, initialCount, podVars, readyNodes,
                                     rollVars, eventVars, store, call, crashVars >>
OnlyLog ==
  which = "events" /\ UNCHANGED << which, check, timeout, verdict, seen, initialCount, widget, podVars,
                                    readyNodes, rollVars, metVars, crashVars >>
OnlyCrash ==
  which = "crashLoop" /\ UNCHANGED << which, polled, initialCount, widget, podVars, readyNodes, rollVars,
                                       metVars, eventVars >>

Next ==
  \/ OnlyPods     /\ Pods!Next
  \/ OnlyReady    /\ Ready!Next
  \/ OnlyRollouts /\ Rollouts!Next
  \/ OnlyMetrics  /\ Metrics!Next
  \/ OnlyLog      /\ Log!Next
  \/ OnlyCrash    /\ Crash!Next

(* The fairness of the modules: time passes, the platform calls Status and *)
(* its handlers return, the informer and the controllers work.             *)
Ticks ==
  \/ OnlyPods /\ Pods!Tick
  \/ OnlyReady /\ Ready!Tick
  \/ OnlyRollouts /\ Rollouts!Tick
  \/ OnlyMetrics /\ Metrics!Tick
Calls ==
  \/ OnlyPods /\ (Pods!Status \/ Pods!LookFails)
  \/ OnlyReady /\ Ready!Status
  \/ OnlyRollouts /\ Rollouts!Polled
  \/ OnlyMetrics /\ Metrics!Status
  \/ OnlyCrash /\ Crash!Handler
Works ==
  \/ OnlyRollouts /\ Rollouts!Controller
  \/ OnlyCrash /\ Crash!Deliver

Spec ==
  /\ Init /\ [][Next]_vars
  /\ WF_vars(Ticks) /\ WF_vars(Calls) /\ WF_vars(Works)

-----------------------------------------------------------------------------
(* Properties; each is the one of its module, for the action that runs.    *)

(* What the platform is told at the end of a check follows from what the   *)
(* check's calls saw and when they came: all the time, at least once, at   *)
(* first sight, or before the check's own timeout.                         *)
VerdictIsEarned ==
  /\ which = "pods"     => Pods!AllTheTime /\ Pods!AtLeastOnce
  /\ which = "nodes"    => Ready!VerdictIsFirstSight
  /\ which = "rollouts" => Rollouts!RolloutVerdict

(* Leaving out unchanged counts never leaves the widget with old ones.     *)
WidgetIsCurrent ==
  [][ /\ which = "pods" /\ HasMetrics /\ (Pods!Start \/ Pods!Status) => Pods!ShowsLook
      /\ which = "metrics" /\ Metrics!Status => Metrics!ShowsCounts ]_vars

(* Every polled check or report that runs comes to its end.                *)
ReachesVerdict ==
  which \in {"pods", "nodes", "rollouts", "metrics"} /\ phase = "running" ~> phase = "ended"

(* A restart that has waited is over when its own change is rolled out.    *)
WaitedMeansRolledOut == which = "rollouts" => Rollouts!WaitedMeansRolledOut

(* A restart that checks before meets only rollouts later than its check.  *)
MeetsOnlyLaterRollouts ==
  [][which = "rollouts" /\ Rollouts!StartRestart => Rollouts!WasComplete]_vars

(* Only events that came into the store too late are never sent.           *)
MissesOnlyOvertaken == which = "events" => Log!MissesOnlyOvertaken

(* No event is sent more than twice.                                       *)
SentAtMostTwice == which = "events" => Log!SentAtMostTwice

(* Signals go to the chosen containers of what Prepare has looked at.      *)
HitsWhatWasPrepared == which = "crashLoop" => Crash!HitsWhatWasPrepared

(* As long as the attack runs no chosen container stays up.                *)
Up(c) == which = "crashLoop" /\ Crash!Up(c)

KeepsCrashing == \A c \in Crash!Containers : Up(c) ~> ~Up(c)
=============================================================================
