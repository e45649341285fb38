--------------------------- MODULE PodCountCheck ---------------------------
(***************************************************************************)
(* The pod count check (src/extcommon/pod_count_check.go) of one workload: *)
(* Prepare fixes the deadline and the initial count, Start and then every  *)
(* Status look at the informer's counts, until a verdict is reached.       *)
(*                                                                         *)
(* The counts change at any time; the check sees them only when it is      *)
(* called.  Time is a counter that moves between the calls.                *)
(***************************************************************************)
EXTENDS Integers

CONSTANTS MaxPods,    \* bound on the pod counts
          Duration,   \* configured duration
          HasMetrics  \* GetPodCountMetrics is set (deployment, statefulset)

CheckAssumption ==
  MaxPods \in Nat /\ Duration \in Nat /\ HasMetrics \in BOOLEAN

VARIABLES
  found, desired, ready,    \* the workload in the informer's cache
  now,                      \* the clock
  phase,                    \* "new", "rejected", "prepared", "running" or "ended"
  check,                    \* [mode, allTheTime, failEarly], from the configuration
  timeout, initialCount,    \* PodCountCheckState, fixed by Prepare
  deviation,                \* DeviationError # nil
  lastMetrics,              \* LastMetrics, the counts last emitted
  verdict,                  \* what the platform has been told at the end
  shown,                    \* history: the counts the platform's widget shows
  seen                      \* history: whether the condition held at a call, and
                            \*   whether the call came after the deadline

world == << found, desired, ready >>
state == << check, timeout, initialCount, deviation, lastMetrics >>
vars  == << found, desired, ready, now, phase, check, timeout, initialCount,
            deviation, lastMetrics, verdict, shown, seen >>

Count  == 0 .. MaxPods
Unset  == -1                 \* a nil count
Counts == << desired, ready >>
Nothing == << Unset, Unset >>

Modes == {"podCountMin1", "podCountEquals0", "podCountEqualsDesiredCount",
          "podCountGreaterEqualsDesiredCount", "podCountLessThanDesiredCount",
          "podCountDecreased", "podCountIncreased"}
DesiredModes == {"podCountEqualsDesiredCount", "podCountGreaterEqualsDesiredCount",
                 "podCountLessThanDesiredCount"}
Checks == [mode : Modes, allTheTime : BOOLEAN, failEarly : BOOLEAN]

(* Time stops when every deadline has passed.                              *)
MaxTime == Duration + 1

-----------------------------------------------------------------------------
DesiredCount == IF desired = Unset THEN 0 ELSE desired

Condition(mode) ==
  \/ mode = "podCountMin1" /\ ready >= 1
  \/ mode = "podCountEquals0" /\ ready = 0
  \/ mode = "podCountEqualsDesiredCount" /\ ready = DesiredCount
  \/ mode = "podCountGreaterEqualsDesiredCount" /\ ready >= DesiredCount
  \/ mode = "podCountLessThanDesiredCount" /\ ready < DesiredCount
  \/ mode = "podCountDecreased" /\ ready < initialCount
  \/ mode = "podCountIncreased" /\ ready > initialCount

After == now > timeout
Holds == Condition(check.mode)

(* Mutants: a deviation is forgotten; the check waits while it deviates.   *)
DeviatesNow == check.allTheTime /\ ~check.failEarly /\ ~Holds
CompletedWhenFine ==
  IF check.allTheTime THEN After /\ ~(deviation \/ DeviatesNow) ELSE Holds \/ After

(* The result of a Status: completed or not, with an error or not.  All    *)
(* the time, an error is remembered unless it fails the check at once.     *)
Deviates   == deviation \/ (check.allTheTime /\ ~check.failEarly /\ ~Holds)
FailsEarly == check.allTheTime /\ check.failEarly /\ ~Holds
Completed  ==
  IF check.allTheTime THEN FailsEarly \/ After ELSE Holds \/ After
Error ==
  IF check.allTheTime THEN FailsEarly \/ (After /\ Deviates) ELSE After /\ ~Holds

(* Mutant: only the ready count is compared.                               *)
readyCountChanged == lastMetrics[2] # ready

podCountMetricsChanged == lastMetrics # Counts
Emits == HasMetrics /\ (Completed \/ podCountMetricsChanged)

-----------------------------------------------------------------------------
Init ==
  /\ found = TRUE /\ desired \in Count \cup {Unset} /\ ready \in Count
  /\ now = 0
  /\ phase = "new"
  /\ check \in Checks
  /\ timeout = 0 /\ initialCount = 0
  /\ deviation = FALSE
  /\ lastMetrics = Nothing /\ shown = Nothing
  /\ verdict = "none"
  /\ seen = {}

Prepare ==
  /\ phase = "new"
  /\ found
  /\ ~(desired = Unset /\ check.mode \in DesiredModes)
  /\ phase' = "prepared"
  /\ timeout' = now + Duration
  /\ initialCount' = ready
  /\ UNCHANGED << world, now, check, deviation, lastMetrics, verdict, shown, seen >>

PrepareFails ==
  /\ phase = "new"
  /\ ~found \/ (desired = Unset /\ check.mode \in DesiredModes)
  /\ phase' = "rejected"
  /\ UNCHANGED << world, now, state, verdict, shown, seen >>

(* What Start and Status have in common when the workload is there.        *)
Look ==
  /\ found
  /\ deviation' = Deviates
  /\ lastMetrics' = IF Emits THEN Counts ELSE lastMetrics
  /\ shown' = IF Emits THEN Counts ELSE shown
  /\ seen' = seen \cup {[held |-> Holds, late |-> After]}
  /\ UNCHANGED << world, now, check, timeout, initialCount >>

End(outcome) == phase' = "ended" /\ verdict' = outcome

(* Start passes the error of its Status on, but not its Completed: the     *)
(* check is never over after a successful Start.                           *)
Start ==
  /\ phase = "prepared"
  /\ Look
  /\ IF Error THEN End("failed") ELSE phase' = "running" /\ UNCHANGED verdict

Status ==
  /\ phase = "running"
  /\ Look
  /\ IF Completed THEN End(IF Error THEN "failed" ELSE "passed")
     ELSE UNCHANGED << phase, verdict >>

(* The workload is gone: both calls end in an error and lose their state.  *)
LookFails ==
  /\ phase \in {"prepared", "running"}
  /\ ~found
  /\ End("errored")
  /\ UNCHANGED << world, now, state, shown, seen >>

(* One thing at a time; between two calls there may be several changes.    *)
(* What happens to the workload once the check is over is left out.        *)
WorldChanges ==
  /\ phase \notin {"rejected", "ended"}
  /\ \/ found' = ~found /\ UNCHANGED << desired, ready >>
     \/ desired # Unset /\ desired' \in Count \ {desired} /\ UNCHANGED << found, ready >>
     \/ ready' \in Count \ {ready} /\ UNCHANGED << found, desired >>
  /\ UNCHANGED << now, phase, state, verdict, shown, seen >>

Tick ==
  /\ now < MaxTime
  /\ phase \in {"prepared", "running"}
  /\ now' = now + 1
  /\ UNCHANGED << world, phase, state, verdict, shown, seen >>

Next == Prepare \/ PrepareFails \/ Start \/ Status \/ LookFails \/ WorldChanges \/ Tick

(* Time passes and the platform calls Status every second.                 *)
Fairness == WF_vars(Tick) /\ WF_vars(Status \/ LookFails)

Spec     == Init /\ [][Next]_vars
FairSpec == Spec /\ Fairness

-----------------------------------------------------------------------------
(* Properties                                                              *)

TypeOK ==
  /\ found \in BOOLEAN /\ desired \in Count \cup {Unset} /\ ready \in Count
  /\ now \in 0 .. MaxTime
  /\ phase \in {"new", "rejected", "prepared", "running", "ended"}
  /\ check \in Checks
  /\ timeout \in 0 .. MaxTime + Duration /\ initialCount \in Count
  /\ deviation \in BOOLEAN
  /\ lastMetrics \in (Count \cup {Unset}) \X (Count \cup {Unset})
  /\ shown \in (Count \cup {Unset}) \X (Count \cup {Unset})
  /\ verdict \in {"none", "passed", "failed", "errored"}
  /\ seen \subseteq [held : BOOLEAN, late : BOOLEAN]

Violated == \E s \in seen : ~s.held

(* "requires the condition to be fulfilled during the complete duration"   *)
(* (pod_count_check.go:33): a check that passes saw the condition hold in  *)
(* every call, Start included, and past its deadline; one that fails saw   *)
(* it violated, maybe long before it may say so.                           *)
AllTheTime ==
  check.allTheTime =>
    /\ verdict = "passed" => ~Violated /\ now > timeout
    /\ verdict = "failed" => Violated /\ (check.failEarly \/ now > timeout)

(* At least once: a check passes on the strength of a call that saw the    *)
(* condition hold, and fails only when the deadline has passed.            *)
AtLeastOnce ==
  ~check.allTheTime =>
    /\ verdict = "passed" => \E s \in seen : s.held
    /\ verdict = "failed" => Violated /\ now > timeout

(* The last counts the check has looked at are the counts the widget       *)
(* shows: leaving out unchanged counts never leaves it with old ones.      *)
ShowsLook       == shown' = Counts
WidgetIsCurrent == [][HasMetrics /\ (Start \/ Status) => ShowsLook]_vars

(* A started check comes to a verdict.                                     *)
ReachesVerdict == phase = "running" ~> verdict # "none"
=============================================================================
