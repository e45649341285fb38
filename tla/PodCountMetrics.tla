-------------------------- MODULE PodCountMetrics --------------------------
(***************************************************************************)
(* The action that sends the pod counts of all deployments to the platform *)
(* (src/extdeployment/pod_count_metrics.go): every Status sends the counts *)
(* of each deployment of the informer's store that has changed since they  *)
(* were sent last.                                                         *)
(***************************************************************************)
EXTENDS Integers

CONSTANTS Deployments,
          MetricNames,   \* the replicas_*_count metrics
          MaxReplicas,
          Duration

MetricsAssumption == MaxReplicas \in Nat /\ Duration \in Nat

VARIABLES
  counts,        \* [d -> [metric -> count]] of the store; Gone for no deployment
  now, phase,    \* "new", "prepared", "running" or "ended"
  end,           \* PodCountMetricsState.End
  lastMetrics,   \* PodCountMetricsState.LastMetrics, by deployment
  shown          \* what the platform's widget shows

vars == << counts, now, phase, end, lastMetrics, shown >>

Counts  == [MetricNames -> 0 .. MaxReplicas]
NotSent == [m \in MetricNames |-> -1]
Gone    == [m \in MetricNames |-> -2]
MaxTime == Duration + 1

-----------------------------------------------------------------------------
hasChanges(d) ==
  counts[d] # Gone /\ \E m \in MetricNames : lastMetrics[d][m] # counts[d][m]

Init ==
  /\ counts \in [Deployments -> Counts \cup {Gone}]
  /\ now = 0 /\ phase = "new" /\ end = 0
  /\ lastMetrics = [d \in Deployments |-> NotSent]
  /\ shown = [d \in Deployments |-> NotSent]

Prepare ==
  /\ phase = "new"
  /\ phase' = "prepared"
  /\ end' = now + Duration
  /\ lastMetrics' = [d \in Deployments |-> NotSent]
  /\ UNCHANGED << counts, now, shown >>

Start ==
  /\ phase = "prepared"
  /\ phase' = "running"
  /\ UNCHANGED << counts, now, end, lastMetrics, shown >>

(* All counts of a deployment are sent when one of them has changed.       *)
Status ==
  /\ phase = "running"
  /\ lastMetrics' =
       [d \in Deployments |-> IF hasChanges(d) THEN counts[d] ELSE lastMetrics[d]]
  /\ shown' = [d \in Deployments |-> IF hasChanges(d) THEN counts[d] ELSE shown[d]]
  /\ phase' = IF now > end THEN "ended" ELSE "running"
  /\ UNCHANGED << counts, now, end >>

WorldChanges ==
  /\ phase # "ended"
  /\ \E d \in Deployments, c \in Counts \cup {Gone} :
       counts[d] # c /\ counts' = [counts EXCEPT ![d] = c]
  /\ UNCHANGED << now, phase, end, lastMetrics, shown >>

Tick ==
  /\ phase \in {"prepared", "running"} /\ now < MaxTime
  /\ now' = now + 1
  /\ UNCHANGED << counts, phase, end, lastMetrics, shown >>

Next == Prepare \/ Start \/ Status \/ WorldChanges \/ Tick

Fairness == WF_vars(Tick) /\ WF_vars(Status)

Spec     == Init /\ [][Next]_vars
FairSpec == Spec /\ Fairness

-----------------------------------------------------------------------------
(* Properties                                                              *)

TypeOK ==
  /\ counts \in [Deployments -> Counts \cup {Gone}]
  /\ now \in 0 .. MaxTime /\ end \in 0 .. MaxTime + Duration
  /\ phase \in {"new", "prepared", "running", "ended"}
  /\ lastMetrics \in [Deployments -> Counts \cup {NotSent}]
  /\ shown \in [Deployments -> Counts \cup {NotSent}]

(* After every Status, the last one past the end included, the widget      *)
(* shows the counts of every deployment there is, also of one that was     *)
(* deleted and made again.                                                 *)
ShowsCounts     == \A d \in Deployments : counts[d] # Gone => shown'[d] = counts[d]
WidgetIsCurrent == [][Status => ShowsCounts]_vars
=============================================================================
