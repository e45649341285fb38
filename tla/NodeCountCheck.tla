--------------------------- MODULE NodeCountCheck ---------------------------
(***************************************************************************)
(* The node count check (src/extnode/node_count_check.go): Prepare fixes   *)
(* the deadline and the initial count, every Status compares the nodes     *)
(* that are ready in the informer's store with what was asked for.         *)
(***************************************************************************)
EXTENDS Integers, FiniteSets

CONSTANTS Nodes, Duration

NodeCountAssumption == IsFiniteSet(Nodes) /\ Duration \in Nat

VARIABLES
  readyNodes,     \* nodes of the store with the condition Ready = True
  now,
  phase,          \* "new", "prepared", "running" or "ended"
  check,          \* [mode, count], from the configuration
  timeout, initialCount,   \* NodeCountCheckState, fixed by Prepare
  verdict,        \* what the platform has been told at the end
  seen            \* history: whether the condition held at a call, and whether
                  \*   the call came after the deadline

vars == << readyNodes, now, phase, check, timeout, initialCount, verdict, seen >>

Modes  == {"nodeCountAtLeast", "nodeCountIncreasedBy", "nodeCountDecreasedBy"}
Checks == [mode : Modes, count : 1 .. Cardinality(Nodes)]
MaxTime == Duration + 1      \* time stops when the deadline has passed

-----------------------------------------------------------------------------
NodesReadyCount == Cardinality(readyNodes)

Holds ==
  \/ check.mode = "nodeCountAtLeast" /\ NodesReadyCount >= check.count
  \/ check.mode = "nodeCountIncreasedBy" /\ NodesReadyCount = initialCount + check.count
  \/ check.mode = "nodeCountDecreasedBy" /\ NodesReadyCount = initialCount - check.count

After == now > timeout

Init ==
  /\ readyNodes \in SUBSET Nodes
  /\ now = 0 /\ phase = "new"
  /\ check \in Checks
  /\ timeout = 0 /\ initialCount = 0
  /\ verdict = "none" /\ seen = {}

Prepare ==
  /\ phase = "new"
  /\ phase' = "prepared"
  /\ timeout' = now + Duration
  /\ initialCount' = NodesReadyCount
  /\ UNCHANGED << readyNodes, now, check, verdict, seen >>

(* Start does nothing.                                                     *)
Start ==
  /\ phase = "prepared"
  /\ phase' = "running"
  /\ UNCHANGED << readyNodes, now, check, timeout, initialCount, verdict, seen >>

Status ==
  /\ phase = "running"
  /\ seen' = seen \cup {[held |-> Holds, late |-> After]}
  /\ IF Holds \/ After
     THEN phase' = "ended" /\ verdict' = IF Holds THEN "passed" ELSE "failed"
     ELSE UNCHANGED << phase, verdict >>
  /\ UNCHANGED << readyNodes, now, check, timeout, initialCount >>

NodeChanges ==
  /\ phase # "ended"
  /\ \E n \in Nodes :
       readyNodes' = IF n \in readyNodes THEN readyNodes \ {n} ELSE readyNodes \cup {n}
  /\ UNCHANGED << now, phase, check, timeout, initialCount, verdict, seen >>

Tick ==
  /\ phase \in {"prepared", "running"} /\ now < MaxTime
  /\ now' = now + 1
  /\ UNCHANGED << readyNodes, phase, check, timeout, initialCount, verdict, seen >>

Next == Prepare \/ Start \/ Status \/ NodeChanges \/ Tick

(* Time passes and the platform calls Status every second.                 *)
Fairness == WF_vars(Tick) /\ WF_vars(Status)

Spec     == Init /\ [][Next]_vars
FairSpec == Spec /\ Fairness

-----------------------------------------------------------------------------
(* Properties                                                              *)

TypeOK ==
  /\ readyNodes \subseteq Nodes
  /\ now \in 0 .. MaxTime
  /\ phase \in {"new", "prepared", "running", "ended"}
  /\ check \in Checks
  /\ timeout \in 0 .. MaxTime + Duration /\ initialCount \in 0 .. Cardinality(Nodes)
  /\ verdict \in {"none", "passed", "failed"}
  /\ seen \subseteq [held : BOOLEAN, late : BOOLEAN]

(* The check passes as soon as one call sees what was asked for, however   *)
(* the count came there and went on from there between the calls, and      *)
(* fails only past its deadline, when none has: a count that overshoots    *)
(* between two calls is not seen.                                          *)
VerdictIsFirstSight ==
  /\ verdict = "passed" <=> \E s \in seen : s.held
  /\ verdict = "failed" <=> \E s \in seen : s.late /\ ~s.held

(* A started check comes to a verdict.                                     *)
ReachesVerdict == phase = "running" ~> verdict # "none"
=============================================================================
