-------------------------- MODULE EnvoyAttackProofs --------------------------
(***************************************************************************)
(* Proofs about EnvoyAttack, for any number of executions, user policies,  *)
(* routes and sections.                                                    *)
(***************************************************************************)
EXTENDS EnvoyAttack, TLAPS

(* The state starts out well typed.                                        *)
LEMMA InitType == Init => TypeOK
BY EnvoyAssumption DEF Init, TypeOK, Names

(* Creating a policy keeps the server's state well typed.                  *)
LEMMA CreateType ==
  ASSUME TypeOK, NEW n \in Names, NEW ref \in Ref,
         n \in Executions => ref = TargetOf[n],
         CreatePolicy(n, ref), UNCHANGED stop,
         pc' \in [Executions ->
                    {"new", "rejected", "prepared", "checked", "running", "error"}]
  PROVE  TypeOK'
BY DEF TypeOK, CreatePolicy

(* So does deleting one.                                                   *)
LEMMA DeleteType ==
  ASSUME TypeOK, NEW n \in Names, DeletePolicy(n), UNCHANGED pc,
         stop' \in [Executions -> {"none", "failed", "done"}]
  PROVE  TypeOK'
BY DEF TypeOK, DeletePolicy

(* Every step of the attacks, the users and the restarts does.             *)
LEMMA NextType == TypeOK /\ [Next]_vars => TypeOK'
<1>. SUFFICES ASSUME TypeOK, [Next]_vars PROVE TypeOK'
  OBVIOUS
<1>. USE EnvoyAssumption
<1>1. ASSUME NEW e \in Executions, Call(e) PROVE TypeOK'
  <2>. e \in Names /\ TargetOf[e] \in Ref
    BY DEF Names
  <2>1. CASE Prepare(e) \/ PrepareFails(e) \/ StartCheck(e) \/ StartConflicts(e)
    BY <2>1 DEF TypeOK, Prepare, PrepareFails, StartCheck, StartConflicts, server
  <2>2. CASE StartCreate(e)
    BY <2>2, CreateType DEF TypeOK, StartCreate
  <2>3. CASE StartCreateFails(e) \/ StopFails(e)
    BY <2>3 DEF TypeOK, StartCreateFails, StopFails, server
  <2>4. CASE Stop(e)
    BY <2>4, DeleteType DEF TypeOK, Stop
  <2>. QED
    BY <1>1, <2>1, <2>2, <2>3, <2>4 DEF Call
<1>2. CASE UserStep
  <2>1. ASSUME NEW n \in Users, UserCreates(n) PROVE TypeOK'
    BY <2>1, CreateType DEF TypeOK, UserCreates, Names
  <2>2. ASSUME NEW n \in Users, UserRetargets(n) PROVE TypeOK'
    BY <2>2 DEF TypeOK, UserRetargets, Names
  <2>3. ASSUME NEW n \in Names, UserDeletes(n) PROVE TypeOK'
    BY <2>3, DeleteType DEF TypeOK, UserDeletes
  <2>. QED
    BY <1>2, <2>1, <2>2, <2>3 DEF UserStep
<1>3. CASE Crash
  BY <1>3 DEF TypeOK, Crash, server
<1>4. CASE UNCHANGED vars
  BY <1>4 DEF TypeOK, vars
<1>. QED
  BY <1>1, <1>2, <1>3, <1>4 DEF Next

(* The attacks' state, and what they and the users make of the policies,   *)
(* has its type.                                                           *)
THEOREM TypeCorrect == Spec => []TypeOK
<1>. QED
  BY InitType, NextType, PTL DEF Spec

-----------------------------------------------------------------------------
(* What makes NotShadowed inductive: from its check on, an execution       *)
(* knows the policies on its route, but for those that came since.         *)
CheckStands ==
  \A e \in Executions :
    pc[e] \in {"checked", "running"} => findConflictingPolicy(e) \subseteq since[e]

(* A policy is not older than itself.                                      *)
NotOwnElder == \A n \in Names : n \notin older[n]

IInv == TypeOK /\ CheckStands /\ NotOwnElder /\ NotShadowed

(* The invariant holds at first: nothing has been checked.                 *)
LEMMA InitInv == Init => IInv
BY InitType DEF Init, IInv, CheckStands, NotOwnElder, NotShadowed

(* A new policy is in everybody's "since", and older than none.            *)
LEMMA CreateKeeps ==
  ASSUME IInv, TypeOK', NEW n \in Names, NEW ref \in Ref, CreatePolicy(n, ref),
         \A e \in Executions : pc'[e] # pc[e] =>
           e = n /\ pc[e] = "checked" /\ pc'[e] \in {"running", "error"},
         n \in Executions => pc[n] = "checked" /\ ref = TargetOf[n]
  PROVE  IInv'
<1>1. CheckStands'
  BY EnvoyAssumption
     DEF IInv, CheckStands, TypeOK, CreatePolicy, findConflictingPolicy, Matches, Names
<1>2. NotOwnElder'
  BY DEF IInv, NotOwnElder, TypeOK, CreatePolicy
<1>3. NotShadowed'
  <2>. SUFFICES ASSUME NEW e \in Executions, pc'[e] = "running", e \in policies',
                       NEW m \in (older[e] \cap policies)', Matches(m, e)'
                PROVE  m \in since'[e]
    BY DEF NotShadowed
  <2>1. CASE e = n
    BY <2>1 DEF IInv, CheckStands, TypeOK, CreatePolicy, findConflictingPolicy, Matches, Names
  <2>2. CASE e # n
    BY <2>2 DEF IInv, NotShadowed, TypeOK, CreatePolicy, Matches, Names
  <2>. QED
    BY <2>1, <2>2
<1>. QED
  BY <1>1, <1>2, <1>3 DEF IInv

(* Where policies only go, nobody is shadowed who was not before.          *)
LEMMA DeleteKeeps ==
  ASSUME IInv, TypeOK', NEW n \in Names, DeletePolicy(n), UNCHANGED pc
  PROVE  IInv'
BY DEF IInv, CheckStands, NotOwnElder, NotShadowed, TypeOK, DeletePolicy,
       findConflictingPolicy, Matches, Names

(* A check that finds nothing starts "since" afresh.                       *)
LEMMA CheckKeeps ==
  ASSUME IInv, TypeOK', NEW e \in Executions, findConflictingPolicy(e) = {},
         since' = [since EXCEPT ![e] = {}], UNCHANGED server,
         pc' \in {[pc EXCEPT ![e] = "prepared"], [pc EXCEPT ![e] = "checked"]}
  PROVE  IInv'
BY DEF IInv, CheckStands, NotOwnElder, NotShadowed, TypeOK, server,
       findConflictingPolicy, Matches, Names

(* Leaving Prepare or Start does not run an attack.                        *)
LEMMA LeaveKeeps ==
  ASSUME IInv, TypeOK', UNCHANGED << server, since >>,
         \A e \in Executions : pc'[e] = pc[e] \/ pc'[e] \in {"rejected", "error"}
  PROVE  IInv'
BY DEF IInv, CheckStands, NotOwnElder, NotShadowed, TypeOK, server,
       findConflictingPolicy, Matches, Names

(* A policy that is pointed elsewhere is in everybody's "since".           *)
LEMMA RetargetKeeps ==
  ASSUME IInv, TypeOK', NEW n \in Users, UserRetargets(n)
  PROVE  IInv'
BY EnvoyAssumption
   DEF IInv, CheckStands, NotOwnElder, NotShadowed, TypeOK, UserRetargets,
       findConflictingPolicy, Matches, Names

(* Every step keeps the invariant.                                         *)
LEMMA NextInv == IInv /\ [Next]_vars => IInv'
<1>. SUFFICES ASSUME IInv, [Next]_vars PROVE IInv'
  OBVIOUS
<1>. TypeOK /\ TypeOK'
  BY NextType DEF IInv
<1>1. ASSUME NEW e \in Executions, Call(e) PROVE IInv'
  <2>. e \in Names /\ TargetOf[e] \in Ref
    BY EnvoyAssumption DEF Names
  <2>1. CASE Prepare(e) \/ StartCheck(e)
    BY <2>1, CheckKeeps DEF Prepare, StartCheck
  <2>2. CASE PrepareFails(e) \/ StartConflicts(e) \/ StartCreateFails(e) \/ StopFails(e)
    BY <2>2, LeaveKeeps
       DEF PrepareFails, StartConflicts, StartCreateFails, StopFails, TypeOK
  <2>3. CASE StartCreate(e)
    BY <2>3, CreateKeeps DEF StartCreate, TypeOK
  <2>4. CASE Stop(e)
    BY <2>4, DeleteKeeps DEF Stop
  <2>. QED
    BY <1>1, <2>1, <2>2, <2>3, <2>4 DEF Call
<1>2. CASE UserStep
  <2>1. ASSUME NEW n \in Users, UserCreates(n) PROVE IInv'
    BY <2>1, CreateKeeps, EnvoyAssumption DEF UserCreates, Names
  <2>2. ASSUME NEW n \in Users, UserRetargets(n) PROVE IInv'
    BY <2>2, RetargetKeeps
  <2>3. ASSUME NEW n \in Names, UserDeletes(n) PROVE IInv'
    BY <2>3, DeleteKeeps DEF UserDeletes
  <2>. QED
    BY <1>2, <2>1, <2>2, <2>3 DEF UserStep
<1>3. CASE Crash
  BY <1>3, LeaveKeeps DEF Crash, TypeOK
<1>4. CASE UNCHANGED vars
  BY <1>4, LeaveKeeps DEF vars, server
<1>. QED
  BY <1>1, <1>2, <1>3, <1>4 DEF Next

(* Whatever users and other executions do, an attack that runs is shadowed *)
(* only by policies that came after the check its Start made.              *)
THEOREM RunningIsEffective == Spec => []NotShadowed
<1>1. IInv => NotShadowed
  BY DEF IInv
<1>. QED
  BY <1>1, InitInv, NextInv, PTL DEF Spec

(* Two attacks on one route run only when each made its check before the   *)
(* other's policy came: policies of executions match each other both ways. *)
THEOREM BothRunByRace == Spec => []BothRunOnlyByRace
<1>1. IInv => BothRunOnlyByRace
  <2>. SUFFICES ASSUME IInv, NEW e \in Executions, NEW f \in Executions, e # f, Matches(f, e),
                       pc[e] = "running", pc[f] = "running", {e, f} \subseteq policies
                PROVE  f \in since[e] /\ e \in since[f]
    BY DEF BothRunOnlyByRace
  <2>1. Matches(e, f)
    BY DEF IInv, TypeOK, Matches, targetRefMatchesRoute
  <2>2. f \in findConflictingPolicy(e) /\ e \in findConflictingPolicy(f)
    BY <2>1 DEF findConflictingPolicy
  <2>. QED
    BY <2>2 DEF IInv, CheckStands
<1>. QED
  BY <1>1, InitInv, NextInv, PTL DEF Spec

-----------------------------------------------------------------------------
(* If Stop is called only when Start has returned, a Stop that succeeded   *)
(* leaves no policy behind and none comes back: Start is never called      *)
(* after it, and no other step creates the execution's policy.             *)
StopInv ==
  /\ TypeOK
  /\ StoppedMeansGone
  /\ \A e \in Executions : stop[e] = "done" => pc[e] # "checked"

(* StopInv is inductive when Stop never overlaps Start.                    *)
LEMMA NextStopInv ==
  ASSUME ~StopMayOverlapStart, StopInv, [Next]_vars PROVE StopInv'
<1>. USE EnvoyAssumption
<1>. TypeOK /\ TypeOK'
  BY NextType DEF StopInv
<1>1. ASSUME NEW e \in Executions, Call(e) PROVE StopInv'
  <2>1. CASE Prepare(e) \/ PrepareFails(e)
    BY <2>1 DEF StopInv, StoppedMeansGone, TypeOK, Prepare, PrepareFails, server
  <2>2. CASE StartCheck(e) \/ StartConflicts(e)
    BY <2>2 DEF StopInv, StoppedMeansGone, TypeOK, StartCheck, StartConflicts,
                Startable, server
  <2>3. CASE StartCreate(e)
    BY <2>3 DEF StopInv, StoppedMeansGone, TypeOK, StartCreate, CreatePolicy
  <2>4. CASE StartCreateFails(e)
    BY <2>4 DEF StopInv, StoppedMeansGone, TypeOK, StartCreateFails, server
  <2>5. CASE Stop(e)
    BY <2>5 DEF StopInv, StoppedMeansGone, TypeOK, Stop, Stoppable, DeletePolicy
  <2>6. CASE StopFails(e)
    BY <2>6 DEF StopInv, StoppedMeansGone, TypeOK, StopFails, server
  <2>. QED
    BY <1>1, <2>1, <2>2, <2>3, <2>4, <2>5, <2>6 DEF Call
<1>2. CASE UserStep
  BY <1>2 DEF StopInv, StoppedMeansGone, TypeOK, UserStep, UserCreates, CreatePolicy,
              UserRetargets, UserDeletes, DeletePolicy
<1>3. CASE Crash
  BY <1>3 DEF StopInv, StoppedMeansGone, TypeOK, Crash, server
<1>4. CASE UNCHANGED vars
  BY <1>4 DEF StopInv, StoppedMeansGone, vars
<1>. QED
  BY <1>1, <1>2, <1>3, <1>4 DEF Next

(* A successful Stop is final, if the platform does not stop an execution  *)
(* whose Start has not returned.                                           *)
THEOREM StopIsFinal ==
  ASSUME ~StopMayOverlapStart PROVE Spec => []StoppedMeansGone
<1>1. Init => StopInv
  BY InitType DEF Init, StopInv, StoppedMeansGone
<1>2. StopInv /\ [Next]_vars => StopInv'
  BY NextStopInv
<1>3. StopInv => StoppedMeansGone
  BY DEF StopInv
<1>. QED
  BY <1>1, <1>2, <1>3, PTL DEF Spec
=============================================================================
