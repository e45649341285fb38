------------------------ MODULE KubectlActionProofs ------------------------
(***************************************************************************)
(* What the kubectl actions promise for any number of executions on a      *)
(* target, any values of the attacked field and any settings.              *)
(***************************************************************************)
EXTENDS KubectlAction, TLAPS

(* How the platform's, the extension's and kubectl's view of an execution  *)
(* fit together.                                                           *)
Consistent(e) ==
  /\ phase[e] = "new" => stop[e] = "idle" /\ reported[e] = "nothing" /\ process[e] = "none"
  /\ e \in spawned <=> phase[e] = "started"
  /\ e \in spawned => process[e] # "none"
  /\ ~setting.lostStarts => (process[e] # "none" => e \in spawned)
  /\ e \in inflight => process[e] # "none"
  /\ stop[e] \in {"precondition", "rollback"} => e \in spawned
  /\ e \in completed \/ (e \in spawned /\ stop[e] # "idle") => process[e] \notin Alive

(* The options of an execution are those of the attack.                    *)
HasOptions(e) == phase[e] # "new" => \E old \in Field : opts[e] = OptionsFor(e, old)

(* No request is left behind by a Stop that has rolled back.               *)
NothingLeft(e) ==
  ~setting.lateRequests /\ ~setting.lostStarts /\ stop[e] = "done" /\ e \in inflight
    => opts[e].rollback = Never

(* What kubectl reports as deleted is gone for good.                       *)
DeletedIsGone(e) ==
  /\ reported[e] = "completed" => setting.attack = "deletePod"
  /\ setting.attack = "deletePod"
       => (process[e] \in {"answered", "exit0"} \/ reported[e] = "completed" => value = Gone)

(* The inductive invariant.                                                *)
KubectlInv ==
  /\ TypeOK
  /\ \A e \in Executions : Consistent(e) /\ HasOptions(e) /\ NothingLeft(e) /\ DeletedIsGone(e)

-----------------------------------------------------------------------------
(* The options providers: all but deletePod define a duration, and all     *)
(* commands write values that the field may hold.                          *)
LEMMA OptionsFacts ==
  ASSUME setting \in Setting, NEW e \in Executions, NEW old \in Field
  PROVE  /\ IF setting.attack = "deletePod" THEN OptionsFor(e, old) = deletePod
            ELSE OptionsFor(e, old).duration
         /\ OptionsFor(e, old).command.writes \in Field
         /\ OptionsFor(e, old).rollback.writes \in Field
<1> USE KubectlAssumption DEF Options, Run, Never, Field
<1>1. setting.attack \in Attacks /\ setting.new[e] \in Values
  BY DEF Setting
<1>2. CASE setting.attack = "scaleDeployment"
  BY <1>1, <1>2 DEF OptionsFor, scaleDeployment
<1>3. CASE setting.attack = "scaleStatefulSet"
  BY <1>1, <1>3 DEF OptionsFor, scaleStatefulSet
<1>4. CASE setting.attack = "scaleReplicaSet"
  BY <1>1, <1>4 DEF OptionsFor, scaleReplicaSet
<1>5. CASE setting.attack = "scaleRollout"
  BY <1>1, <1>5 DEF OptionsFor, scaleArgoRollout
<1>6. CASE setting.attack = "setImage"
  BY <1>1, <1>6 DEF OptionsFor, setImage
<1>7. CASE setting.attack = "taint"
  BY <1>1, <1>7 DEF OptionsFor, taintNode
<1>8. CASE setting.attack = "drain"
  BY <1>1, <1>8 DEF OptionsFor, drainNode
<1>9. CASE setting.attack = "deletePod"
  BY <1>1, <1>9 DEF OptionsFor, deletePod
<1> QED BY <1>1, <1>2, <1>3, <1>4, <1>5, <1>6, <1>7, <1>8, <1>9 DEF Attacks, Scales

(* Options do not change with the state.                                   *)
LEMMA OptionsStay ==
  ASSUME setting' = setting
  PROVE  /\ \A e, old : OptionsFor(e, old)' = OptionsFor(e, old)
         /\ AllOptions' = AllOptions /\ Field' = Field
<1>1. \A e, old : OptionsFor(e, old)' = OptionsFor(e, old)
  BY DEF OptionsFor
<1> QED BY <1>1 DEF AllOptions, Field

(* The rollback of deletePod never runs, and its command deletes.          *)
LEMMA DeletePodFacts ==
  /\ deletePod.command.writes = Gone /\ deletePod.rollback = Never
  /\ deletePod.rollback.expects = {} /\ ~deletePod.precondition /\ ~deletePod.duration
BY DEF deletePod, Options, Run, Never

(* The options of an execution that is prepared.                           *)
LEMMA PreparedFacts ==
  ASSUME TypeOK, NEW e \in Executions, HasOptions(e), phase[e] # "new"
  PROVE  /\ setting \in Setting
         /\ IF setting.attack = "deletePod" THEN opts[e] = deletePod ELSE opts[e].duration
         /\ opts[e].command.writes \in Field
         /\ opts[e].rollback.writes \in Field
<1>1. setting \in Setting
  BY KubectlAssumption DEF TypeOK
<1>2. PICK old \in Field : opts[e] = OptionsFor(e, old)
  BY DEF HasOptions
<1> QED BY <1>1, <1>2, OptionsFacts

-----------------------------------------------------------------------------
(* The steps.                                                              *)

(* Prepare.                                                                *)
LEMMA PrepareStep ==
  ASSUME KubectlInv, NEW d \in Executions, Prepare(d)
  PROVE  KubectlInv'
<1>u. /\ phase[d] = "new" /\ phase' = [phase EXCEPT ![d] = "prepared"]
      /\ opts' = [opts EXCEPT ![d] = OptionsFor(d, cache)]
      /\ UNCHANGED << setting, value, cache, spawned, completed, reported, stop, process,
                      inflight, registry >>
  BY DEF Prepare, around, command
<1>1. TypeOK'
  <2>1. OptionsFor(d, cache) \in AllOptions
    BY DEF KubectlInv, TypeOK, AllOptions
  <2> QED BY <1>u, <2>1, OptionsStay DEF KubectlInv, TypeOK
<1>2. ASSUME NEW e \in Executions
      PROVE  Consistent(e)' /\ HasOptions(e)' /\ NothingLeft(e)' /\ DeletedIsGone(e)'
  <2>1. /\ Consistent(e) /\ HasOptions(e) /\ NothingLeft(e) /\ DeletedIsGone(e)
        /\ phase' \in [Executions -> {"new", "prepared", "started", "startFailed"}]
        /\ e # d => phase'[e] = phase[e] /\ opts'[e] = opts[e]
        /\ opts'[d] = OptionsFor(d, cache)
    BY <1>u DEF KubectlInv, TypeOK
  <2>2. Consistent(e)'
    BY <1>u, <2>1 DEF Consistent
  <2>3. HasOptions(e)'
    <3>1. CASE e = d
      BY <3>1, <1>u, <2>1, OptionsStay DEF HasOptions, KubectlInv, TypeOK
    <3>2. CASE e # d
      BY <3>2, <1>u, <2>1, OptionsStay DEF HasOptions
    <3> QED BY <3>1, <3>2
  <2>4. NothingLeft(e)'
    BY <1>u, <2>1 DEF NothingLeft, Consistent
  <2>5. DeletedIsGone(e)'
    BY <1>u, <2>1 DEF DeletedIsGone
  <2> QED BY <2>2, <2>3, <2>4, <2>5
<1> QED BY <1>1, <1>2 DEF KubectlInv

(* Start, whether the platform hears of it or not.                         *)
LEMMA StartStep ==
  ASSUME KubectlInv, NEW d \in Executions, Start(d) \/ StartUnanswered(d) \/ StartFails(d)
  PROVE  KubectlInv'
<1>u. /\ phase[d] = "prepared" /\ stop[d] = "idle"
      /\ UNCHANGED << setting, value, cache, opts, completed, reported, stop, inflight >>
  BY DEF Start, StartUnanswered, StartFails, Spawn, around
<1>p. \/ /\ process' = [process EXCEPT ![d] = "running"]
         /\ \/ spawned' = spawned \cup {d} /\ phase' = [phase EXCEPT ![d] = "started"]
            \/ setting.lostStarts /\ spawned' = spawned /\ phase' = [phase EXCEPT ![d] = "startFailed"]
      \/ process' = process /\ spawned' = spawned /\ phase' = [phase EXCEPT ![d] = "startFailed"]
  BY DEF Start, StartUnanswered, StartFails, Spawn
<1>1. TypeOK'
  <2>1. registry' = registry \cup {d}
    BY DEF Start, StartUnanswered, StartFails, Spawn
  <2> QED BY <1>u, <1>p, <2>1, OptionsStay DEF KubectlInv, TypeOK, Alive
<1>2. ASSUME NEW e \in Executions
      PROVE  Consistent(e)' /\ HasOptions(e)' /\ NothingLeft(e)' /\ DeletedIsGone(e)'
  <2>1. /\ Consistent(e) /\ HasOptions(e) /\ NothingLeft(e) /\ DeletedIsGone(e)
        /\ phase' \in [Executions -> {"new", "prepared", "started", "startFailed"}]
        /\ e # d => /\ phase'[e] = phase[e] /\ process'[e] = process[e]
                    /\ e \in spawned' <=> e \in spawned
        /\ phase'[d] # "new" /\ process'[d] \in {process[d], "running"}
    BY <1>u, <1>p DEF KubectlInv, TypeOK
  <2>2. Consistent(e)'
    <3>1. CASE e = d
      <4>1. d \notin completed
        BY <1>u, <1>p, <3>1, <2>1 DEF Consistent, KubectlInv, TypeOK
      <4> QED BY <3>1, <4>1, <1>u, <1>p, <2>1 DEF Consistent, KubectlInv, TypeOK
    <3>2. CASE e # d
      BY <3>2, <1>u, <2>1 DEF Consistent
    <3> QED BY <3>1, <3>2
  <2>3. HasOptions(e)'
    BY <1>u, <1>p, <2>1, OptionsStay DEF HasOptions
  <2>4. NothingLeft(e)'
    BY <1>u, <2>1 DEF NothingLeft
  <2>5. DeletedIsGone(e)'
    BY <1>u, <2>1 DEF DeletedIsGone
  <2> QED BY <2>2, <2>3, <2>4, <2>5
<1> QED BY <1>1, <1>2 DEF KubectlInv

(* A step of kubectl or of the API server.                                 *)
LEMMA CommandOrSignal ==
  ASSUME KubectlInv, NEW d \in Executions, CommandStep(d) \/ KilledBySignal(d)
  PROVE  KubectlInv'
<1>u. UNCHANGED << setting, cache, opts, phase, spawned, completed, reported, stop, registry >>
  BY DEF CommandStep, SendRequest, GiveUp, Accept, Refuse, Exit, KilledBySignal, around, platform
<1>c. Consistent(d) /\ HasOptions(d) /\ NothingLeft(d) /\ DeletedIsGone(d) /\ TypeOK
  BY DEF KubectlInv
<1>p. /\ process' \in [Executions -> Alive \cup {"none", "exit0", "exit1", "signalled"}]
      /\ \A e \in Executions \ {d} : process'[e] = process[e]
      /\ process'[d] = "none" <=> process[d] = "none"
      /\ process'[d] \in Alive => process[d] \in Alive
  BY <1>c DEF CommandStep, SendRequest, GiveUp, Accept, Refuse, Exit, KilledBySignal, Answer,
              TypeOK, Alive, Consistent
<1>i. /\ inflight' \subseteq Executions
      /\ \A e \in Executions \ {d} : e \in inflight' <=> e \in inflight
      /\ d \in inflight' => d \in inflight \/ process[d] = "running"
  BY <1>c DEF CommandStep, SendRequest, GiveUp, Accept, Refuse, Exit, KilledBySignal, TypeOK
<1>v. \/ value' = value /\ (process'[d] \in {"answered", "exit0"} => process[d] \in {"answered", "exit0"})
      \/ Accept(d) /\ value' = opts[d].command.writes
  BY <1>c DEF CommandStep, SendRequest, GiveUp, Accept, Refuse, Exit, KilledBySignal, Answer, TypeOK, Alive
<1>a. Accept(d) => phase[d] # "new"
  BY <1>c DEF Accept, Consistent
<1>1. TypeOK'
  <2>1. value' \in Field
    BY <1>v, <1>a, <1>c, PreparedFacts DEF TypeOK
  <2> QED BY <1>u, <1>c, <1>p, <1>i, <2>1, OptionsStay DEF TypeOK
<1>2. ASSUME NEW e \in Executions
      PROVE  Consistent(e)' /\ HasOptions(e)' /\ NothingLeft(e)' /\ DeletedIsGone(e)'
  <2>1. Consistent(e) /\ HasOptions(e) /\ NothingLeft(e) /\ DeletedIsGone(e)
    BY DEF KubectlInv
  <2>2. Consistent(e)'
    BY <1>u, <1>p, <1>i, <2>1 DEF Consistent, Alive
  <2>3. HasOptions(e)'
    BY <1>u, <2>1, OptionsStay DEF HasOptions
  <2>4. NothingLeft(e)'
    <3>1. CASE e = d /\ process[d] = "running"
      BY <3>1, <1>u, <2>1 DEF NothingLeft, Consistent, Alive
    <3>2. CASE ~(e = d /\ process[d] = "running")
      BY <3>2, <1>u, <1>i, <2>1 DEF NothingLeft
    <3> QED BY <3>1, <3>2
  <2>5. DeletedIsGone(e)'
    <3>1. setting.attack = "deletePod" /\ value' # value => value' = Gone
      BY <1>v, <1>a, <1>c, PreparedFacts, DeletePodFacts
    <3>2. setting.attack = "deletePod" /\ Accept(d) => value' = Gone
      BY <1>v, <1>a, <1>c, PreparedFacts, DeletePodFacts DEF Accept
    <3> QED BY <1>u, <1>p, <1>v, <2>1, <3>1, <3>2 DEF DeletedIsGone
  <2> QED BY <2>2, <2>3, <2>4, <2>5
<1> QED BY <1>1, <1>2 DEF KubectlInv

(* Status.                                                                 *)
LEMMA StatusStep ==
  ASSUME KubectlInv, NEW d \in Executions, Status(d)
  PROVE  KubectlInv'
<1>u. /\ phase[d] = "started" /\ stop[d] = "idle"
      /\ UNCHANGED << setting, value, cache, opts, phase, spawned, stop, process, inflight, registry >>
  BY DEF Status, StatusLost, StatusExited, Polled, around, command
<1>c. Consistent(d) /\ HasOptions(d) /\ DeletedIsGone(d) /\ TypeOK
  BY DEF KubectlInv
<1>r. \/ completed' = completed /\ reported' = [reported EXCEPT ![d] = "error"]
      \/ /\ process[d] \in {"exit0", "exit1"} /\ d \in registry
         /\ completed' = completed \cup {d}
         /\ reported' = [reported EXCEPT ![d] =
                            IF process[d] = "exit1" THEN "error"
                            ELSE IF opts[d].duration THEN "nothing" ELSE "completed"]
  BY DEF Status, StatusLost, StatusExited
<1>s. completed' \subseteq spawned
  <2>1. CASE completed' = completed
    BY <2>1, <1>c DEF TypeOK
  <2>2. CASE process[d] \in {"exit0", "exit1"} /\ completed' = completed \cup {d}
    <3>1. d \in spawned
      BY <2>2, <1>c, <1>u DEF Consistent
    <3> QED BY <2>2, <3>1, <1>c DEF TypeOK
  <2> QED BY <1>r, <2>1, <2>2
<1>1. TypeOK'
  BY <1>u, <1>c, <1>r, <1>s, OptionsStay DEF TypeOK
<1>2. ASSUME NEW e \in Executions
      PROVE  Consistent(e)' /\ HasOptions(e)' /\ NothingLeft(e)' /\ DeletedIsGone(e)'
  <2>1. Consistent(e) /\ HasOptions(e) /\ NothingLeft(e) /\ DeletedIsGone(e)
    BY DEF KubectlInv
  <2>2. Consistent(e)'
    BY <1>u, <1>c, <1>r, <2>1 DEF Consistent, Alive, TypeOK
  <2>3. HasOptions(e)' /\ NothingLeft(e)'
    BY <1>u, <2>1, OptionsStay DEF HasOptions, NothingLeft
  <2>4. DeletedIsGone(e)'
    <3>1. CASE e = d /\ reported'[d] = "completed"
      <4>1. process[d] = "exit0" /\ ~opts[d].duration
        BY <3>1, <1>r, <1>c DEF TypeOK
      <4>2. setting.attack = "deletePod"
        BY <4>1, <1>u, <1>c, PreparedFacts
      <4> QED BY <3>1, <4>1, <4>2, <1>u, <1>c DEF DeletedIsGone
    <3>2. CASE e # d \/ reported'[e] # "completed"
      BY <3>2, <1>u, <1>r, <1>c, <2>1 DEF DeletedIsGone, TypeOK
    <3> QED BY <3>1, <3>2
  <2> QED BY <2>2, <2>3, <2>4
<1> QED BY <1>1, <1>2 DEF KubectlInv
(* Stop, up to the kill.                                                   *)
LEMMA StopCallStep ==
  ASSUME KubectlInv, NEW d \in Executions, StopCall(d)
  PROVE  KubectlInv'
<1>u. /\ phase[d] # "new"
      /\ UNCHANGED << setting, value, cache, opts, phase, spawned, completed, reported, inflight >>
  BY DEF StopCall, Stoppable, around, platform
<1>c. Consistent(d) /\ HasOptions(d) /\ NothingLeft(d) /\ DeletedIsGone(d) /\ TypeOK
  BY DEF KubectlInv
<1>s. /\ stop' \in [Executions -> {"idle", "precondition", "rollback", "failed", "done"}]
      /\ \A e \in Executions \ {d} : stop'[e] = stop[e]
      /\ stop'[d] = IF d \notin spawned THEN "done" ELSE AfterKill(d)
  BY <1>c DEF StopCall, TypeOK, AfterKill
<1>p. /\ process' \in [Executions -> Alive \cup {"none", "exit0", "exit1", "signalled"}]
      /\ \A e \in Executions \ {d} : process'[e] = process[e]
      /\ process'[d] = IF d \in spawned \ completed /\ process[d] \in Alive
                       THEN "signalled" ELSE process[d]
  BY <1>c DEF StopCall, TypeOK, Alive
<1>1. TypeOK'
  <2>1. registry' \subseteq Executions
    BY <1>c DEF StopCall, TypeOK
  <2> QED BY <1>u, <1>c, <1>s, <1>p, <2>1, OptionsStay DEF TypeOK
<1>2. ASSUME NEW e \in Executions
      PROVE  Consistent(e)' /\ HasOptions(e)' /\ NothingLeft(e)' /\ DeletedIsGone(e)'
  <2>1. Consistent(e) /\ HasOptions(e) /\ NothingLeft(e) /\ DeletedIsGone(e)
    BY DEF KubectlInv
  <2>2. Consistent(e)'
    BY <1>u, <1>s, <1>p, <2>1 DEF Consistent, Alive
  <2>3. HasOptions(e)' /\ DeletedIsGone(e)'
    BY <1>u, <1>p, <2>1, OptionsStay DEF HasOptions, DeletedIsGone, Alive
  <2>4. NothingLeft(e)'
    <3>1. CASE e = d /\ d \in spawned
      BY <3>1, <1>u, <1>s DEF NothingLeft, AfterKill
    <3>2. CASE e = d /\ d \notin spawned
      BY <3>2, <1>u, <1>c DEF NothingLeft, Consistent
    <3>3. CASE e # d
      BY <3>3, <1>u, <1>s, <2>1 DEF NothingLeft
    <3> QED BY <3>1, <3>2, <3>3
  <2> QED BY <2>2, <2>3, <2>4
<1> QED BY <1>1, <1>2 DEF KubectlInv

(* Stop, after the kill.                                                   *)
LEMMA StopStepStep ==
  ASSUME KubectlInv, NEW d \in Executions, StopStep(d)
  PROVE  KubectlInv'
<1>u. /\ stop[d] \in {"precondition", "rollback"} /\ Settled(d)
      /\ UNCHANGED << setting, cache, opts, phase, spawned, completed, reported, process,
                      inflight, registry >>
  BY DEF StopStep, StopPrecondition, StopPreconditionFails, StopRollback, StopRollbackFails,
         around, platform, command
<1>c. /\ Consistent(d) /\ HasOptions(d) /\ TypeOK
      /\ d \in spawned /\ phase[d] # "new"
  BY <1>u DEF KubectlInv, Consistent
<1>s. \E answer \in {"rollback", "failed", "done"} : stop' = [stop EXCEPT ![d] = answer]
  BY DEF StopStep, StopPrecondition, StopPreconditionFails, StopRollback, StopRollbackFails
<1>v. \/ value' = value
      \/ value \in opts[d].rollback.expects /\ value' = opts[d].rollback.writes
  BY DEF StopStep, StopPrecondition, StopPreconditionFails, StopRollback, StopRollbackFails
<1>1. TypeOK'
  <2>1. value' \in Field
    BY <1>v, <1>c, PreparedFacts DEF TypeOK
  <2> QED BY <1>u, <1>c, <1>s, <2>1, OptionsStay DEF TypeOK
<1>2. ASSUME NEW e \in Executions
      PROVE  Consistent(e)' /\ HasOptions(e)' /\ NothingLeft(e)' /\ DeletedIsGone(e)'
  <2>1. Consistent(e) /\ HasOptions(e) /\ NothingLeft(e) /\ DeletedIsGone(e)
    BY DEF KubectlInv
  <2>2. Consistent(e)'
    BY <1>u, <1>c, <1>s, <2>1 DEF Consistent, TypeOK
  <2>3. HasOptions(e)'
    BY <1>u, <2>1, OptionsStay DEF HasOptions
  <2>4. NothingLeft(e)'
    BY <1>u, <1>s, <1>c, <2>1 DEF NothingLeft, Settled, TypeOK
  <2>5. DeletedIsGone(e)'
    <3>1. setting.attack = "deletePod" => value' = value
      BY <1>v, <1>c, PreparedFacts, DeletePodFacts
    <3> QED BY <1>u, <2>1, <3>1 DEF DeletedIsGone
  <2> QED BY <2>2, <2>3, <2>4, <2>5
<1> QED BY <1>1, <1>2 DEF KubectlInv

(* The cache, other writers and restarts.                                  *)
LEMMA AroundStep ==
  ASSUME KubectlInv, CacheSync \/ OtherWrite \/ Crash
  PROVE  KubectlInv'
<1>u. /\ UNCHANGED << setting, opts, phase, spawned, completed, reported, inflight >>
      /\ value # Gone \/ value' = value
      /\ value' \in Field /\ cache' \in Field
  BY DEF CacheSync, OtherWrite, Crash, KubectlInv, TypeOK, platform, command, around
<1>s. /\ stop' \in [Executions -> {"idle", "precondition", "rollback", "failed", "done"}]
      /\ \A e \in Executions :
           \/ stop'[e] = stop[e]
           \/ stop[e] \in {"precondition", "rollback"} /\ stop'[e] = "failed"
  BY DEF CacheSync, OtherWrite, Crash, KubectlInv, TypeOK
<1>p. /\ process' \in [Executions -> Alive \cup {"none", "exit0", "exit1", "signalled"}]
      /\ \A e \in Executions :
           \/ process'[e] = process[e]
           \/ process[e] \in Alive /\ process'[e] = "signalled"
  BY DEF CacheSync, OtherWrite, Crash, KubectlInv, TypeOK, command, Alive
<1>1. TypeOK'
  <2>1. registry' \subseteq Executions
    BY DEF CacheSync, OtherWrite, Crash, KubectlInv, TypeOK, command
  <2> QED BY <1>u, <1>s, <1>p, <2>1, OptionsStay DEF KubectlInv, TypeOK
<1>2. ASSUME NEW e \in Executions
      PROVE  Consistent(e)' /\ HasOptions(e)' /\ NothingLeft(e)' /\ DeletedIsGone(e)'
  <2>1. Consistent(e) /\ HasOptions(e) /\ NothingLeft(e) /\ DeletedIsGone(e)
    BY DEF KubectlInv
  <2>2. Consistent(e)'
    BY <1>u, <1>s, <1>p, <2>1 DEF Consistent, Alive
  <2>3. HasOptions(e)' /\ NothingLeft(e)'
    BY <1>u, <1>s, <2>1, OptionsStay DEF HasOptions, NothingLeft
  <2>4. DeletedIsGone(e)'
    BY <1>u, <1>p, <2>1 DEF DeletedIsGone
  <2> QED BY <2>2, <2>3, <2>4
<1> QED BY <1>1, <1>2 DEF KubectlInv

-----------------------------------------------------------------------------
(* The invariant holds at first and is kept by every step.                 *)
LEMMA KubectlInvHolds == Spec => []KubectlInv
<1>1. Init => KubectlInv
  <2> SUFFICES ASSUME Init PROVE KubectlInv
    OBVIOUS
  <2>1. TypeOK
    BY KubectlAssumption DEF Init, TypeOK, Field, AllOptions
  <2>2. ASSUME NEW e \in Executions
        PROVE  Consistent(e) /\ HasOptions(e) /\ NothingLeft(e) /\ DeletedIsGone(e)
    BY DEF Init, Consistent, HasOptions, NothingLeft, DeletedIsGone, Alive
  <2> QED BY <2>1, <2>2 DEF KubectlInv
<1>2. KubectlInv /\ [Next]_vars => KubectlInv'
  <2> SUFFICES ASSUME KubectlInv, [Next]_vars PROVE KubectlInv'
    OBVIOUS
  <2>1. ASSUME NEW e \in Executions,
               Prepare(e) \/ Start(e) \/ StartUnanswered(e) \/ StartFails(e)
        PROVE  KubectlInv'
    BY <2>1, PrepareStep, StartStep
  <2>2. ASSUME NEW e \in Executions, CommandStep(e) \/ KilledBySignal(e)
        PROVE  KubectlInv'
    BY <2>2, CommandOrSignal
  <2>3. ASSUME NEW e \in Executions, Status(e) \/ StopCall(e) \/ StopStep(e)
        PROVE  KubectlInv'
    BY <2>3, StatusStep, StopCallStep, StopStepStep
  <2>4. CASE CacheSync \/ OtherWrite \/ Crash
    BY <2>4, AroundStep
  <2>5. CASE UNCHANGED vars
    <3>1. UNCHANGED << setting, value, cache, opts, phase, spawned, completed, reported, stop,
                       process, inflight, registry >>
      BY <2>5 DEF vars
    <3>2. TypeOK'
      BY <3>1, OptionsStay DEF KubectlInv, TypeOK
    <3>3. \A e \in Executions :
            Consistent(e)' /\ HasOptions(e)' /\ NothingLeft(e)' /\ DeletedIsGone(e)'
      BY <3>1, OptionsStay DEF KubectlInv, Consistent, HasOptions, NothingLeft, DeletedIsGone
    <3> QED BY <3>2, <3>3 DEF KubectlInv
  <2> QED BY <2>1, <2>2, <2>3, <2>4, <2>5 DEF Next
<1> QED BY <1>1, <1>2, PTL DEF Spec

(* The types of all variables; every execution's options are those of its  *)
(* attack.                                                                 *)
THEOREM TypeCorrect == Spec => []TypeOK
BY KubectlInvHolds, PTL DEF KubectlInv

(* A pod whose deletion Status has reported is gone, whatever kubectl, the *)
(* API server, the other executions and restarts did.                      *)
THEOREM DeletedMeansGone == Spec => []SuccessIsReal
<1>1. KubectlInv => SuccessIsReal
  <2> SUFFICES ASSUME KubectlInv, NEW e \in Executions, reported[e] = "completed"
               PROVE  value = opts[e].command.writes
    BY DEF SuccessIsReal
  <2>1. /\ setting.attack = "deletePod" /\ value = Gone /\ phase[e] # "new"
        /\ TypeOK /\ HasOptions(e)
    BY DEF KubectlInv, Consistent, DeletedIsGone
  <2> QED BY <2>1, PreparedFacts, DeletePodFacts
<1> QED BY <1>1, KubectlInvHolds, PTL

(* Only what was started is rolled back: a Stop that follows a Prepare, or *)
(* a Start that failed early, writes nothing.                              *)
THEOREM OnlyStartedIsRolledBack == Spec => UnstartedNotRolledBack
<1>1. KubectlInv /\ [Next]_vars
        => [\A e \in Executions : StopStep(e) /\ value' # value => process[e] # "none"]_vars
  <2> SUFFICES ASSUME KubectlInv, NEW e \in Executions, StopStep(e)
               PROVE  process[e] # "none"
    OBVIOUS
  <2>1. stop[e] \in {"precondition", "rollback"}
    BY DEF StopStep, StopPrecondition, StopPreconditionFails, StopRollback, StopRollbackFails
  <2> QED BY <2>1 DEF KubectlInv, Consistent
<1> QED BY <1>1, KubectlInvHolds, PTL DEF Spec, UnstartedNotRolledBack

(* If no request outlives the kubectl that sent it, an action whose Stop   *)
(* is done writes the target no more, unless it has nothing to roll back.  *)
THEOREM StopIsFinal == Spec => NoEffectAfterStop
<1>1. KubectlInv /\ [Next]_vars
        => [~setting.lateRequests /\ ~setting.lostStarts =>
              \A e \in Executions :
                Accept(e) /\ opts[e].rollback # Never => stop[e] # "done"]_vars
  <2> SUFFICES ASSUME KubectlInv, NEW e \in Executions, Accept(e), opts[e].rollback # Never,
                      ~setting.lateRequests, ~setting.lostStarts
               PROVE  stop[e] # "done"
    OBVIOUS
  <2>1. e \in inflight
    BY DEF Accept
  <2> QED BY <2>1 DEF KubectlInv, NothingLeft
<1> QED BY <1>1, KubectlInvHolds, PTL DEF Spec, NoEffectAfterStop

-----------------------------------------------------------------------------
(* Restoring the target.                                                   *)

Active(e) == phase[e] # "new" /\ stop[e] # "done"

(* While nothing disturbs it, a target is at its original value unless the *)
(* one active execution has spawned kubectl, and that execution rolls back *)
(* to the original value.                                                  *)
RestoreInv ==
  Undisturbed /\ setting.attack # "deletePod" =>
    /\ value # Gone
    /\ \A e, f \in Executions : Active(e) /\ Active(f) => e = f
    /\ \A e \in Executions : Active(e) => opts[e] = OptionsFor(e, Initial)
    /\ value # Initial => \E e \in spawned : Active(e)
    /\ \A e \in Executions : stop[e] = "precondition" => setting.attack = "drain"

(* No request of a rollback's precondition fails.                          *)
PreconditionsAnswer == \A s \in Settings : ~(s.attack = "drain" /\ s.lostAnswers)

(* All attacks but deletePod have a rollback, and only drain a             *)
(* precondition; prepared on the original value they roll back to it.      *)
LEMMA RollbackFacts ==
  ASSUME setting \in Setting, setting.attack # "deletePod",
         NEW e \in Executions, NEW old \in Field
  PROVE  /\ OptionsFor(e, old).command.writes \in Values
         /\ OptionsFor(e, old).rollback # Never
         /\ OptionsFor(e, old).precondition => setting.attack = "drain"
         /\ OptionsFor(e, Initial).rollback.writes = Initial
<1> USE KubectlAssumption DEF Options, Run, Never, Field
<1>1. setting.attack \in Attacks /\ setting.new[e] \in Values
  BY DEF Setting
<1>2. CASE setting.attack = "scaleDeployment"
  BY <1>1, <1>2 DEF OptionsFor, scaleDeployment
<1>3. CASE setting.attack = "scaleStatefulSet"
  BY <1>1, <1>3 DEF OptionsFor, scaleStatefulSet
<1>4. CASE setting.attack = "scaleReplicaSet"
  BY <1>1, <1>4 DEF OptionsFor, scaleReplicaSet
<1>5. CASE setting.attack = "scaleRollout"
  BY <1>1, <1>5 DEF OptionsFor, scaleArgoRollout
<1>6. CASE setting.attack = "setImage"
  BY <1>1, <1>6 DEF OptionsFor, setImage
<1>7. CASE setting.attack = "taint"
  BY <1>1, <1>7 DEF OptionsFor, taintNode
<1>8. CASE setting.attack = "drain"
  BY <1>1, <1>8 DEF OptionsFor, drainNode
<1> QED BY <1>1, <1>2, <1>3, <1>4, <1>5, <1>6, <1>7, <1>8 DEF Attacks, Scales

(* The setting is chosen once.                                             *)
LEMMA SettingStays == [Next]_vars => setting' = setting
BY DEF Next, vars, around, Prepare, Start, StartUnanswered, StartFails, Spawn, CommandStep,
   SendRequest, GiveUp, Accept, Refuse, Exit, KilledBySignal, Status, StatusLost,
   StatusExited, StopCall, StopStep, StopPrecondition, StopPreconditionFails,
   StopRollback, StopRollbackFails, CacheSync, OtherWrite, Crash

(* RestoreInv is inductive relative to KubectlInv.                         *)
LEMMA RestoreStep ==
  ASSUME PreconditionsAnswer, KubectlInv, RestoreInv, [Next]_vars
  PROVE  RestoreInv'
<1>s. setting' = setting
  BY SettingStays
<1> SUFFICES ASSUME Undisturbed, setting.attack # "deletePod"
             PROVE  /\ value' # Gone
                    /\ \A e, f \in Executions : Active(e)' /\ Active(f)' => e = f
                    /\ \A e \in Executions : Active(e)' => opts'[e] = OptionsFor(e, Initial)
                    /\ value' # Initial => \E e \in spawned' : Active(e)'
                    /\ \A e \in Executions : stop'[e] = "precondition" => setting.attack = "drain"
  BY <1>s, OptionsStay DEF RestoreInv, Undisturbed
<1>0. /\ value # Gone
      /\ \A e, f \in Executions : Active(e) /\ Active(f) => e = f
      /\ \A e \in Executions : Active(e) => opts[e] = OptionsFor(e, Initial)
      /\ value # Initial => \E e \in spawned : Active(e)
      /\ \A e \in Executions : stop[e] = "precondition" => setting.attack = "drain"
  BY DEF RestoreInv
<1>t. TypeOK /\ setting \in Setting /\ Initial \in Field
  BY KubectlAssumption DEF KubectlInv, TypeOK, Field
<1>k. \A e \in Executions : Active(e) =>
        /\ opts[e].command.writes \in Values
        /\ opts[e].rollback # Never /\ opts[e].rollback.writes = Initial
        /\ opts[e].precondition => setting.attack = "drain"
  BY <1>0, <1>t, RollbackFacts
<1>1. ASSUME NEW d \in Executions, Prepare(d)
      PROVE  /\ value' = Initial /\ opts'[d] = OptionsFor(d, Initial)
             /\ \A e \in Executions : Active(e)' => e = d
             /\ stop' = stop
  <2>1. /\ \A e \in Executions : ~Active(e)
        /\ cache = value
    BY <1>1 DEF Prepare, Inactive, Active, Undisturbed
  <2>2. value = Initial
    BY <1>0, <1>t, <2>1 DEF TypeOK
  <2> QED
    BY <1>1, <1>t, <2>1, <2>2 DEF Prepare, Active, TypeOK, around
<1>2. ASSUME NEW d \in Executions, Start(d) \/ StartFails(d) \/ Status(d) \/ KilledBySignal(d)
                                   \/ SendRequest(d) \/ GiveUp(d) \/ Refuse(d) \/ Exit(d)
      PROVE  /\ UNCHANGED << value, opts, stop >> /\ spawned \subseteq spawned'
             /\ \A e \in Executions : Active(e)' <=> Active(e)
  BY <1>2, <1>t DEF Start, StartFails, Spawn, Status, StatusLost, StatusExited, KilledBySignal,
     SendRequest, GiveUp, Refuse, Exit, platform, command, around, Active, TypeOK
<1>3. ASSUME NEW d \in Executions, Accept(d)
      PROVE  /\ value' \in Values /\ UNCHANGED << opts, spawned, stop >> /\ d \in spawned /\ Active(d)
             /\ \A e \in Executions : Active(e)' <=> Active(e)
  <2>1. Consistent(d) /\ HasOptions(d) /\ NothingLeft(d) /\ d \in inflight
    BY <1>3 DEF KubectlInv, Accept
  <2>2. d \in spawned /\ phase[d] # "new"
    BY <2>1 DEF Consistent, Undisturbed
  <2>3. opts[d].rollback # Never
    BY <1>t, <2>1, <2>2, RollbackFacts DEF HasOptions
  <2>4. Active(d)
    BY <2>1, <2>2, <2>3 DEF NothingLeft, Undisturbed, Active
  <2> QED
    BY <1>3, <1>k, <2>2, <2>4 DEF Accept, Active, platform
<1>4. ASSUME NEW d \in Executions, StopCall(d)
      PROVE  /\ UNCHANGED << value, opts, spawned >> /\ Active(d)
             /\ \A e \in Executions \ {d} : Active(e)' <=> Active(e)
             /\ d \in spawned => Active(d)'
             /\ \A e \in Executions : stop'[e] = "precondition" => setting.attack = "drain"
  <2>1. Active(d)
    BY <1>4 DEF StopCall, Stoppable, Active
  <2>2. AfterKill(d) # "done"
    BY <1>k, <2>1 DEF AfterKill
  <2> QED
    BY <1>0, <1>4, <1>k, <1>t, <2>1, <2>2 DEF StopCall, Stoppable, AfterKill, Active, platform, TypeOK
<1>5. ASSUME NEW d \in Executions, StopStep(d)
      PROVE  /\ UNCHANGED << opts, spawned >> /\ Active(d)
             /\ \A e \in Executions \ {d} : Active(e)' <=> Active(e)
             /\ \/ value' = Initial
                \/ value' = value /\ Active(d)'
             /\ \A e \in Executions : stop'[e] = "precondition" => stop[e] = "precondition"
  <2>1. stop[d] \in {"precondition", "rollback"}
    BY <1>5 DEF StopStep, StopPrecondition, StopPreconditionFails, StopRollback, StopRollbackFails
  <2>2. Active(d)
    BY <2>1 DEF KubectlInv, Consistent, Active
  <2>3. ~StopPreconditionFails(d)
    <3> SUFFICES ASSUME StopPreconditionFails(d) PROVE FALSE
      OBVIOUS
    <3>1. stop[d] = "precondition" /\ setting.lostAnswers
      BY <1>0 DEF StopPreconditionFails
    <3> QED
      BY <1>0, <1>t, <3>1 DEF PreconditionsAnswer, TypeOK
  <2>4. CASE StopRollback(d)
    BY <1>k, <1>t, <2>2, <2>4 DEF StopRollback, Active, platform, TypeOK
  <2>5. CASE StopPrecondition(d) \/ StopRollbackFails(d)
    BY <1>t, <2>2, <2>5 DEF StopPrecondition, StopRollbackFails, Active, platform, TypeOK
  <2> QED
    BY <1>5, <2>2, <2>3, <2>4, <2>5 DEF StopStep
<1> DEFINE Kept == /\ value' # Gone
                   /\ \A e, f \in Executions : Active(e)' /\ Active(f)' => e = f
                   /\ \A e \in Executions : Active(e)' => opts'[e] = OptionsFor(e, Initial)
                   /\ value' # Initial => \E e \in spawned' : Active(e)'
                   /\ \A e \in Executions : stop'[e] = "precondition" => setting.attack = "drain"
<1>i. Initial # Gone /\ spawned \subseteq Executions /\ Gone \notin Values
  BY <1>t, KubectlAssumption DEF TypeOK
<1>6. ASSUME CacheSync \/ Crash \/ UNCHANGED vars PROVE Kept
  <2>1. /\ UNCHANGED << value, opts, spawned >>
        /\ \A e \in Executions : Active(e)' <=> Active(e)
        /\ \A e \in Executions : stop'[e] = "precondition" => stop[e] = "precondition"
    BY <1>6, <1>t DEF CacheSync, Crash, vars, platform, Active, TypeOK
  <2> QED
    BY <1>0, <1>i, <2>1
<1>7. ~OtherWrite /\ \A e \in Executions : ~StartUnanswered(e)
  BY DEF OtherWrite, StartUnanswered, Undisturbed
<1>8. ASSUME NEW d \in Executions, Prepare(d) PROVE Kept
  BY <1>0, <1>1, <1>8, <1>i
<1>9. ASSUME NEW d \in Executions, Start(d) \/ StartFails(d) \/ Status(d) \/ KilledBySignal(d)
                                   \/ SendRequest(d) \/ GiveUp(d) \/ Refuse(d) \/ Exit(d)
      PROVE  Kept
  <2>1. /\ UNCHANGED << value, opts, stop >> /\ spawned \subseteq spawned'
        /\ \A e \in Executions : Active(e)' <=> Active(e)
    BY <1>2, <1>9
  <2> QED
    BY <1>0, <1>i, <2>1
<1>10. ASSUME NEW d \in Executions, Accept(d) PROVE Kept
  BY <1>0, <1>3, <1>10, <1>i
<1>11. ASSUME NEW d \in Executions, StopCall(d) PROVE Kept
  BY <1>0, <1>4, <1>11, <1>i
<1>12. ASSUME NEW d \in Executions, StopStep(d) PROVE Kept
  BY <1>0, <1>5, <1>12, <1>i
<1> HIDE DEF Kept
<1>13. Kept
  BY <1>6, <1>7, <1>8, <1>9, <1>10, <1>11, <1>12 DEF Next, CommandStep
<1> QED BY <1>13 DEF Kept

(* The target is back at its original value whenever no action is active,  *)
(* whatever failed, was repeated or was interrupted, provided that it is   *)
(* not disturbed; for drain, provided that its precondition is answered,   *)
(* which reads a failure as a node that is gone.                           *)
THEOREM TargetIsRestored ==
  ASSUME PreconditionsAnswer
  PROVE  Spec => []Restored
<1>1. Init => RestoreInv
  BY KubectlAssumption DEF Init, RestoreInv, Active
<1>2. KubectlInv /\ RestoreInv /\ [Next]_vars => RestoreInv'
  BY RestoreStep
<1>3. KubectlInv /\ RestoreInv => Restored
  <2> SUFFICES ASSUME KubectlInv, RestoreInv, Undisturbed, setting.attack # "deletePod",
                      Inactive = Executions
               PROVE  value = Initial
    BY DEF Restored
  <2>1. \A e \in Executions : ~Active(e)
    BY DEF Inactive, Active
  <2> QED BY <2>1 DEF KubectlInv, TypeOK, RestoreInv
<1> QED BY <1>1, <1>2, <1>3, KubectlInvHolds, PTL DEF Spec

-----------------------------------------------------------------------------
(* The abstract attacks.                                                   *)

UnderWay(e) == AttackOf(e) \in {"armed", "spent"}

(* An inductive invariant of AbstractAttack: one attack at a time, and the *)
(* value is touched only by one that is spent.                             *)
AttackInv ==
  /\ \A e, f \in Executions : UnderWay(e) /\ UnderWay(f) => e = f
  /\ value # Initial => \E e \in Executions : AttackOf(e) = "spent"

LEMMA AttackStays ==
  ASSUME AttackInv, [Attack!Next]_<< value, attacks >>
  PROVE  AttackInv'
<1>0. \A e \in Executions : AttackOf(e)' = attacks'[e] /\ AttackOf(e) = attacks[e]
  BY DEF attacks
<1>1. CASE UNCHANGED << value, attacks >>
  <2>1. \A e \in Executions : AttackOf(e)' = AttackOf(e)
    BY <1>0, <1>1
  <2>. QED
    BY <1>1, <2>1 DEF AttackInv, UnderWay
<1>2. ASSUME NEW d \in Executions,
             Attack!Begin(d) \/ Attack!Change(d) \/ Attack!Disarm(d)
               \/ Attack!Restore(d) \/ Attack!End(d)
      PROVE  AttackInv'
  <2>. USE DEF Attack!Become
  <2>2. d \in DOMAIN attacks /\ \A e \in Executions : e \in DOMAIN attacks
    BY DEF attacks
  <2>0. \E state : attacks' = [attacks EXCEPT ![d] = state]
    BY <1>2 DEF Attack!Begin, Attack!Change, Attack!Disarm, Attack!Restore, Attack!End
  <2>1. \A e \in Executions \ {d} : AttackOf(e)' = AttackOf(e)
    BY <1>0, <2>0, <2>2
  <2>3. CASE Attack!Begin(d)
    <3>1. AttackOf(d)' = "armed" /\ value' = value
      BY <1>0, <2>2, <2>3 DEF Attack!Begin
    <3>2. \A e \in Executions : AttackOf(e) \in {"new", "done"}
      BY <1>0, <2>3 DEF Attack!Begin
    <3>. QED
      BY <2>1, <3>1, <3>2 DEF AttackInv, UnderWay
  <2>4. CASE Attack!Change(d)
    <3>1. AttackOf(d) = "armed" /\ AttackOf(d)' = "spent"
      BY <1>0, <2>2, <2>4 DEF Attack!Change
    <3>. QED
      BY <2>1, <3>1 DEF AttackInv, UnderWay
  <2>5. CASE Attack!Disarm(d)
    <3>1. AttackOf(d) = "armed" /\ AttackOf(d)' = "spent" /\ value' = value
      BY <1>0, <2>2, <2>5 DEF Attack!Disarm
    <3>. QED
      BY <2>1, <3>1 DEF AttackInv, UnderWay
  <2>6. CASE Attack!Restore(d)
    <3>1. AttackOf(d) = "spent" /\ AttackOf(d)' \in {"spent", "done"} /\ value' = Initial
      BY <1>0, <2>2, <2>6 DEF Attack!Restore
    <3>. QED
      BY <2>1, <3>1 DEF AttackInv, UnderWay
  <2>7. CASE Attack!End(d)
    <3>1. UnderWay(d) /\ AttackOf(d)' = "done" /\ value = Initial /\ value' = value
      BY <1>0, <2>2, <2>7 DEF Attack!End, UnderWay
    <3>. QED
      BY <2>1, <3>1 DEF AttackInv, UnderWay
  <2>. QED
    BY <1>2, <2>3, <2>4, <2>5, <2>6, <2>7
<1>. QED
  BY <1>1, <1>2 DEF Attack!Next

(* A step that concerns one execution.                                     *)
LEMMA AttackMoves ==
  ASSUME NEW d \in Executions, NEW state, AttackOf(d)' = state,
         \A e \in Executions \ {d} : AttackOf(e)' = AttackOf(e)
  PROVE  attacks' = [attacks EXCEPT ![d] = state]
BY DEF attacks

(* An execution whose phase, Stop, process and request stay as they are.   *)
LEMMA OthersStay ==
  ASSUME NEW e, phase'[e] = phase[e], stop'[e] = stop[e],
         process'[e] = "running" <=> process[e] = "running", e \in inflight' <=> e \in inflight
  PROVE  AttackOf(e)' = AttackOf(e)
BY DEF AttackOf, MayChange

(* Every step of an undisturbed attack is one of AbstractAttack's, or none *)
(* at all.                                                                 *)
LEMMA AttackStep ==
  ASSUME PreconditionsAnswer, KubectlInv, RestoreInv, AttackInv, Reversible, [Next]_vars
  PROVE  [Attack!Next]_<< value, attacks >>
<1>. DEFINE Abstract == [Attack!Next]_<< value, attacks >>
<1>t. /\ TypeOK /\ setting \in Setting
      /\ \A e \in Executions : Consistent(e) /\ HasOptions(e) /\ NothingLeft(e)
  BY KubectlAssumption DEF KubectlInv, TypeOK
<1>r. /\ value # Gone
      /\ \A e, f \in Executions : Active(e) /\ Active(f) => e = f
      /\ value # Initial => \E e \in spawned : Active(e)
      /\ \A e \in Executions : Active(e) =>
           /\ opts[e].command.writes \in Values
           /\ opts[e].rollback # Never /\ opts[e].rollback.writes = Initial
  <2>1. /\ value # Gone
        /\ \A e, f \in Executions : Active(e) /\ Active(f) => e = f
        /\ \A e \in Executions : Active(e) => opts[e] = OptionsFor(e, Initial)
        /\ value # Initial => \E e \in spawned : Active(e)
    BY DEF RestoreInv, Reversible
  <2>2. setting.attack # "deletePod" /\ Initial \in Field
    BY KubectlAssumption DEF Reversible, Field
  <2>. QED
    BY <1>t, <2>1, <2>2, RollbackFacts
<1>u. setting.oneAtATime /\ ~setting.othersWrite /\ ~setting.lateRequests /\ ~setting.lostStarts
  BY DEF Reversible, Undisturbed
<1>a. \A e \in Executions : UnderWay(e) <=> Active(e)
  BY DEF UnderWay, AttackOf, Active
<1>v. \A e \in Executions : AttackOf(e) = "armed" => value = Initial
  BY <1>a, <1>r DEF AttackInv, UnderWay
<1>m. ASSUME NEW d \in Executions, NEW state \in {"new", "armed", "spent", "done"},
             AttackOf(d)' = state, \A e \in Executions \ {d} : AttackOf(e)' = AttackOf(e)
      PROVE  Attack!Become(d, state) /\ attacks[d] = AttackOf(d)
  BY <1>m, AttackMoves DEF Attack!Become, attacks
<1>d. ASSUME NEW d \in Executions, value' = value,
             \A e \in Executions \ {d} : AttackOf(e)' = AttackOf(e),
             AttackOf(d)' = AttackOf(d) \/ (AttackOf(d) = "armed" /\ AttackOf(d)' = "spent")
      PROVE  Abstract
  <2>1. CASE AttackOf(d)' = AttackOf(d)
    <3>1. attacks' = attacks
      BY <1>d, <2>1 DEF attacks
    <3>. QED
      BY <1>d, <3>1
  <2>2. CASE AttackOf(d) = "armed" /\ AttackOf(d)' = "spent"
    <3>1. Attack!Disarm(d)
      BY <1>d, <1>m, <2>2 DEF Attack!Disarm
    <3>. QED
      BY <3>1 DEF Attack!Next
  <2>. QED
    BY <1>d, <2>1, <2>2
<1>1. ASSUME NEW d \in Executions, Prepare(d) PROVE Abstract
  <2>1. /\ phase[d] = "new" /\ phase' = [phase EXCEPT ![d] = "prepared"] /\ stop[d] = "idle"
        /\ UNCHANGED << value, stop, process, inflight >> /\ Inactive = Executions
    BY <1>1, <1>t, <1>u DEF Prepare, Consistent, command
  <2>2. \A e \in Executions : AttackOf(e) \in {"new", "done"}
    BY <2>1 DEF Inactive, AttackOf
  <2>3. AttackOf(d) = "new" /\ AttackOf(d)' = "armed"
    BY <1>t, <2>1 DEF AttackOf, MayChange, TypeOK
  <2>4. \A e \in Executions \ {d} : AttackOf(e)' = AttackOf(e)
    BY <1>t, <2>1, OthersStay DEF TypeOK
  <2>5. \A e \in Executions : attacks[e] \in {"new", "done"}
    BY <2>2 DEF attacks
  <2>6. Attack!Begin(d)
    BY <1>m, <2>1, <2>3, <2>4, <2>5 DEF Attack!Begin
  <2>. QED
    BY <2>6 DEF Attack!Next
<1>2. ASSUME NEW d \in Executions, Start(d) \/ StartFails(d) PROVE Abstract
  <2>1. /\ phase[d] = "prepared" /\ stop[d] = "idle" /\ phase'[d] # "new"
        /\ UNCHANGED << value, stop, inflight >>
        /\ \A e \in Executions \ {d} : phase'[e] = phase[e] /\ process'[e] = process[e]
    BY <1>2, <1>t DEF Start, StartFails, Spawn, TypeOK
  <2>2. AttackOf(d) = "armed" /\ AttackOf(d)' \in {"armed", "spent"}
    BY <2>1 DEF AttackOf, MayChange
  <2>. QED
    BY <1>d, <2>1, <2>2, OthersStay
<1>3. ASSUME NEW d \in Executions, SendRequest(d) \/ GiveUp(d) \/ Refuse(d)
                                   \/ Exit(d) \/ KilledBySignal(d)
      PROVE  Abstract
  <2>1. /\ UNCHANGED << value, phase, stop >>
        /\ \A e \in Executions \ {d} : process'[e] = process[e] /\ (e \in inflight' <=> e \in inflight)
        /\ process'[d] = "running" \/ d \in inflight' => process[d] = "running" \/ d \in inflight
    BY <1>3, <1>t DEF SendRequest, GiveUp, Refuse, Answer, Exit, KilledBySignal, platform, TypeOK
  <2>2. AttackOf(d)' = AttackOf(d) \/ (AttackOf(d) = "armed" /\ AttackOf(d)' = "spent")
    BY <2>1 DEF AttackOf, MayChange
  <2>. QED
    BY <1>d, <2>1, <2>2, OthersStay
<1>4. ASSUME NEW d \in Executions, Accept(d) PROVE Abstract
  <2>1. /\ d \in inflight /\ inflight' = inflight \ {d} /\ UNCHANGED << phase, stop >>
        /\ value' = opts[d].command.writes
        /\ \E outcome \in {"answered", "exit1"} : Answer(d, outcome)
    BY <1>4 DEF Accept, platform
  <2>2. /\ process'[d] # "running"
        /\ \A e \in Executions \ {d} : process'[e] = process[e]
    BY <1>t, <2>1 DEF Answer, TypeOK
  <2>3. d \in spawned /\ phase[d] = "started"
    BY <1>t, <1>u, <2>1 DEF Consistent
  <2>4. opts[d].rollback # Never
    BY <1>t, <2>3, RollbackFacts DEF HasOptions, Reversible
  <2>5. Active(d)
    BY <1>t, <1>u, <2>1, <2>3, <2>4 DEF NothingLeft, Active
  <2>6. AttackOf(d) = "armed" /\ AttackOf(d)' = "spent"
    BY <2>1, <2>2, <2>3, <2>5 DEF AttackOf, MayChange, Active
  <2>7. \A e \in Executions \ {d} : AttackOf(e)' = AttackOf(e)
    BY <2>1, <2>2, OthersStay
  <2>8. Attack!Change(d)
    BY <1>m, <1>r, <1>v, <2>1, <2>5, <2>6, <2>7 DEF Attack!Change
  <2>. QED
    BY <2>8 DEF Attack!Next
<1>5. ASSUME NEW d \in Executions, Status(d) PROVE Abstract
  <2>1. UNCHANGED << value, phase, stop, process, inflight >>
    BY <1>5 DEF Status, StatusLost, StatusExited, command
  <2>. QED
    BY <1>d, <2>1, OthersStay
<1>6. ASSUME NEW d \in Executions, StopCall(d) PROVE Abstract
  <2>1. /\ Active(d) /\ UNCHANGED << value, phase, inflight >>
        /\ \A e \in Executions \ {d} : process'[e] = process[e] /\ stop'[e] = stop[e]
    BY <1>6, <1>t DEF StopCall, Stoppable, Active, platform, TypeOK
  <2>2. \A e \in Executions \ {d} : AttackOf(e)' = AttackOf(e)
    BY <2>1, OthersStay
  <2>3. CASE d \notin spawned
    <3>1. stop'[d] = "done" /\ value = Initial
      BY <1>6, <1>r, <1>t, <2>1, <2>3 DEF StopCall, TypeOK
    <3>2. UnderWay(d) /\ AttackOf(d)' = "done"
      BY <1>a, <2>1, <3>1 DEF AttackOf, Active
    <3>3. Attack!End(d)
      BY <1>m, <2>1, <2>2, <3>1, <3>2 DEF Attack!End, UnderWay
    <3>. QED
      BY <3>3 DEF Attack!Next
  <2>4. CASE d \in spawned
    <3>1. /\ stop'[d] = AfterKill(d) /\ phase[d] = "started"
          /\ process'[d] = "running" => process[d] = "running"
      BY <1>6, <1>t, <2>4 DEF StopCall, TypeOK, Consistent
    <3>2. AfterKill(d) # "done" /\ AfterKill(d) # "idle"
      BY <1>r, <2>1 DEF AfterKill
    <3>3. AttackOf(d)' = AttackOf(d) \/ (AttackOf(d) = "armed" /\ AttackOf(d)' = "spent")
      BY <2>1, <3>1, <3>2 DEF AttackOf, MayChange, Active
    <3>. QED
      BY <1>d, <2>1, <2>2, <3>3
  <2>. QED
    BY <2>3, <2>4
<1>7. ASSUME NEW d \in Executions, StopStep(d) PROVE Abstract
  <2>1. /\ stop[d] \in {"precondition", "rollback"} /\ d \notin inflight
        /\ UNCHANGED << phase, process, inflight >>
        /\ \A e \in Executions \ {d} : stop'[e] = stop[e]
    BY <1>7, <1>t, <1>u DEF StopStep, StopPrecondition, StopPreconditionFails, StopRollback,
       StopRollbackFails, Settled, platform, command, TypeOK
  <2>2. Active(d) /\ phase[d] = "started" /\ process[d] # "running"
    BY <1>t, <2>1 DEF Consistent, Active, Alive
  <2>3. \A e \in Executions \ {d} : AttackOf(e)' = AttackOf(e)
    BY <2>1, OthersStay
  <2>4. AttackOf(d) = "spent"
    BY <2>1, <2>2 DEF AttackOf, MayChange
  <2>5. CASE StopRollback(d)
    <3>1. value' = Initial /\ stop'[d] \in {"done", "failed"}
      BY <1>r, <1>t, <2>2, <2>5 DEF StopRollback, TypeOK
    <3>2. AttackOf(d)' \in {"spent", "done"}
      BY <2>1, <2>2, <3>1 DEF AttackOf, MayChange
    <3>3. Attack!Restore(d)
      BY <1>m, <2>3, <2>4, <3>1, <3>2 DEF Attack!Restore
    <3>. QED
      BY <3>3 DEF Attack!Next
  <2>6. CASE StopPrecondition(d) \/ StopRollbackFails(d)
    <3>1. value' = value /\ stop'[d] \in {"rollback", "failed"}
      BY <1>t, <2>6 DEF StopPrecondition, StopRollbackFails, TypeOK
    <3>2. AttackOf(d)' = AttackOf(d)
      BY <2>1, <2>2, <3>1 DEF AttackOf, MayChange, Active
    <3>. QED
      BY <1>d, <2>3, <3>1, <3>2
  <2>7. ~StopPreconditionFails(d)
    <3> SUFFICES ASSUME StopPreconditionFails(d) PROVE FALSE
      OBVIOUS
    <3>1. stop[d] = "precondition" /\ setting.lostAnswers
      BY <1>r DEF StopPreconditionFails
    <3>2. setting.attack = "drain" /\ setting \in Settings
      BY <1>t, <3>1 DEF RestoreInv, Reversible, TypeOK
    <3> QED
      BY <3>1, <3>2 DEF PreconditionsAnswer
  <2>. QED
    BY <1>7, <2>5, <2>6, <2>7 DEF StopStep
<1>8. ASSUME Crash PROVE Abstract
  <2>1. /\ UNCHANGED << value, phase, inflight >>
        /\ \A e \in Executions :
             /\ process'[e] = "running" => process[e] = "running"
             /\ stop'[e] = "idle" <=> stop[e] = "idle"
             /\ stop'[e] = "done" <=> stop[e] = "done"
    BY <1>8, <1>t DEF Crash, platform, TypeOK, Alive
  <2>2. \A e \in Executions :
          AttackOf(e)' = AttackOf(e) \/ (AttackOf(e) = "armed" /\ AttackOf(e)' = "spent")
    BY <2>1 DEF AttackOf, MayChange
  <2>3. CASE \A e \in Executions : AttackOf(e)' = AttackOf(e)
    <3>1. attacks' = attacks
      BY <2>3 DEF attacks
    <3>. QED
      BY <2>1, <3>1
  <2>4. ASSUME NEW d \in Executions, AttackOf(d)' # AttackOf(d) PROVE Abstract
    <3>1. AttackOf(d) = "armed" /\ AttackOf(d)' = "spent"
      BY <2>2, <2>4
    <3>2. \A e \in Executions \ {d} : AttackOf(e)' = AttackOf(e)
      BY <2>2, <3>1 DEF AttackInv, UnderWay
    <3>. QED
      BY <1>d, <2>1, <3>1, <3>2
  <2>. QED
    BY <2>3, <2>4
<1>9. ASSUME CacheSync \/ UNCHANGED vars PROVE Abstract
  <2>1. UNCHANGED << value, phase, stop, process, inflight >>
    BY <1>9 DEF CacheSync, vars, platform, command
  <2>2. \A e \in Executions : AttackOf(e)' = AttackOf(e)
    BY <2>1, OthersStay
  <2>3. attacks' = attacks
    BY <2>2 DEF attacks
  <2>. QED
    BY <2>1, <2>3
<1>10. ~OtherWrite /\ \A e \in Executions : ~StartUnanswered(e)
  BY <1>u DEF OtherWrite, StartUnanswered
<1>. HIDE DEF Abstract
<1>11. Abstract
  BY <1>1, <1>2, <1>3, <1>4, <1>5, <1>6, <1>7, <1>8, <1>9, <1>10 DEF Next, CommandStep
<1>. QED
  BY <1>11 DEF Abstract


(* Undisturbed, every attack but a deletion implements AbstractAttack, for *)
(* drain if its precondition is answered: none begins while another is     *)
(* under way, none changes the target twice or after it was restored, and  *)
(* none ends before that.                                                  *)
THEOREM AttacksAreOrderly ==
  ASSUME PreconditionsAnswer
  PROVE  Spec => ImplementsAttack
<1>1. Init => Attack!Init /\ AttackInv
  <2>. SUFFICES ASSUME Init PROVE Attack!Init /\ AttackInv
    OBVIOUS
  <2>1. \A e \in Executions : AttackOf(e) = "new"
    BY DEF Init, AttackOf
  <2>. QED
    BY <2>1 DEF Init, Attack!Init, attacks, AttackInv, UnderWay
<1>2. Reversible /\ [Next]_vars => Reversible'
  <2>. SUFFICES ASSUME Reversible, [Next]_vars PROVE setting' = setting
    BY DEF Reversible, Undisturbed
  <2>. QED
    BY SettingStays
<1>3. KubectlInv /\ RestoreInv /\ AttackInv /\ Reversible /\ [Next]_vars
        => AttackInv' /\ [Attack!Next]_<< value, attacks >>
  BY AttackStep, AttackStays
<1>4. Init => RestoreInv
  BY KubectlAssumption DEF Init, RestoreInv, Active
<1>5. KubectlInv /\ RestoreInv /\ [Next]_vars => RestoreInv'
  BY RestoreStep
<1>. QED
  BY <1>1, <1>2, <1>3, <1>4, <1>5, KubectlInvHolds, PTL DEF Spec, ImplementsAttack, Attack!Spec

=============================================================================
