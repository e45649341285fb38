------------------------ MODULE IngressTrafficProofs ------------------------
(***************************************************************************)
(* Theorems about IngressTraffic, for every set of executions, users and   *)
(* keys and every number of retries: the types, the invariant optimistic   *)
(* concurrency rests on, the refinement of AbstractIngress, and from these *)
(* what the executions may expect of one another's and of users' writes.   *)
(***************************************************************************)
EXTENDS IngressTraffic, AnnotationTextProofs

(***************************************************************************)
(* Type correctness                                                        *)
(***************************************************************************)
(* An execution has two handlers.                                          *)
LEMMA HandlerOf ==
  \A e \in Executions :
    StartOf(e) \in Handlers /\ StopOf(e) \in Handlers /\ StartOf(e) # StopOf(e)
BY DEF StartOf, StopOf, Handlers

(* The state starts out well typed.                                        *)
LEMMA InitType == Init => TypeOK
<1>. SUFFICES ASSUME Init
              PROVE  TypeOK
  OBVIOUS
<1>1. NoText \in [Keys -> Text]
  BY DEF NoText, Text
<1>. QED
  BY <1>1, IngressAssumption DEF Init, TypeOK, PcValue

(* A handler that leaves its loop.                                         *)
LEMMA LeaveType ==
  ASSUME TypeOK, NEW h \in Handlers, NEW outcome \in PcValue, Leave(h, outcome)
  PROVE  /\ pc' \in [Handlers -> PcValue]
         /\ attempt' \in [Handlers -> 0 .. MaxRetries - 1]
         /\ copy' \in [Handlers -> [Keys -> Text]]
<1>1. NoText \in [Keys -> Text]
  BY DEF NoText, Text
<1>2. 0 \in 0 .. MaxRetries - 1
  BY IngressAssumption
<1>. QED
  BY <1>1, <1>2 DEF Leave, TypeOK

(* A write leaves a text under each key.                                   *)
LEMMA WriteType ==
  ASSUME TypeOK, NEW h \in Handlers, NEW e \in Executions,
         NEW newValue \in Text, Write(h, newValue, e)
  PROVE  /\ exists' \in BOOLEAN
         /\ ann' \in [Keys -> Text]
         /\ current' \subseteq Handlers
BY DEF Write, TypeOK

(* What the two loops compute from a copy is a text.                       *)
LEMMA NewValuesType ==
  ASSUME TypeOK, NEW e \in Executions
  PROVE  NewStartValue(e) \in Text /\ NewStopValue(e) \in Text
<1>1. KeyOf[e] \in Keys
  BY IngressAssumption
<1>2. /\ copy[StartOf(e)][KeyOf[e]] \in Text
      /\ copy[StopOf(e)][KeyOf[e]] \in Text
  BY <1>1, HandlerOf DEF TypeOK
<1>. QED
  BY <1>2, EditsOfTheAttacks DEF NewStartValue, NewStopValue

(* Reading the ingress keeps the types.                                    *)
LEMMA FetchType ==
  ASSUME TypeOK, NEW h \in Handlers, Fetch(h)
  PROVE  TypeOK'
BY DEF Fetch, TypeOK, PcValue, InLoop, server

(* So does a request that fails.                                           *)
LEMMA RequestFailsType ==
  ASSUME TypeOK, NEW h \in Handlers, RequestFails(h)
  PROVE  TypeOK'
<1>1. "error" \in PcValue
  BY DEF PcValue
<1>2. Leave(h, "error") /\ current' = current \ {h} /\ UNCHANGED server
  BY DEF RequestFails
<1>. QED
  BY <1>1, <1>2, LeaveType DEF TypeOK, server

(* A conflict counts attempts, but never beyond MaxRetries.                *)
LEMMA ConflictType ==
  ASSUME TypeOK, NEW h \in Handlers, Conflict(h)
  PROVE  TypeOK'
<1>1. CASE attempt[h] + 1 < MaxRetries
  <2>1. NoText \in [Keys -> Text]
    BY DEF NoText, Text
  <2>2. attempt[h] + 1 \in 0 .. MaxRetries - 1
    BY <1>1, IngressAssumption DEF TypeOK
  <2>. QED
    BY <1>1, <2>1, <2>2 DEF Conflict, TypeOK, PcValue, InLoop, server
<1>2. CASE ~(attempt[h] + 1 < MaxRetries)
  <2>1. "error" \in PcValue
    BY DEF PcValue
  <2>2. Leave(h, "error") /\ UNCHANGED << server, current >>
    BY <1>2 DEF Conflict
  <2>. QED
    BY <2>1, <2>2, LeaveType DEF TypeOK, server
<1>. QED
  BY <1>1, <1>2

(* Every step of a Start keeps the types.                                  *)
LEMMA StartStepType ==
  ASSUME TypeOK, NEW e \in Executions, StartStep(e)
  PROVE  TypeOK'
<1>. USE HandlerOf
<1>1. CASE StartFetch(e)
  BY <1>1, FetchType DEF StartFetch
<1>2. CASE StartUpdate(e)
  <2>1. /\ Write(StartOf(e), NewStartValue(e), e)
        /\ applied' = applied \cup {e}
        /\ pc' = [pc EXCEPT ![StartOf(e)] = "events"]
        /\ copy' = [copy EXCEPT ![StartOf(e)] = ann']
        /\ UNCHANGED attempt
    BY <1>2 DEF StartUpdate
  <2>2. exists' \in BOOLEAN /\ ann' \in [Keys -> Text] /\ current' \subseteq Handlers
    BY <2>1, WriteType, NewValuesType
  <2>. QED
    BY <2>1, <2>2 DEF TypeOK, PcValue, InLoop
<1>3. CASE StartUpdateUnanswered(e)
  <2>1. /\ Write(StartOf(e), NewStartValue(e), e)
        /\ applied' = applied \cup {e}
        /\ Leave(StartOf(e), "error")
    BY <1>3 DEF StartUpdateUnanswered
  <2>2. exists' \in BOOLEAN /\ ann' \in [Keys -> Text] /\ current' \subseteq Handlers
    BY <2>1, WriteType, NewValuesType
  <2>3. "error" \in PcValue
    BY DEF PcValue
  <2>. QED
    BY <2>1, <2>2, <2>3, LeaveType DEF TypeOK
<1>4. CASE StartSucceeds(e)
  <2>1. "running" \in PcValue /\ Leave(StartOf(e), "running") /\ UNCHANGED << server, current >>
    BY <1>4 DEF StartSucceeds, PcValue
  <2>. QED
    BY <2>1, LeaveType DEF TypeOK, server
<1>5. CASE StartFails(e)
  <2>1. "error" \in PcValue /\ Leave(StartOf(e), "error") /\ UNCHANGED << server, current >>
    BY <1>5 DEF StartFails, PcValue
  <2>. QED
    BY <2>1, LeaveType DEF TypeOK, server
<1>6. CASE RequestFails(StartOf(e))
  BY <1>6, RequestFailsType
<1>7. CASE Conflict(StartOf(e))
  BY <1>7, ConflictType
<1>. QED
  BY <1>1, <1>2, <1>3, <1>4, <1>5, <1>6, <1>7 DEF StartStep

(* Every step of a Stop keeps the types.                                   *)
LEMMA StopStepType ==
  ASSUME TypeOK, NEW e \in Executions, StopStep(e)
  PROVE  TypeOK'
<1>. USE HandlerOf
<1>. "stopped" \in PcValue /\ "error" \in PcValue
  BY DEF PcValue
<1>1. CASE StopFetchNothing(e)
  <2>1. Leave(StopOf(e), "stopped") /\ UNCHANGED << server, current >>
    BY <1>1 DEF StopFetchNothing
  <2>. QED
    BY <2>1, LeaveType DEF TypeOK, server
<1>2. CASE StopFetch(e)
  BY <1>2, FetchType DEF StopFetch
<1>3. CASE StopUpdate(e)
  <2>1. PICK outcome \in {"stopped", "error"} :
          /\ Write(StopOf(e), NewStopValue(e), e)
          /\ Leave(StopOf(e), outcome)
          /\ UNCHANGED applied
    BY <1>3 DEF StopUpdate
  <2>2. exists' \in BOOLEAN /\ ann' \in [Keys -> Text] /\ current' \subseteq Handlers
    BY <2>1, WriteType, NewValuesType
  <2>. QED
    BY <2>1, <2>2, LeaveType DEF TypeOK
<1>4. CASE RequestFails(StopOf(e))
  BY <1>4, RequestFailsType
<1>5. CASE Conflict(StopOf(e))
  BY <1>5, ConflictType
<1>. QED
  BY <1>1, <1>2, <1>3, <1>4, <1>5 DEF StopStep

(* Every call of the platform keeps the types.                             *)
LEMMA CallType ==
  ASSUME TypeOK, NEW e \in Executions, Call(e)
  PROVE  TypeOK'
BY HandlerOf DEF Call, Prepare, PrepareFails, StartCall, StopCall, Enter,
                 TypeOK, PcValue, InLoop, server

(* So do users, other writers and restarts of the extension.               *)
LEMMA OtherStepsType ==
  ASSUME TypeOK, Environment \/ Crash
  PROVE  TypeOK'
<1>1. NoText \in [Keys -> Text]
  BY DEF NoText, Text
<1>2. CASE UserEdit
  <2>0. PICK k \in Keys :
          \E text \in UserEdits(ann[k]) : ann' = [ann EXCEPT ![k] = text]
    BY <1>2 DEF UserEdit
  <2>1. PICK text \in UserEdits(ann[k]) : ann' = [ann EXCEPT ![k] = text]
    BY <2>0
  <2>2. text \in Text
    BY <2>1, EditsOfOthers DEF TypeOK
  <2>. QED
    BY <1>2, <2>1, <2>2 DEF UserEdit, TypeOK
<1>3. CASE UnrelatedWrite
  BY <1>3 DEF UnrelatedWrite, TypeOK, server
<1>4. CASE DeleteOrCreate
  BY <1>1, <1>4 DEF DeleteOrCreate, TypeOK
<1>5. CASE Crash
  BY <1>1, <1>5, IngressAssumption DEF Crash, TypeOK, server, PcValue
<1>. QED
  BY <1>2, <1>3, <1>4, <1>5 DEF Environment

(* TypeOK is inductive.                                                    *)
LEMMA NextType == TypeOK /\ [Next]_vars => TypeOK'
<1>. SUFFICES ASSUME TypeOK, [Next]_vars
              PROVE  TypeOK'
  OBVIOUS
<1>1. CASE UNCHANGED vars
  BY <1>1 DEF vars, TypeOK
<1>2. CASE Next
  BY <1>2, CallType, StartStepType, StopStepType, OtherStepsType DEF Next
<1>. QED
  BY <1>1, <1>2

(* Every variable keeps its type (client.UpdateIngressAnnotation,          *)
(* RemoveIngressAnnotationBlock and the handlers around them); in          *)
(* particular no edit of an annotation yields anything but a text, and no  *)
(* loop makes more than MaxRetries attempts.                               *)
THEOREM TypeCorrect == Spec => []TypeOK
<1>1. Init => TypeOK
  BY InitType
<1>2. TypeOK /\ [Next]_vars => TypeOK'
  BY NextType
<1>. QED
  BY <1>1, <1>2, PTL DEF Spec
(***************************************************************************)
(* The inductive invariant                                                 *)
(***************************************************************************)
(* At first no handler has a copy and no block is there.                   *)
LEMMA InitInv == Init => IInv
BY InitType DEF Init, IInv, CurrentCopies, AppliedOnce

(* A Start reads before it writes, and writes once.                        *)
LEMMA StartStepInv ==
  ASSUME IInv, NEW e \in Executions, StartStep(e)
  PROVE  CurrentCopies' /\ AppliedOnce'
<1>. USE HandlerOf DEF IInv, TypeOK, CurrentCopies, AppliedOnce
<1>1. CASE StartFetch(e)
  BY <1>1 DEF StartFetch, Fetch, server
<1>2. CASE StartUpdate(e)
  BY <1>2 DEF StartUpdate, Write
<1>3. CASE StartUpdateUnanswered(e)
  BY <1>3 DEF StartUpdateUnanswered, Write, Leave
<1>4. CASE StartSucceeds(e)
  BY <1>4 DEF StartSucceeds, Leave, server
<1>5. CASE StartFails(e)
  BY <1>5 DEF StartFails, Leave, server
<1>6. CASE RequestFails(StartOf(e))
  BY <1>6 DEF RequestFails, Leave, server
<1>7. CASE Conflict(StartOf(e))
  BY <1>7 DEF Conflict, Leave, server
<1>. QED
  BY <1>1, <1>2, <1>3, <1>4, <1>5, <1>6, <1>7 DEF StartStep

(* A Stop never moves the program counter of a Start.                      *)
LEMMA StopStepInv ==
  ASSUME IInv, NEW e \in Executions, StopStep(e)
  PROVE  CurrentCopies' /\ AppliedOnce'
<1>. \A f \in Executions : StartOf(f) \in Handlers /\ StartOf(f) # StopOf(e)
  BY DEF StartOf, StopOf, Handlers
<1>. USE HandlerOf DEF IInv, TypeOK, CurrentCopies, AppliedOnce
<1>1. CASE StopFetchNothing(e)
  BY <1>1 DEF StopFetchNothing, Leave, server
<1>2. CASE StopFetch(e)
  BY <1>2 DEF StopFetch, Fetch, server
<1>3. CASE StopUpdate(e)
  BY <1>3 DEF StopUpdate, Write, Leave
<1>4. CASE RequestFails(StopOf(e))
  BY <1>4 DEF RequestFails, Leave, server
<1>5. CASE Conflict(StopOf(e))
  BY <1>5 DEF Conflict, Leave, server
<1>. QED
  BY <1>1, <1>2, <1>3, <1>4, <1>5 DEF StopStep

(* A call gives no handler a copy, and restarts no Start.                  *)
LEMMA CallInv ==
  ASSUME IInv, NEW e \in Executions, Call(e)
  PROVE  CurrentCopies' /\ AppliedOnce'
<1>. \A f \in Executions : StartOf(f) \in Handlers /\ StartOf(f) # StopOf(e)
  BY DEF StartOf, StopOf, Handlers
<1>. USE HandlerOf DEF IInv, TypeOK, CurrentCopies, AppliedOnce, server
<1>1. CASE Prepare(e)
  BY <1>1 DEF Prepare
<1>2. CASE PrepareFails(e)
  BY <1>2 DEF PrepareFails
<1>3. CASE StartCall(e)
  BY <1>3 DEF StartCall, Enter
<1>4. CASE StopCall(e)
  BY <1>4 DEF StopCall, Enter
<1>. QED
  BY <1>1, <1>2, <1>3, <1>4 DEF Call

(* Whoever else writes the ingress takes the current copies away.          *)
LEMMA OtherStepsInv ==
  ASSUME IInv, Environment \/ Crash
  PROVE  CurrentCopies' /\ AppliedOnce'
<1>. \A f \in Executions : StartOf(f) \in Handlers
  BY HandlerOf
<1>. USE DEF IInv, TypeOK, CurrentCopies, AppliedOnce, server
<1>1. CASE UserEdit
  BY <1>1 DEF UserEdit
<1>2. CASE UnrelatedWrite
  BY <1>2 DEF UnrelatedWrite
<1>3. CASE DeleteOrCreate
  BY <1>3 DEF DeleteOrCreate
<1>4. CASE Crash
  BY <1>4 DEF Crash, InLoop
<1>. QED
  BY <1>1, <1>2, <1>3, <1>4 DEF Environment

(* IInv is inductive.                                                      *)
LEMMA NextInv == IInv /\ [Next]_vars => IInv'
<1>. SUFFICES ASSUME IInv, [Next]_vars
              PROVE  IInv'
  OBVIOUS
<1>1. TypeOK'
  BY NextType DEF IInv
<1>2. CurrentCopies' /\ AppliedOnce'
  <2>1. CASE UNCHANGED vars
    BY <2>1 DEF vars, IInv, CurrentCopies, AppliedOnce
  <2>2. CASE Next
    BY <2>2, CallInv, StartStepInv, StopStepInv, OtherStepsInv DEF Next
  <2>. QED
    BY <2>1, <2>2
<1>. QED
  BY <1>1, <1>2 DEF IInv

(* Every reachable state satisfies IInv.                                   *)
THEOREM Invariance == Spec => []IInv
<1>. QED
  BY InitInv, NextInv, PTL DEF Spec

(* A copy the server would accept is what the server has, so the edit that *)
(* is computed from the copy is an edit of the present text.               *)
THEOREM CopiesAreCurrent == Spec => []CurrentCopies
<1>1. IInv => CurrentCopies
  BY DEF IInv
<1>. QED
  BY <1>1, Invariance, PTL

(***************************************************************************)
(* The refinement                                                          *)
(***************************************************************************)
(* A Start adds the block to the present text, or changes nothing.         *)
LEMMA StartStepRefines ==
  ASSUME IInv, NEW e \in Executions, StartStep(e)
  PROVE  Abstract!Apply(e) \/ UNCHANGED Abstract!vars
<1>. USE HandlerOf DEF server, Abstract!vars
<1>1. CASE StartUpdate(e) \/ StartUpdateUnanswered(e)
  <2>1. /\ pc[StartOf(e)] = "update"
        /\ Write(StartOf(e), NewStartValue(e), e)
        /\ applied' = applied \cup {e}
    BY <1>1 DEF StartUpdate, StartUpdateUnanswered
  <2>2. e \notin applied
    BY <2>1 DEF IInv, AppliedOnce
  <2>3. copy[StartOf(e)] = ann
    BY <2>1 DEF IInv, CurrentCopies, Write
  <2>4. ann' = [ann EXCEPT ![KeyOf[e]] = PrependBlock(ann[KeyOf[e]], e)]
    BY <2>1, <2>3 DEF Write, NewStartValue
  <2>5. exists /\ UNCHANGED exists
    BY <2>1 DEF Write
  <2>. QED
    BY <2>1, <2>2, <2>4, <2>5 DEF Abstract!Apply
<1>2. CASE ~(StartUpdate(e) \/ StartUpdateUnanswered(e))
  BY <1>2 DEF StartStep, StartFetch, Fetch, StartSucceeds, StartFails,
              RequestFails, Conflict
<1>. QED
  BY <1>1, <1>2

(* A Stop cuts the block out of the present text, or changes nothing.      *)
LEMMA StopStepRefines ==
  ASSUME IInv, NEW e \in Executions, StopStep(e)
  PROVE  Abstract!Cut(e) \/ UNCHANGED Abstract!vars
<1>. USE HandlerOf DEF server, Abstract!vars
<1>1. CASE StopUpdate(e)
  <2>1. Write(StopOf(e), NewStopValue(e), e) /\ UNCHANGED applied
    BY <1>1 DEF StopUpdate
  <2>2. copy[StopOf(e)] = ann
    BY <2>1 DEF IInv, CurrentCopies, Write
  <2>3. ann' = [ann EXCEPT ![KeyOf[e]] = RemoveAnnotationBlock(ann[KeyOf[e]], e)]
    BY <2>1, <2>2 DEF Write, NewStopValue
  <2>. QED
    BY <2>1, <2>3 DEF Write, Abstract!Cut
<1>2. CASE ~StopUpdate(e)
  BY <1>2 DEF StopStep, StopFetchNothing, StopFetch, Fetch, RequestFails, Conflict
<1>. QED
  BY <1>1, <1>2

(* All other steps are those of users, or change nothing.                  *)
LEMMA OtherStepsRefine ==
  ASSUME Environment \/ Crash \/ \E e \in Executions : Call(e)
  PROVE  Abstract!UserEdit \/ Abstract!DeleteOrCreate \/ UNCHANGED Abstract!vars
BY DEF Environment, UserEdit, UnrelatedWrite, DeleteOrCreate, Crash, Call,
       Prepare, PrepareFails, StartCall, StopCall, Enter, server, NoText,
       Abstract!UserEdit, Abstract!DeleteOrCreate, Abstract!NoText, Abstract!vars

(* Every step is one of the abstract ingress, or changes nothing there.    *)
LEMMA StepRefines ==
  ASSUME IInv, [Next]_vars
  PROVE  Abstract!Next \/ UNCHANGED Abstract!vars
<1>1. CASE UNCHANGED vars
  BY <1>1 DEF vars, Abstract!vars
<1>2. CASE Next
  BY <1>2, StartStepRefines, StopStepRefines, OtherStepsRefine
     DEF Next, Abstract!Next
<1>. QED
  BY <1>1, <1>2

(* The attacks with their copies, retries, lost answers and crashes do     *)
(* what the atomic edits of AbstractIngress do.                            *)
THEOREM Refinement == Spec => Refines
<1>1. Init => Abstract!Init
  BY DEF Init, NoText, Abstract!Init, Abstract!NoText
<1>2. IInv /\ [Next]_vars => [Abstract!Next]_(Abstract!vars)
  BY StepRefines
<1>. QED
  BY <1>1, <1>2, Invariance, PTL DEF Spec, Refines, Abstract!Spec

(***************************************************************************)
(* The blocks in the text                                                  *)
(***************************************************************************)
(* An abstract step leaves whole blocks, each under its own key, and gives *)
(* a line to no execution that it does not apply.                          *)
LEMMA BlocksStep ==
  ASSUME IInv, BlocksWhole, [Next]_vars
  PROVE  /\ BlocksWhole'
         /\ \A e \in Executions, k \in Keys :
              HasLineOf(ann'[k], e) => HasLineOf(ann[k], e) \/ e \in applied' \ applied
<1>0. /\ ann \in [Keys -> Text] /\ \A f \in Executions : KeyOf[f] \in Keys
      /\ \A k \in Keys, e \in Executions : HasLineOf(ann[k], e) =>
           k = KeyOf[e] /\ e \in applied /\ HasWholeBlock(ann[k], e)
  BY IngressAssumption DEF IInv, TypeOK, BlocksWhole
<1>. SUFFICES ASSUME NEW k \in Keys, NEW e \in Executions, HasLineOf(ann'[k], e)
              PROVE  /\ k = KeyOf[e] /\ e \in applied' /\ HasWholeBlock(ann'[k], e)
                     /\ HasLineOf(ann[k], e) \/ e \in applied' \ applied
  BY DEF BlocksWhole
<1>1. ASSUME applied \subseteq applied', Spares(ann[k], ann'[k], e)
      PROVE  /\ k = KeyOf[e] /\ e \in applied' /\ HasWholeBlock(ann'[k], e)
             /\ HasLineOf(ann[k], e)
  BY <1>0, <1>1 DEF Spares
<1>2. ASSUME applied \subseteq applied', ann'[k] = ann[k]
      PROVE  /\ k = KeyOf[e] /\ e \in applied' /\ HasWholeBlock(ann'[k], e)
             /\ HasLineOf(ann[k], e)
  BY <1>0, <1>2
<1>3. CASE \E f \in Executions : Abstract!Apply(f)
  <2>1. PICK f \in Executions : Abstract!Apply(f)
    BY <1>3
  <2>2. /\ f \notin applied /\ applied' = applied \cup {f}
        /\ ann' = [ann EXCEPT ![KeyOf[f]] = PrependBlock(ann[KeyOf[f]], f)]
    BY <2>1 DEF Abstract!Apply
  <2>3. CASE k # KeyOf[f]
    BY <1>0, <1>2, <2>2, <2>3
  <2>4. CASE k = KeyOf[f] /\ e # f
    <3>1. ann'[k] = PrependBlock(ann[k], f)
      BY <1>0, <2>2, <2>4
    <3>2. Spares(ann[k], ann'[k], e)
      BY <1>0, <2>4, <3>1, PrependBlockKeeps
    <3>. QED
      BY <1>1, <2>2, <3>2
  <2>5. CASE k = KeyOf[f] /\ e = f
    <3>1. ann'[k] = PrependBlock(ann[k], e) /\ e \in applied' \ applied
      BY <1>0, <2>2, <2>5
    <3>2. ~HasLineOf(ann[k], e)
      BY <1>0, <3>1
    <3>3. HasWholeBlock(ann'[k], e)
      BY <1>0, <3>1, <3>2, PrependBlockKeeps
    <3>. QED
      BY <2>5, <3>1, <3>3
  <2>. QED
    BY <2>3, <2>4, <2>5
<1>4. CASE \E f \in Executions : Abstract!Cut(f)
  <2>1. PICK f \in Executions : Abstract!Cut(f)
    BY <1>4
  <2>2. /\ applied' = applied
        /\ ann' = [ann EXCEPT ![KeyOf[f]] = RemoveAnnotationBlock(ann[KeyOf[f]], f)]
    BY <2>1 DEF Abstract!Cut
  <2>3. CASE k # KeyOf[f]
    BY <1>0, <1>2, <2>2, <2>3
  <2>4. CASE k = KeyOf[f]
    <3>1. ann'[k] = RemoveAnnotationBlock(ann[k], f)
      BY <1>0, <2>2, <2>4
    <3>2. HasLineOf(ann[k], f) => HasWholeBlock(ann[k], f)
      BY <1>0
    <3>3. e # f /\ Spares(ann[k], ann'[k], e)
      BY <1>0, <3>1, <3>2, RemoveAnnotationBlockKeeps
    <3>. QED
      BY <1>1, <2>2, <3>3
  <2>. QED
    BY <2>3, <2>4
<1>5. CASE Abstract!UserEdit
  <2>1. PICK l \in Keys : \E text \in UserEdits(ann[l]) : ann' = [ann EXCEPT ![l] = text]
    BY <1>5 DEF Abstract!UserEdit
  <2>2. PICK text \in UserEdits(ann[l]) : ann' = [ann EXCEPT ![l] = text]
    BY <2>1
  <2>3. applied' = applied
    BY <1>5 DEF Abstract!UserEdit
  <2>4. CASE k = l
    <3>1. ann'[k] = text /\ Spares(ann[k], text, e)
      BY <1>0, <2>2, <2>4, UserEditsKeep
    <3>. QED
      BY <1>1, <2>3, <3>1
  <2>5. CASE k # l
    BY <1>0, <1>2, <2>2, <2>3, <2>5
  <2>. QED
    BY <2>4, <2>5
<1>6. CASE Abstract!DeleteOrCreate
  <2>1. ann'[k] = << >>
    BY <1>6 DEF Abstract!DeleteOrCreate, Abstract!NoText
  <2>. QED
    BY <2>1 DEF HasLineOf, ToSet
<1>7. CASE UNCHANGED Abstract!vars
  BY <1>2, <1>7 DEF Abstract!vars
<1>. QED
  BY <1>3, <1>4, <1>5, <1>6, <1>7, StepRefines DEF Abstract!Next

(* A block is in the annotation in one piece, once, under the key of its   *)
(* execution, and only if a Start of that execution wrote it, however the  *)
(* edits of several executions and of users follow one another.            *)
THEOREM BlocksStayWhole == Spec => []BlocksWhole
<1>1. Init => BlocksWhole
  BY DEF Init, NoText, BlocksWhole, HasLineOf, ToSet
<1>2. IInv /\ BlocksWhole /\ [Next]_vars => BlocksWhole'
  BY BlocksStep
<1>. QED
  BY <1>1, <1>2, Invariance, PTL DEF Spec

(* No update is lost, whatever the handlers read, when, and however often  *)
(* they try again: every line of users and of every other execution stays, *)
(* in its place among them.                                                *)
THEOREM NothingIsLost == Spec => NoLostUpdate
<1>. DEFINE Others(e) == (Executions \cup UserTexts) \ {e}
<1>1. ASSUME IInv, BlocksWhole, NEW e \in Executions, StartStep(e) \/ StopStep(e),
             NEW k \in Keys
      PROVE  LinesOf(ann'[k], Others(e)) = LinesOf(ann[k], Others(e))
  <2>0. /\ ann \in [Keys -> Text] /\ KeyOf[e] \in Keys /\ e \notin Others(e)
        /\ HasLineOf(ann[k], e) => HasWholeBlock(ann[k], e)
    BY <1>1, IngressAssumption DEF IInv, TypeOK, BlocksWhole
  <2>. HIDE DEF Others
  <2>1. CASE Abstract!Apply(e)
    <3>1. ann' = [ann EXCEPT ![KeyOf[e]] = PrependBlock(ann[KeyOf[e]], e)]
      BY <2>1 DEF Abstract!Apply
    <3>2. LinesOf(PrependBlock(ann[k], e), Others(e)) = LinesOf(ann[k], Others(e))
      BY <2>0, PrependBlockLinesOf
    <3>. QED
      BY <2>0, <3>1, <3>2
  <2>2. CASE Abstract!Cut(e)
    <3>1. ann' = [ann EXCEPT ![KeyOf[e]] = RemoveAnnotationBlock(ann[KeyOf[e]], e)]
      BY <2>2 DEF Abstract!Cut
    <3>2. LinesOf(RemoveAnnotationBlock(ann[k], e), Others(e)) = LinesOf(ann[k], Others(e))
      BY <2>0, RemoveAnnotationBlockLinesOf
    <3>. QED
      BY <2>0, <3>1, <3>2
  <2>3. CASE UNCHANGED Abstract!vars
    BY <2>3 DEF Abstract!vars
  <2>. QED
    BY <1>1, <2>1, <2>2, <2>3, StartStepRefines, StopStepRefines
<1>2. IInv /\ BlocksWhole =>
        [\A e \in Executions : StartStep(e) \/ StopStep(e) =>
           \A k \in Keys :
             LET others == (Executions \cup UserTexts) \ {e}
             IN  LinesOf(ann'[k], others) = LinesOf(ann[k], others)]_vars
  BY <1>1
<1>. QED
  BY <1>2, Invariance, BlocksStayWhole, PTL DEF NoLostUpdate

(* Only the update of a Start applies an execution.                        *)
LEMMA AppliedByStart ==
  ASSUME [Next]_vars, NEW e \in Executions, e \in applied' \ applied
  PROVE  StartUpdate(e) \/ StartUpdateUnanswered(e)
<1>1. \A f \in Executions : StartUpdate(f) \/ StartUpdateUnanswered(f) => applied' = applied \cup {f}
  BY DEF StartUpdate, StartUpdateUnanswered
<1>2. applied' = applied \/ \E f \in Executions : StartUpdate(f) \/ StartUpdateUnanswered(f)
  BY DEF Next, vars, server, Call, Prepare, PrepareFails, StartCall, StopCall, Enter,
         StartStep, StartFetch, Fetch, StartSucceeds, StartFails, RequestFails, Conflict,
         StopStep, StopFetchNothing, StopFetch, StopUpdate, Environment, UserEdit,
         UnrelatedWrite, DeleteOrCreate, Crash
<1>. QED
  BY <1>1, <1>2

(* A Start that runs has not been stopped yet: of these executions the     *)
(* platform calls neither Stop while Start runs nor Start after Stop.      *)
NoOverlap == \A e \in Executions \ MayOverlap : pc[StopOf(e)] # "idle" => pc[StartOf(e)] \notin InLoop

LEMMA NoOverlapStep ==
  ASSUME TypeOK, NoOverlap, [Next]_vars
  PROVE  NoOverlap'
<1>. SUFFICES ASSUME NEW e \in Executions \ MayOverlap,
                     pc'[StopOf(e)] # "idle", pc'[StartOf(e)] \in InLoop
              PROVE  FALSE
  BY DEF NoOverlap
<1>h. \A f \in Executions :
        /\ StartOf(f) \in Handlers /\ StopOf(f) \in Handlers
        /\ StartOf(f) # StopOf(e) /\ StopOf(f) # StartOf(e)
        /\ (StartOf(f) = StartOf(e) <=> f = e) /\ (StopOf(f) = StopOf(e) <=> f = e)
  BY DEF StartOf, StopOf, Handlers
<1>0. /\ pc \in [Handlers -> PcValue]
      /\ pc[StopOf(e)] # "idle" => pc[StartOf(e)] \notin InLoop
  BY DEF TypeOK, NoOverlap
<1>1. ASSUME NEW f \in Executions, Call(f)
      PROVE  FALSE
  <2>1. Enter(StopOf(f)) => pc' = [pc EXCEPT ![StopOf(f)] = "fetch"]
    BY DEF Enter
  <2>2. CASE Prepare(f) \/ PrepareFails(f)
    BY <1>0, <1>h, <2>2 DEF Prepare, PrepareFails, InLoop
  <2>3. CASE StartCall(f)
    BY <1>0, <1>h, <2>3 DEF StartCall, Enter
  <2>4. CASE StopCall(f)
    BY <1>0, <1>h, <2>4 DEF StopCall, Enter, InLoop
  <2>. QED
    BY <1>1, <2>2, <2>3, <2>4 DEF Call
<1>2. ASSUME NEW f \in Executions, StartStep(f)
      PROVE  FALSE
  <2>1. pc[StartOf(f)] \in InLoop
    BY <1>2 DEF StartStep, StartFetch, StartUpdate, StartUpdateUnanswered, StartSucceeds,
                StartFails, RequestFails, Conflict, InLoop
  <2>2. \E l \in PcValue : pc' = [pc EXCEPT ![StartOf(f)] = l]
    BY <1>2 DEF StartStep, StartFetch, Fetch, StartUpdate, StartUpdateUnanswered,
                StartSucceeds, StartFails, RequestFails, Conflict, Leave, PcValue, InLoop
  <2>. QED
    BY <1>0, <1>h, <2>1, <2>2
<1>3. ASSUME NEW f \in Executions, StopStep(f)
      PROVE  FALSE
  <2>1. pc[StopOf(f)] \in InLoop
    BY <1>3 DEF StopStep, StopFetchNothing, StopFetch, StopUpdate, RequestFails, Conflict, InLoop
  <2>2. \E l \in PcValue : pc' = [pc EXCEPT ![StopOf(f)] = l]
    BY <1>3 DEF StopStep, StopFetchNothing, StopFetch, Fetch, StopUpdate,
                RequestFails, Conflict, Leave, PcValue, InLoop
  <2>. QED
    BY <1>0, <1>h, <2>1, <2>2 DEF InLoop
<1>4. CASE Environment \/ UNCHANGED vars
  BY <1>0, <1>4 DEF Environment, UserEdit, UnrelatedWrite, DeleteOrCreate, vars
<1>5. CASE Crash
  BY <1>0, <1>h, <1>5 DEF Crash, InLoop
<1>. QED
  BY <1>1, <1>2, <1>3, <1>4, <1>5 DEF Next

(* A Stop that succeeds leaves no line of its execution.                   *)
LEMMA StopSucceeds ==
  ASSUME IInv, BlocksWhole, [Next]_vars, NEW e \in Executions,
         pc[StopOf(e)] # "stopped", pc'[StopOf(e)] = "stopped", NEW k \in Keys
  PROVE  ~HasLineOf(ann'[k], e)
<1>h. \A f \in Executions :
        /\ StartOf(f) \in Handlers /\ StopOf(f) \in Handlers
        /\ StartOf(f) # StopOf(e) /\ (StopOf(f) = StopOf(e) <=> f = e)
  BY DEF StartOf, StopOf, Handlers
<1>0. /\ pc \in [Handlers -> PcValue] /\ ann \in [Keys -> Text] /\ KeyOf[e] \in Keys
      /\ HasLineOf(ann[KeyOf[e]], e) => HasWholeBlock(ann[KeyOf[e]], e)
      /\ \A l \in Keys : HasLineOf(ann[l], e) => l = KeyOf[e]
  BY IngressAssumption DEF IInv, TypeOK, BlocksWhole
<1>1. StopFetchNothing(e) \/ StopUpdate(e)
  <2>1. \A f \in Executions : Call(f) \/ StartStep(f) => pc'[StopOf(e)] \in {pc[StopOf(e)], "fetch"}
    BY <1>0, <1>h DEF Call, Prepare, PrepareFails, StartCall, StopCall, Enter, StartStep,
       StartFetch, Fetch, StartUpdate, StartUpdateUnanswered, StartSucceeds, StartFails,
       RequestFails, Conflict, Leave
  <2>2. \A f \in Executions \ {e} : StopStep(f) => pc'[StopOf(e)] = pc[StopOf(e)]
    BY <1>0, <1>h DEF StopStep, StopFetchNothing, StopFetch, Fetch, StopUpdate,
       RequestFails, Conflict, Leave
  <2>3. StopFetch(e) \/ RequestFails(StopOf(e)) \/ Conflict(StopOf(e))
          => pc'[StopOf(e)] \in {"fetch", "update", "error"}
    BY <1>0, <1>h DEF StopFetch, Fetch, RequestFails, Conflict, Leave
  <2>4. Environment \/ Crash \/ UNCHANGED vars => pc'[StopOf(e)] \in {pc[StopOf(e)], "error"}
    BY <1>0, <1>h DEF Environment, UserEdit, UnrelatedWrite, DeleteOrCreate, vars, Crash
  <2>. QED
    BY <2>1, <2>2, <2>3, <2>4 DEF Next, StopStep
<1>2. ~HasLineOf(RemoveAnnotationBlock(ann[KeyOf[e]], e), e)
  BY <1>0, RemoveAnnotationBlockKeeps
<1>3. CASE StopFetchNothing(e)
  BY <1>0, <1>2, <1>3 DEF StopFetchNothing, server
<1>4. CASE StopUpdate(e)
  <2>1. Write(StopOf(e), NewStopValue(e), e)
    BY <1>4 DEF StopUpdate
  <2>2. copy[StopOf(e)] = ann
    BY <2>1 DEF IInv, CurrentCopies, Write
  <2>3. ann' = [ann EXCEPT ![KeyOf[e]] = RemoveAnnotationBlock(ann[KeyOf[e]], e)]
    BY <2>1, <2>2 DEF Write, NewStopValue
  <2>. QED
    BY <1>0, <1>2, <2>3
<1>. QED
  BY <1>1, <1>3, <1>4

(* Once Stop has succeeded the block is gone for good, if the platform     *)
(* does not stop the execution while it still starts: Start cannot put it  *)
(* back, whatever became of the answer to its update, and whichever other  *)
(* executions are stopped too early.                                       *)
THEOREM StoppedIsGone == Spec => []StoppedMeansGone
<1>1. Init => BlocksWhole /\ NoOverlap /\ StoppedMeansGone
  BY HandlerOf DEF Init, NoText, BlocksWhole, HasLineOf, ToSet, NoOverlap, StoppedMeansGone
<1>2. ASSUME IInv, BlocksWhole, NoOverlap, StoppedMeansGone, [Next]_vars
      PROVE  (BlocksWhole /\ NoOverlap /\ StoppedMeansGone)'
  <2>1. BlocksWhole' /\ NoOverlap'
    BY <1>2, BlocksStep, NoOverlapStep DEF IInv
  <2>2. ASSUME NEW e \in Executions \ MayOverlap, pc'[StopOf(e)] = "stopped", NEW k \in Keys
        PROVE  ~HasLineOf(ann'[k], e)
    <3>1. CASE pc[StopOf(e)] # "stopped"
      BY <1>2, <2>2, <3>1, StopSucceeds
    <3>2. CASE pc[StopOf(e)] = "stopped"
      <4>1. ~HasLineOf(ann[k], e)
        BY <1>2, <3>2 DEF StoppedMeansGone
      <4>2. e \notin applied' \ applied
        <5>1. pc[StartOf(e)] # "update"
          BY <1>2, <3>2 DEF NoOverlap, InLoop
        <5>. QED
          BY <1>2, <5>1, AppliedByStart DEF StartUpdate, StartUpdateUnanswered
      <4>. QED
        BY <1>2, <4>1, <4>2, BlocksStep
    <3>. QED
      BY <3>1, <3>2
  <2>. QED
    BY <2>1, <2>2 DEF StoppedMeansGone
<1>. QED
  BY <1>1, <1>2, Invariance, PTL DEF Spec

(***************************************************************************)
(* A delay and a block                                                     *)
(***************************************************************************)
(* A Start that has failed, or is about to: it wrote a text with both in.  *)
Caught(e) ==
  \/ pc[StartOf(e)] = "error"
  \/ /\ pc[StartOf(e)] = "events"
     /\ \A kind \in {"delay", "block"} : HasMarker(copy[StartOf(e)][KeyOf[e]], kind)

(* Of a delay and a block in one text, the one that came later is caught.  *)
LaterIsCaught ==
  \A d, b \in Executions :
    /\ Kind[d] = "delay" /\ Kind[b] = "block" /\ KeyOf[d] = KeyOf[b]
    /\ HasLineOf(ann[KeyOf[d]], d) /\ HasLineOf(ann[KeyOf[b]], b)
    => Caught(d) \/ Caught(b)

(* There is no way out of it but the error.                                *)
LEMMA CaughtStays ==
  ASSUME Controller = "nginx", TypeOK, [Next]_vars, NEW e \in Executions, Caught(e)
  PROVE  Caught(e)'
<1>h. \A f \in Executions :
        /\ StartOf(f) \in Handlers /\ StopOf(f) \in Handlers
        /\ StopOf(f) # StartOf(e) /\ (StartOf(f) = StartOf(e) <=> f = e)
  BY DEF StartOf, StopOf, Handlers
<1>0. /\ pc \in [Handlers -> PcValue] /\ copy \in [Handlers -> [Keys -> Text]]
      /\ pc[StartOf(e)] \in {"error", "events"}
  BY DEF TypeOK, Caught
<1>1. ASSUME pc'[StartOf(e)] = pc[StartOf(e)], copy'[StartOf(e)] = copy[StartOf(e)]
      PROVE  Caught(e)'
  BY <1>1 DEF Caught
<1>2. ASSUME NEW f \in Executions, Call(f)
      PROVE  Caught(e)'
  <2>1. UNCHANGED copy /\ pc'[StartOf(e)] = pc[StartOf(e)]
    BY <1>0, <1>2, <1>h DEF Call, Prepare, PrepareFails, StartCall, StopCall, Enter
  <2>. QED
    BY <1>1, <2>1
<1>3. ASSUME NEW f \in Executions, StopStep(f)
      PROVE  Caught(e)'
  <2>1. copy'[StartOf(e)] = copy[StartOf(e)] /\ pc'[StartOf(e)] = pc[StartOf(e)]
    BY <1>0, <1>3, <1>h DEF StopStep, StopFetchNothing, StopFetch, Fetch, StopUpdate,
       RequestFails, Conflict, Leave
  <2>. QED
    BY <1>1, <2>1
<1>4. ASSUME NEW f \in Executions \ {e}, StartStep(f)
      PROVE  Caught(e)'
  <2>1. copy'[StartOf(e)] = copy[StartOf(e)] /\ pc'[StartOf(e)] = pc[StartOf(e)]
    BY <1>0, <1>4, <1>h DEF StartStep, StartFetch, Fetch, StartUpdate, StartUpdateUnanswered,
       StartSucceeds, StartFails, RequestFails, Conflict, Leave
  <2>. QED
    BY <1>1, <2>1
<1>5. CASE StartStep(e)
  <2>1. CASE StartSucceeds(e)
    BY <2>1 DEF StartSucceeds, Caught
  <2>2. CASE StartFails(e)
    BY <1>0, <1>h, <2>2 DEF StartFails, Leave, Caught
  <2>. QED
    BY <1>0, <1>5, <2>1, <2>2 DEF StartStep, StartFetch, StartUpdate, StartUpdateUnanswered,
       RequestFails, Conflict
<1>6. CASE Environment \/ UNCHANGED vars
  <2>1. UNCHANGED << pc, copy >>
    BY <1>6 DEF Environment, UserEdit, UnrelatedWrite, DeleteOrCreate, vars
  <2>. QED
    BY <1>1, <2>1
<1>7. CASE Crash
  BY <1>0, <1>h, <1>7 DEF Crash, InLoop, Caught
<1>. QED
  BY <1>2, <1>3, <1>4, <1>5, <1>6, <1>7 DEF Next

(* A whole block shows its kind.                                           *)
LEMMA BlockHasMarker ==
  ASSUME NEW text \in Text, NEW e \in Executions, HasWholeBlock(text, e)
  PROVE  HasMarker(text, Kind[e])
<1>1. PICK i \in 1 .. Len(text) - 2 : BlockAt(text, e, i)
  BY WholeBlockAt
<1>2. text[i] = BeginOf(e) /\ text[i] \in ToSet(text)
  BY <1>1, TextLines DEF BlockAt
<1>. QED
  BY <1>2 DEF HasMarker, BeginOf

(* The Start that writes one of the two next to the other is caught.       *)
LEMMA WriterIsCaught ==
  ASSUME IInv, BlocksWhole', [Next]_vars, NEW e \in Executions, e \in applied' \ applied,
         NEW f \in Executions, KeyOf[e] = KeyOf[f], {Kind[e], Kind[f]} = {"delay", "block"},
         HasLineOf(ann'[KeyOf[e]], e), HasLineOf(ann'[KeyOf[e]], f)
  PROVE  Caught(e)'
<1>1. TypeOK' /\ TypeOK
  BY NextInv DEF IInv
<1>2. ann'[KeyOf[e]] \in Text /\ KeyOf[e] \in Keys
  BY <1>1, IngressAssumption DEF TypeOK
<1>3. HasWholeBlock(ann'[KeyOf[e]], e) /\ HasWholeBlock(ann'[KeyOf[e]], f)
  BY <1>2 DEF BlocksWhole
<1>4. HasMarker(ann'[KeyOf[e]], Kind[e]) /\ HasMarker(ann'[KeyOf[e]], Kind[f])
  BY <1>2, <1>3, BlockHasMarker
<1>5. CASE StartUpdate(e)
  <2>1. pc'[StartOf(e)] = "events" /\ copy'[StartOf(e)] = ann'
    BY <1>1, <1>5, HandlerOf DEF StartUpdate, TypeOK
  <2>. QED
    BY <1>4, <2>1 DEF Caught
<1>6. CASE StartUpdateUnanswered(e)
  BY <1>1, <1>6, HandlerOf DEF StartUpdateUnanswered, Leave, TypeOK, Caught
<1>. QED
  BY <1>5, <1>6, AppliedByStart

(* The NGINX actions keep a delay and a block apart: however their         *)
(* Prepares and Starts interleave, not both of them succeed while both are *)
(* in the text of one key.                                                 *)
THEOREM DelayAndBlockKeptApart ==
  ASSUME Controller = "nginx"
  PROVE  Spec => []NoInterference
<1>1. Init => LaterIsCaught
  BY IngressAssumption DEF Init, NoText, LaterIsCaught, HasLineOf, ToSet
<1>2. ASSUME IInv, BlocksWhole, LaterIsCaught, [Next]_vars
      PROVE  LaterIsCaught'
  <2>. SUFFICES ASSUME NEW d \in Executions, NEW b \in Executions,
                       Kind[d] = "delay", Kind[b] = "block", KeyOf[d] = KeyOf[b],
                       HasLineOf(ann'[KeyOf[d]], d), HasLineOf(ann'[KeyOf[b]], b)
                PROVE  Caught(d)' \/ Caught(b)'
    BY DEF LaterIsCaught
  <2>1. BlocksWhole' /\ TypeOK /\ KeyOf[d] \in Keys
    BY <1>2, BlocksStep, IngressAssumption DEF IInv
  <2>2. CASE d \in applied' \ applied
    BY <1>2, <2>1, <2>2, WriterIsCaught
  <2>3. CASE b \in applied' \ applied
    BY <1>2, <2>1, <2>3, WriterIsCaught
  <2>4. CASE d \notin applied' \ applied /\ b \notin applied' \ applied
    <3>1. HasLineOf(ann[KeyOf[d]], d) /\ HasLineOf(ann[KeyOf[b]], b)
      BY <1>2, <2>1, <2>4, BlocksStep
    <3>2. Caught(d) \/ Caught(b)
      BY <1>2, <3>1 DEF LaterIsCaught
    <3>. QED
      BY <1>2, <2>1, <3>2, CaughtStays
  <2>. QED
    BY <2>2, <2>3, <2>4
<1>3. LaterIsCaught => NoInterference
  BY DEF LaterIsCaught, NoInterference, Caught
<1>. QED
  BY <1>1, <1>2, <1>3, Invariance, BlocksStayWhole, PTL DEF Spec

(***************************************************************************)
(* Rules for one path                                                      *)
(***************************************************************************)
(* Only Prepare makes an execution prepared.                               *)
LEMMA PreparedByPrepare ==
  ASSUME TypeOK, [Next]_vars, NEW e \in Executions,
         pc[StartOf(e)] = "idle", pc'[StartOf(e)] = "prepared"
  PROVE  Prepare(e)
<1>h. \A f \in Executions :
        /\ StartOf(f) \in Handlers /\ StopOf(f) \in Handlers
        /\ StopOf(f) # StartOf(e) /\ (StartOf(f) = StartOf(e) <=> f = e)
  BY DEF StartOf, StopOf, Handlers
<1>0. pc \in [Handlers -> PcValue]
  BY DEF TypeOK
<1>1. ASSUME NEW f \in Executions, Call(f) PROVE Prepare(e)
  BY <1>0, <1>1, <1>h DEF Call, Prepare, PrepareFails, StartCall, StopCall, Enter
<1>2. ASSUME NEW f \in Executions, StartStep(f) PROVE FALSE
  BY <1>0, <1>2, <1>h DEF StartStep, StartFetch, Fetch, StartUpdate, StartUpdateUnanswered,
     StartSucceeds, StartFails, RequestFails, Conflict, Leave
<1>3. ASSUME NEW f \in Executions, StopStep(f) PROVE FALSE
  BY <1>0, <1>3, <1>h DEF StopStep, StopFetchNothing, StopFetch, Fetch, StopUpdate,
     RequestFails, Conflict, Leave
<1>4. pc' # pc
  OBVIOUS
<1>5. CASE Environment
  BY <1>4, <1>5 DEF Environment, UserEdit, UnrelatedWrite, DeleteOrCreate, local
<1>6. CASE Crash
  BY <1>0, <1>6, <1>h DEF Crash
<1>. QED
  BY <1>1, <1>2, <1>3, <1>4, <1>5, <1>6 DEF Next, vars

(* A text with a line of an execution has its rule, and HAProxy's check    *)
(* finds it for every execution of the same path.                          *)
LEMMA RuleIsFound ==
  ASSUME Controller = "haproxy", NEW text \in Text, NEW e \in Executions, NEW f \in Executions,
         PathOf[e] # << >>, PathOf[e] = PathOf[f], HasWholeBlock(text, f)
  PROVE  checkRuleConflicts(text, e)
<1>1. PICK i \in 1 .. Len(text) - 2 : BlockAt(text, f, i)
  BY WholeBlockAt
<1>2. text[i + 1] = RuleOf(f) /\ i + 1 \in 1 .. Len(text)
  BY <1>1, TextLines DEF BlockAt
<1>3. RuleOf(f) \in ToSet(text)
  BY <1>2, TextLines DEF ToSet
<1>4. PathTaken(RuleOf(f), e)
  BY IngressAssumption DEF PathTaken, RuleOf, IsPrefix
<1>. QED
  BY <1>3, <1>4 DEF checkRuleConflicts

(* With HAProxy an execution is not prepared while a rule of another one   *)
(* for its path is in the text, whatever the text has become: the check    *)
(* looks for the rule only, and a block never loses it.                    *)
THEOREM PreparedFindsRules == Spec => PreparedPathIsFree
<1>1. ASSUME IInv, BlocksWhole, [Next]_vars, NEW e \in Executions, NEW f \in Executions,
             Controller = "haproxy", e # f, KeyOf[e] = KeyOf[f],
             PathOf[e] # << >>, PathOf[e] = PathOf[f],
             pc[StartOf(e)] = "idle", pc'[StartOf(e)] = "prepared"
      PROVE  ~HasLineOf(ann[KeyOf[f]], f)
  <2>. SUFFICES ASSUME HasLineOf(ann[KeyOf[f]], f) PROVE FALSE
    OBVIOUS
  <2>1. TypeOK /\ KeyOf[f] \in Keys /\ ann[KeyOf[f]] \in Text
    BY <1>1, IngressAssumption DEF IInv, TypeOK
  <2>2. HasWholeBlock(ann[KeyOf[f]], f)
    BY <1>1, <2>1 DEF BlocksWhole
  <2>3. Prepare(e)
    BY <1>1, <2>1, PreparedByPrepare
  <2>. QED
    BY <1>1, <2>1, <2>2, <2>3, RuleIsFound DEF Prepare
<1>2. IInv /\ BlocksWhole /\ [Next]_vars =>
        [\A e, f \in Executions :
           /\ Controller = "haproxy"
           /\ e # f /\ KeyOf[e] = KeyOf[f]
           /\ PathOf[e] # << >> /\ PathOf[e] = PathOf[f]
           /\ pc[StartOf(e)] = "idle" /\ pc'[StartOf(e)] = "prepared"
           => ~HasLineOf(ann[KeyOf[f]], f)]_vars
  BY <1>1
<1>. QED
  BY <1>2, Invariance, BlocksStayWhole, PTL DEF Spec, PreparedPathIsFree
=============================================================================
