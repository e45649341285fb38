------------------------ MODULE PolledActionsProofs ------------------------
(***************************************************************************)
(* Proofs about PolledActions, for all bounds, durations, nodes and        *)
(* containers.  Each action has an inductive invariant of its own; a       *)
(* behaviour runs one action, so that the invariants do not meet.          *)
(***************************************************************************)
EXTENDS PolledActions, TLAPS

-----------------------------------------------------------------------------
(* The pod count check.  As long as it has no verdict, a check of all the  *)
(* time remembers exactly whether it has seen the condition violated, and  *)
(* one that fails early has not.                                           *)
Remembers ==
  check.allTheTime /\ phase # "ended" =>
    /\ deviation <=> Pods!Violated
    /\ check.failEarly => ~deviation

PodsInv ==
  /\ check \in Pods!Checks /\ deviation \in BOOLEAN /\ shown = lastMetrics
  /\ phase # "ended" => verdict = "none"
  /\ Remembers
  /\ Pods!AllTheTime /\ Pods!AtLeastOnce

LEMMA PodsInit == Pods!Init => PodsInv
BY DEF Pods!Init, PodsInv, Remembers, Pods!Violated, Pods!AllTheTime, Pods!AtLeastOnce

LEMMA HoldsIsBoolean ==
  ASSUME check \in Pods!Checks
  PROVE  Pods!Holds \in BOOLEAN
BY DEF Pods!Holds, Pods!Condition

(* What a call leaves in seen, told from whether the condition held.       *)
LEMMA SeenByCall ==
  ASSUME PodsInv, Pods!Look
  PROVE  /\ check' = check /\ now' = now /\ timeout' = timeout
         /\ Pods!Violated' <=> Pods!Violated \/ ~Pods!Holds
         /\ Pods!Holds => \E s \in seen' : s.held
         /\ deviation' <=> Pods!Deviates
         /\ shown' = lastMetrics'
<1>1. Pods!Holds \in BOOLEAN
  BY HoldsIsBoolean DEF PodsInv
<1>. DEFINE look == [held |-> Pods!Holds, late |-> Pods!After]
<1>2. seen' = seen \cup {look} /\ deviation' = Pods!Deviates
  BY DEF Pods!Look
<1>3. look.held <=> Pods!Holds
  BY <1>1
<1>4. (\E s \in seen' : ~s.held) <=> (\E s \in seen : ~s.held) \/ ~look.held
  BY <1>2, Zenon
<1>5. Pods!Violated' <=> Pods!Violated \/ ~Pods!Holds
  BY <1>3, <1>4 DEF Pods!Violated
<1>6. Pods!Holds => \E s \in seen' : s.held
  BY <1>2, <1>3
<1>7. deviation' <=> Pods!Deviates
  BY <1>2
<1>8. check' = check /\ now' = now /\ timeout' = timeout /\ shown' = lastMetrics'
  BY DEF Pods!Look, PodsInv
<1>. QED
  BY <1>5, <1>6, <1>7, <1>8

LEMMA PodsStep == PodsInv /\ (Pods!Next \/ UNCHANGED vars) => PodsInv'
<1>. SUFFICES ASSUME PodsInv, Pods!Next \/ UNCHANGED vars PROVE PodsInv'
  OBVIOUS
<1>1. CASE Pods!Look /\ (Pods!Start \/ Pods!Status)
  <2>1. /\ check' = check /\ now' = now /\ timeout' = timeout
        /\ Pods!Violated' <=> Pods!Violated \/ ~Pods!Holds
        /\ Pods!Holds => \E s \in seen' : s.held
        /\ deviation' <=> Pods!Deviates
        /\ shown' = lastMetrics'
    BY <1>1, SeenByCall
  <2>2. Pods!Holds \in BOOLEAN /\ check.allTheTime \in BOOLEAN /\ check.failEarly \in BOOLEAN
    BY HoldsIsBoolean DEF PodsInv, Pods!Checks
  <2>3. phase # "ended" /\ verdict = "none"
    BY <1>1 DEF PodsInv, Pods!Start, Pods!Status
  <2>4. deviation' \in BOOLEAN
    BY <1>1, <2>2 DEF Pods!Look, Pods!Deviates, PodsInv
  <2>5. CASE Pods!Start
    BY <2>1, <2>2, <2>3, <2>4, <2>5
    DEF PodsInv, Remembers, Pods!Start, Pods!Error, Pods!End, Pods!After, Pods!FailsEarly,
        Pods!Deviates, Pods!AllTheTime, Pods!AtLeastOnce
  <2>6. CASE Pods!Status
    BY <2>1, <2>2, <2>3, <2>4, <2>6
    DEF PodsInv, Remembers, Pods!Status, Pods!Error, Pods!Completed, Pods!End, Pods!After,
        Pods!FailsEarly, Pods!Deviates, Pods!AllTheTime, Pods!AtLeastOnce
  <2>. QED
    BY <1>1, <2>5, <2>6
<1>2. CASE Pods!Prepare \/ Pods!PrepareFails \/ Pods!LookFails \/ Pods!WorldChanges
             \/ Pods!Tick \/ UNCHANGED vars
  <2>1. /\ check' = check /\ seen' = seen /\ deviation' = deviation
        /\ shown' = shown /\ lastMetrics' = lastMetrics
        /\ Pods!Violated' <=> Pods!Violated
    BY <1>2 DEF Pods!Prepare, Pods!PrepareFails, Pods!LookFails, Pods!WorldChanges, Pods!Tick,
                vars, polled, podVars, widget, Pods!state, Pods!Violated
  <2>. QED
    BY <1>2, <2>1
    DEF PodsInv, Remembers, Pods!Prepare, Pods!PrepareFails, Pods!LookFails, Pods!WorldChanges,
        Pods!Tick, vars, polled, podVars, Pods!state, Pods!End, Pods!AllTheTime, Pods!AtLeastOnce
<1>. QED
  BY <1>1, <1>2 DEF Pods!Next, Pods!Start, Pods!Status

(* A call that emits nothing has looked at the counts emitted last.        *)
LEMMA LookIsShown ==
  PodsInv /\ HasMetrics /\ (Pods!Start \/ Pods!Status) => Pods!ShowsLook
BY DEF PodsInv, Pods!Start, Pods!Status, Pods!Look, Pods!Emits, Pods!podCountMetricsChanged,
       Pods!ShowsLook

-----------------------------------------------------------------------------
(* The node count check, which ends with the first call that saw what it   *)
(* waits for or came too late.                                             *)
NodesInv ==
  /\ phase # "ended" => verdict = "none" /\ \A s \in seen : ~s.held /\ ~s.late
  /\ Ready!VerdictIsFirstSight

LEMMA NodesInit == Ready!Init => NodesInv
BY DEF Ready!Init, NodesInv, Ready!VerdictIsFirstSight

LEMMA NodesStep == NodesInv /\ (Ready!Next \/ UNCHANGED vars) => NodesInv'
<1>. SUFFICES ASSUME NodesInv, Ready!Next \/ UNCHANGED vars PROVE NodesInv'
  OBVIOUS
<1>1. CASE Ready!Status
  <2>1. Ready!Holds \in BOOLEAN /\ Ready!After \in BOOLEAN
    BY DEF Ready!Holds, Ready!After
  <2>. DEFINE look == [held |-> Ready!Holds, late |-> Ready!After]
  <2>2. seen' = seen \cup {look}
    BY <1>1 DEF Ready!Status
  <2>3. (look.held <=> Ready!Holds) /\ (look.late <=> Ready!After)
    BY <2>1
  <2>4. \A s \in seen : ~s.held /\ ~s.late
    BY <1>1 DEF NodesInv, Ready!Status
  <2>. HIDE DEF look
  <2>5. (\E s \in seen' : s.held) <=> Ready!Holds
    BY <2>2, <2>3, <2>4
  <2>6. (\E s \in seen' : s.late /\ ~s.held) <=> Ready!After /\ ~Ready!Holds
    BY <2>2, <2>3, <2>4
  <2>7. ~Ready!Holds /\ ~Ready!After => \A s \in seen' : ~s.held /\ ~s.late
    BY <2>2, <2>3, <2>4
  <2>8. IF Ready!Holds \/ Ready!After
        THEN phase' = "ended" /\ verdict' = IF Ready!Holds THEN "passed" ELSE "failed"
        ELSE verdict' = "none"
    BY <1>1 DEF NodesInv, Ready!Status
  <2>. QED
    BY <2>5, <2>6, <2>7, <2>8 DEF NodesInv, Ready!VerdictIsFirstSight
<1>2. CASE Ready!Prepare \/ Ready!Start \/ Ready!NodeChanges \/ Ready!Tick \/ UNCHANGED vars
  BY <1>2 DEF NodesInv, Ready!Prepare, Ready!Start, Ready!NodeChanges, Ready!Tick, vars,
              polled, Ready!VerdictIsFirstSight
<1>. QED
  BY <1>1, <1>2 DEF Ready!Next

-----------------------------------------------------------------------------
(* The actions on rollouts.  The controller never is ahead of the          *)
(* template's changes, the action's own among them; a restart that has     *)
(* asked before stays right about what was rolled out then.                *)
RolloutsInv ==
  /\ generation \in Nat /\ observed \in Nat /\ rolledOut \in Nat
  /\ mine \in Nat /\ metAtPrepare \in Nat
  /\ check \in Rollouts!Checks
  /\ rolledOut <= observed /\ observed <= generation /\ mine <= generation
  /\ phase # "ended" => verdict = "none"
  /\ check.action = "check" /\ phase # "ended" => "complete" \notin seen
  /\ phase = "prepared" => Rollouts!WasComplete
  /\ Rollouts!RolloutVerdict /\ Rollouts!WaitedMeansRolledOut

LEMMA RolloutsInit == Rollouts!Init => RolloutsInv
BY DEF Rollouts!Init, RolloutsInv, Rollouts!WasComplete, Rollouts!RolloutVerdict,
       Rollouts!WaitedMeansRolledOut

(* Only a restart of a deployment waits.                                   *)
LEMMA WaitingIsRestarting ==
  ASSUME check \in Rollouts!Checks, check.wait
  PROVE  check.action = "restart"
BY DEF Rollouts!Checks

LEMMA RolloutsStep == RolloutsInv /\ (Rollouts!Next \/ UNCHANGED vars) => RolloutsInv'
<1>. SUFFICES ASSUME RolloutsInv, Rollouts!Next \/ UNCHANGED vars PROVE RolloutsInv'
  OBVIOUS
<1>. USE DEF RolloutsInv, Rollouts!WasComplete, Rollouts!RolloutVerdict,
             Rollouts!WaitedMeansRolledOut
<1>1. CASE Rollouts!Prepare
  BY <1>1 DEF Rollouts!Prepare, Rollouts!rollout, Rollouts!checkRolloutStatus, Rollouts!Waiting
<1>2. CASE Rollouts!StartRestart
  BY <1>2 DEF Rollouts!StartRestart
<1>3. CASE Rollouts!StartArgoRestart
  BY <1>3, WaitingIsRestarting DEF Rollouts!StartArgoRestart, Rollouts!End
<1>4. CASE Rollouts!PrepareFails \/ Rollouts!StartCheck \/ Rollouts!StartFails
             \/ Rollouts!TimesOut \/ Rollouts!StatusFails
  BY <1>4 DEF Rollouts!PrepareFails, Rollouts!StartCheck, Rollouts!StartFails,
              Rollouts!TimesOut, Rollouts!StatusFails, Rollouts!End, Rollouts!rollout
<1>5. CASE Rollouts!StatusWithoutWait
  BY <1>5 DEF Rollouts!StatusWithoutWait, Rollouts!End, Rollouts!rollout
<1>6. CASE Rollouts!Status
  BY <1>6 DEF Rollouts!Status, Rollouts!End, Rollouts!rollout, Rollouts!checkRolloutStatus,
              Rollouts!Waiting
<1>7. CASE Rollouts!OthersChange
  BY <1>7 DEF Rollouts!OthersChange
<1>8. CASE Rollouts!Controller
  BY <1>8 DEF Rollouts!Controller, Rollouts!Observe, Rollouts!RollOut
<1>9. CASE Rollouts!Tick \/ UNCHANGED vars
  BY <1>9 DEF Rollouts!Tick, Rollouts!rollout, vars, polled, rollVars
<1>. QED
  BY <1>1, <1>2, <1>3, <1>4, <1>5, <1>6, <1>7, <1>8, <1>9 DEF Rollouts!Next, Rollouts!Polled

-----------------------------------------------------------------------------
(* The pod count metrics: what was sent last is what the widget shows.     *)
MetricsInv ==
  /\ counts \in [Deployments -> Metrics!Counts \cup {Metrics!Gone}]
  /\ lastMetrics \in [Deployments -> Metrics!Counts \cup {Metrics!NotSent}]
  /\ shown = lastMetrics
  /\ phase = "new" => shown = [d \in Deployments |-> Metrics!NotSent]

LEMMA MetricsInit == Metrics!Init => MetricsInv
BY DEF Metrics!Init, MetricsInv

LEMMA MetricsStep == MetricsInv /\ (Metrics!Next \/ UNCHANGED vars) => MetricsInv'
<1>. SUFFICES ASSUME MetricsInv, Metrics!Next \/ UNCHANGED vars PROVE MetricsInv'
  OBVIOUS
<1>1. CASE Metrics!Status
  <2>1. \A d \in Deployments : Metrics!hasChanges(d) => counts[d] \in Metrics!Counts
    BY DEF MetricsInv, Metrics!hasChanges
  <2>. QED
    BY <1>1, <2>1 DEF MetricsInv, Metrics!Status
<1>2. CASE Metrics!WorldChanges
  BY <1>2 DEF MetricsInv, Metrics!WorldChanges
<1>3. CASE Metrics!Prepare
  BY <1>3 DEF MetricsInv, Metrics!Prepare
<1>4. CASE Metrics!Start \/ Metrics!Tick \/ UNCHANGED vars
  BY <1>4 DEF MetricsInv, Metrics!Start, Metrics!Tick, vars, widget, metVars
<1>. QED
  BY <1>1, <1>2, <1>3, <1>4 DEF Metrics!Next

(* A deployment whose counts are not sent is shown as it is.               *)
LEMMA StatusShowsCounts == MetricsInv /\ Metrics!Status => Metrics!ShowsCounts
<1>. SUFFICES ASSUME MetricsInv, Metrics!Status, NEW d \in Deployments, counts[d] # Metrics!Gone
              PROVE  shown'[d] = counts[d]
  BY DEF Metrics!ShowsCounts
<1>1. CASE Metrics!hasChanges(d)
  BY <1>1 DEF Metrics!Status
<1>2. CASE ~Metrics!hasChanges(d)
  <2>1. \A m \in MetricNames : lastMetrics[d][m] = counts[d][m]
    BY <1>2 DEF Metrics!hasChanges
  <2>2. /\ counts[d] \in [MetricNames -> 0 .. MaxReplicas]
        /\ lastMetrics[d] \in [MetricNames -> Int]
    BY DEF MetricsInv, Metrics!Counts, Metrics!NotSent
  <2>3. lastMetrics[d] = counts[d]
    BY <2>1, <2>2
  <2>. QED
    BY <1>2, <2>3 DEF MetricsInv, Metrics!Status
<1>. QED
  BY <1>1, <1>2

-----------------------------------------------------------------------------
(* The events log.  Nothing happens in a second to come, and no offset     *)
(* lies there.  An event the next call would not send was sent already, or *)
(* happened before Start, or was overtaken; one that was sent twice is     *)
(* behind the offset for good, because the call that sent it again looked  *)
(* at the clock after it had been sent first.                              *)
EventTypes ==
  /\ now \in Nat /\ since \in Int /\ lastEventOffset \in Int /\ call.offset \in Int
  /\ lastTimestamp \in [Events -> Int] /\ sent \in [Events -> Nat]
  /\ store \subseteq Events

NothingToCome ==
  /\ \A e \in Events : lastTimestamp[e] <= now
  /\ lastEventOffset <= now /\ call.offset <= now

Stored == \A e \in Events :
  (e \in store \/ sent[e] >= 1) => lastTimestamp[e] # Log!Unset

Pending == \A e \in store \ overtaken :
  Log!Since(e) => sent[e] >= 1 \/ lastTimestamp[e] > lastEventOffset

SentBefore == \A e \in Events :
  /\ sent[e] >= 1 /\ call # Log!NoCall => call.offset >= lastTimestamp[e]
  /\ sent[e] >= 2 => lastEventOffset >= lastTimestamp[e]

EventsInv ==
  /\ EventTypes /\ NothingToCome /\ Stored /\ Pending /\ SentBefore
  /\ Log!MissesOnlyOvertaken /\ Log!SentAtMostTwice

LEMMA EventsInit == Log!Init => EventsInv
BY DEF Log!Init, Log!Unset, Log!NoCall, EventsInv, EventTypes, NothingToCome, Stored, Pending,
       SentBefore, Log!MissesOnlyOvertaken, Log!SentAtMostTwice

(* The second of a time is not later than the time.                        *)
LEMMA SecondsStart ==
  ASSUME NEW t \in Nat
  PROVE  (t \div Second) * Second \in Nat /\ (t \div Second) * Second <= t
<1>1. Second \in Nat \ {0}
  BY ActionsAssumption DEF Log!EventsAssumption
<1>. QED
  BY <1>1

LEMMA EventsStep == EventsInv /\ (Log!Next \/ UNCHANGED vars) => EventsInv'
<1>. SUFFICES ASSUME EventsInv, Log!Next \/ UNCHANGED vars PROVE EventsInv'
  OBVIOUS
<1>. USE DEF EventsInv, EventTypes, NothingToCome, Stored, Pending, SentBefore, Log!Since,
             Log!MissesOnlyOvertaken, Log!SentAtMostTwice, Log!Unset
<1>1. CASE Log!Prepare \/ Log!Start
  BY <1>1 DEF Log!Prepare, Log!Start, Log!world
<1>2. CASE Log!StatusCompletes \/ Log!AnswerLost
  BY <1>2 DEF Log!StatusCompletes, Log!AnswerLost, Log!world, Log!NoCall
<1>3. CASE Log!StatusCall \/ Log!StopCall
  BY <1>3 DEF Log!StatusCall, Log!StopCall, Log!world, Log!NoCall
<1>4. CASE Log!Answer
  <2>1. /\ sent' \in [Events -> Nat]
        /\ \A e \in Events : sent'[e] =
             IF e \in store /\ lastTimestamp[e] > lastEventOffset THEN sent[e] + 1 ELSE sent[e]
    BY <1>4 DEF Log!Answer, Log!filterEvents
  <2>2. /\ UNCHANGED << now, lastTimestamp, store, overtaken, since >>
        /\ call # Log!NoCall /\ call' = Log!NoCall /\ lastEventOffset' = call.offset
    BY <1>4 DEF Log!Answer, Log!world
  <2>3. EventTypes' /\ NothingToCome' /\ Stored'
    BY <2>1, <2>2 DEF Log!NoCall
  <2>4. Pending' /\ SentBefore'
    BY <2>1, <2>2
  <2>5. Log!SentAtMostTwice'
    BY <2>1, <2>2
  <2>6. Log!MissesOnlyOvertaken'
    BY <2>1, <2>2
  <2>. QED
    BY <2>3, <2>4, <2>5, <2>6
<1>5. ASSUME NEW e \in Events, Log!Happens(e)
      PROVE  EventsInv'
  <2>. DEFINE second == (now \div Second) * Second
  <2>1. second \in Nat /\ second <= now
    BY SecondsStart
  <2>. HIDE DEF second
  <2>2. /\ lastTimestamp[e] = -1 /\ lastTimestamp' = [lastTimestamp EXCEPT ![e] = second]
        /\ \/ store' = store \cup {e}
              /\ overtaken' = IF second <= lastEventOffset THEN overtaken \cup {e} ELSE overtaken
           \/ UNCHANGED << store, overtaken >>
        /\ UNCHANGED << now, phase, lastEventOffset, call, sent, since >>
        /\ phase # "stopped"
    BY <1>5 DEF Log!Happens, Log!Arrives, second
  <2>3. e \notin store /\ sent[e] = 0
    BY <2>2
  <2>. QED
    BY <2>1, <2>2, <2>3
<1>6. ASSUME NEW e \in Events, Log!Deliver(e)
      PROVE  EventsInv'
  BY <1>6 DEF Log!Deliver, Log!Arrives
<1>7. CASE Log!Tick \/ UNCHANGED vars
  BY <1>7 DEF Log!Tick, vars, polled, eventVars
<1>. QED
  BY <1>1, <1>2, <1>3, <1>4, <1>5, <1>6, <1>7 DEF Log!Next

-----------------------------------------------------------------------------
(* The crash loop.  The store knows no later pod than there is, and the    *)
(* one it knows as it is in what never changes; so a pod with hostPID has  *)
(* come after the one that Prepare let pass.                               *)
APod == [instance : Nat, exists : BOOLEAN, hostPID : BOOLEAN, running : SUBSET Crash!Containers]

StoreLags ==
  /\ store.instance <= pod.instance
  /\ store.instance = pod.instance => store.hostPID = pod.hostPID

PreparedIsPlain ==
  /\ prepared <= pod.instance
  /\ phase \in {"prepared", "running"} /\ pod.hostPID => pod.instance > prepared
  /\ phase = "new" => hit = {}

CrashInv ==
  /\ pod \in APod /\ store \in APod /\ prepared \in Nat
  /\ StoreLags /\ PreparedIsPlain
  /\ call \in [todo : SUBSET DOMAIN Order, attempt : Nat]
  /\ \A i \in call.todo : Crash!Chosen(Order[i])
  /\ Crash!HitsWhatWasPrepared

LEMMA CrashInit == Crash!Init => CrashInv
<1>. SUFFICES ASSUME Crash!Init PROVE CrashInv
  OBVIOUS
<1>1. /\ pod \in APod
      /\ store = pod /\ prepared = 0 /\ hit = {}
  <2>1. pod \in [instance : {1}, exists : {TRUE}, hostPID : BOOLEAN,
                 running : {Crash!Containers}]
    BY DEF Crash!Init
  <2>2. {1} \subseteq Nat /\ {TRUE} \subseteq BOOLEAN
        /\ {Crash!Containers} \subseteq SUBSET Crash!Containers
    OBVIOUS
  <2>3. pod \in APod
    BY <2>1, <2>2, Zenon DEF APod
  <2>. QED
    BY <2>3 DEF Crash!Init
<1>2. call = [todo |-> {}, attempt |-> 0]
  BY DEF Crash!Init, Crash!Idle
<1>3. phase = "new" /\ pod.instance \in Nat
  BY <1>1 DEF Crash!Init, APod
<1>. QED
  BY <1>1, <1>2, <1>3 DEF CrashInv, StoreLags, PreparedIsPlain, Crash!HitsWhatWasPrepared

(* A signal hits a container that Start has chosen.                        *)
LEMMA KillStep ==
  ASSUME CrashInv, NEW i \in DOMAIN Order, Crash!Executing(i),
         Crash!Kill(Order[i]) \/ UNCHANGED << pod, hit >>,
         UNCHANGED << store, container, prepared >>
  PROVE  /\ pod' \in APod /\ store' \in APod /\ prepared' \in Nat
         /\ StoreLags' /\ pod'.instance = pod.instance /\ pod'.hostPID = pod.hostPID
         /\ Crash!HitsWhatWasPrepared'
<1>1. Crash!Chosen(Order[i]) /\ (pod.hostPID => pod.instance > prepared)
  BY DEF CrashInv, PreparedIsPlain, Crash!Executing
<1>. QED
  BY <1>1 DEF CrashInv, APod, StoreLags, Crash!Kill, Crash!HitsWhatWasPrepared, Crash!Chosen,
              Crash!All

LEMMA CrashStep == CrashInv /\ (Crash!Next \/ UNCHANGED vars) => CrashInv'
<1>. SUFFICES ASSUME CrashInv, Crash!Next \/ UNCHANGED vars PROVE CrashInv'
  OBVIOUS
<1>. USE DEF CrashInv
<1>1. CASE Crash!Prepare
  BY <1>1 DEF Crash!Prepare, APod, StoreLags, PreparedIsPlain, Crash!HitsWhatWasPrepared,
              Crash!Chosen, Crash!All
<1>2. CASE Crash!PrepareFails \/ Crash!CalledForNoPod \/ Crash!PlatformEnds \/ Crash!Return
             \/ UNCHANGED vars
  BY <1>2 DEF Crash!PrepareFails, Crash!CalledForNoPod, Crash!PlatformEnds, Crash!Return,
              Crash!Idle, vars, crashVars, StoreLags, PreparedIsPlain,
              Crash!HitsWhatWasPrepared, Crash!Chosen, Crash!All
<1>3. CASE Crash!Called
  BY <1>3 DEF Crash!Called, StoreLags, PreparedIsPlain, Crash!HitsWhatWasPrepared,
              Crash!Chosen, Crash!All
<1>4. ASSUME NEW i \in DOMAIN Order,
             \/ Crash!ExecKills(i) \/ Crash!ExecSkips(i)
             \/ Crash!FirstExecFails(i) \/ Crash!SecondExecFails(i)
      PROVE  CrashInv'
  <2>1. /\ Crash!Executing(i)
        /\ Crash!Kill(Order[i]) \/ UNCHANGED << pod, hit >>
        /\ UNCHANGED << store, container, prepared >>
        /\ phase = "running" /\ phase' \in {"running", "ended"}
    BY <1>4 DEF Crash!ExecKills, Crash!ExecSkips, Crash!FirstExecFails, Crash!SecondExecFails,
                Crash!Executing
  <2>2. call' \in [todo : SUBSET DOMAIN Order, attempt : Nat] /\ call'.todo \subseteq call.todo
    BY <1>4 DEF Crash!ExecKills, Crash!ExecSkips, Crash!FirstExecFails, Crash!SecondExecFails,
                Crash!NextContainer, Crash!Idle
  <2>3. /\ pod' \in APod /\ store' \in APod /\ prepared' \in Nat
        /\ StoreLags' /\ pod'.instance = pod.instance /\ pod'.hostPID = pod.hostPID
        /\ Crash!HitsWhatWasPrepared'
    BY <2>1, KillStep
  <2>4. PreparedIsPlain'
    BY <2>1, <2>3 DEF PreparedIsPlain
  <2>. QED
    BY <2>1, <2>2, <2>3, <2>4 DEF Crash!Chosen, Crash!All
<1>5. CASE (\E c \in Crash!Containers : Crash!Restart(c)) \/ Crash!Delete
  <2>1. pod' \in APod /\ pod'.instance = pod.instance /\ pod'.hostPID = pod.hostPID
    <3>1. ASSUME NEW c \in Crash!Containers, Crash!Restart(c)
          PROVE  pod' \in APod /\ pod'.instance = pod.instance /\ pod'.hostPID = pod.hostPID
      <4>1. pod.running \cup {c} \in SUBSET Crash!Containers
        BY DEF APod
      <4>. QED
        BY <3>1, <4>1 DEF Crash!Restart, APod
    <3>2. CASE Crash!Delete
      BY <3>2 DEF Crash!Delete, APod
    <3>. QED
      BY <1>5, <3>1, <3>2
  <2>2. UNCHANGED << store, phase, container, call, prepared, hit >>
    BY <1>5 DEF Crash!Restart, Crash!Delete
  <2>. QED
    BY <2>1, <2>2 DEF StoreLags, PreparedIsPlain, Crash!HitsWhatWasPrepared, Crash!Chosen,
                      Crash!All
<1>6. CASE Crash!Replace
  BY <1>6 DEF Crash!Replace, APod, StoreLags, PreparedIsPlain, Crash!HitsWhatWasPrepared,
              Crash!Chosen, Crash!All
<1>7. CASE Crash!Deliver
  <2>1. store' = pod /\ UNCHANGED << pod, phase, container, call, prepared, hit >>
    BY <1>7 DEF Crash!Deliver
  <2>2. StoreLags'
    BY <2>1 DEF StoreLags, APod
  <2>. QED
    BY <2>1, <2>2 DEF PreparedIsPlain, Crash!HitsWhatWasPrepared, Crash!Chosen, Crash!All
<1>. QED
  BY <1>1, <1>2, <1>3, <1>4, <1>5, <1>6, <1>7 DEF Crash!Next, Crash!Handler

-----------------------------------------------------------------------------
(* The actions side by side.                                               *)
IInv ==
  /\ which = "pods"      => PodsInv
  /\ which = "nodes"     => NodesInv
  /\ which = "rollouts"  => RolloutsInv
  /\ which = "metrics"   => MetricsInv
  /\ which = "events"    => EventsInv
  /\ which = "crashLoop" => CrashInv

LEMMA InitIInv == Init => IInv
BY PodsInit, NodesInit, RolloutsInit, MetricsInit, EventsInit, CrashInit DEF Init, IInv

LEMMA NextIInv == IInv /\ [Next]_vars => IInv'
<1>. SUFFICES ASSUME IInv, [Next]_vars PROVE IInv'
  OBVIOUS
<1>1. which' = which
  BY DEF Next, OnlyPods, OnlyReady, OnlyRollouts, OnlyMetrics, OnlyLog, OnlyCrash, vars
<1>2. CASE which = "pods"
  BY <1>1, <1>2, PodsStep
  DEF IInv, Next, OnlyPods, OnlyReady, OnlyRollouts, OnlyMetrics, OnlyLog, OnlyCrash
<1>3. CASE which = "nodes"
  BY <1>1, <1>3, NodesStep
  DEF IInv, Next, OnlyPods, OnlyReady, OnlyRollouts, OnlyMetrics, OnlyLog, OnlyCrash
<1>4. CASE which = "rollouts"
  BY <1>1, <1>4, RolloutsStep
  DEF IInv, Next, OnlyPods, OnlyReady, OnlyRollouts, OnlyMetrics, OnlyLog, OnlyCrash
<1>5. CASE which = "metrics"
  BY <1>1, <1>5, MetricsStep
  DEF IInv, Next, OnlyPods, OnlyReady, OnlyRollouts, OnlyMetrics, OnlyLog, OnlyCrash
<1>6. CASE which = "events"
  BY <1>1, <1>6, EventsStep
  DEF IInv, Next, OnlyPods, OnlyReady, OnlyRollouts, OnlyMetrics, OnlyLog, OnlyCrash
<1>7. CASE which = "crashLoop"
  BY <1>1, <1>7, CrashStep
  DEF IInv, Next, OnlyPods, OnlyReady, OnlyRollouts, OnlyMetrics, OnlyLog, OnlyCrash
<1>. QED
  BY <1>1, <1>2, <1>3, <1>4, <1>5, <1>6, <1>7 DEF IInv

LEMMA AlwaysIInv == Spec => []IInv
BY InitIInv, NextIInv, PTL DEF Spec

(* What the platform is told follows from what the check's calls saw and   *)
(* from when they came: the pod count check all the time or at least once, *)
(* the node count check at first sight, the rollout check before its       *)
(* timeout.                                                                *)
THEOREM VerdictFollowsCalls == Spec => []VerdictIsEarned
<1>1. IInv => VerdictIsEarned
  BY DEF IInv, VerdictIsEarned, PodsInv, NodesInv, RolloutsInv
<1>. QED
  BY <1>1, AlwaysIInv, PTL

(* A restart of a deployment that was told to wait passes only when the    *)
(* change it has made is rolled out.                                       *)
THEOREM WaitedRestartIsOver == Spec => []WaitedMeansRolledOut
<1>1. IInv => WaitedMeansRolledOut
  BY DEF IInv, WaitedMeansRolledOut, RolloutsInv
<1>. QED
  BY <1>1, AlwaysIInv, PTL

(* A restart that was told to check before never meets a rollout that was  *)
(* under way when Prepare asked.                                           *)
THEOREM RestartMeetsLaterRollouts == Spec => MeetsOnlyLaterRollouts
<1>1. IInv /\ [Next]_vars =>
        [which = "rollouts" /\ Rollouts!StartRestart => Rollouts!WasComplete]_vars
  BY DEF IInv, RolloutsInv, Rollouts!StartRestart
<1>. QED
  BY <1>1, AlwaysIInv, PTL DEF Spec, MeetsOnlyLaterRollouts

(* When Stop has answered, the platform has every event that has happened  *)
(* since Start and is in the store, except for those that came there when  *)
(* a call was past their second.                                           *)
THEOREM OnlyOvertakenMissed == Spec => []MissesOnlyOvertaken
<1>1. IInv => MissesOnlyOvertaken
  BY DEF IInv, MissesOnlyOvertaken, EventsInv
<1>. QED
  BY <1>1, AlwaysIInv, PTL

(* Whatever answers are lost and calls repeated, the platform accepts no   *)
(* event more than twice.                                                  *)
THEOREM NoThirdSending == Spec => []SentAtMostTwice
<1>1. IInv => SentAtMostTwice
  BY DEF IInv, SentAtMostTwice, EventsInv
<1>. QED
  BY <1>1, AlwaysIInv, PTL

(* Signals go to chosen containers only, and never to a pod with hostPID   *)
(* but one that has replaced what Prepare looked at.                       *)
THEOREM OnlyPreparedIsHit == Spec => []HitsWhatWasPrepared
<1>1. IInv => HitsWhatWasPrepared
  BY DEF IInv, HitsWhatWasPrepared, CrashInv
<1>. QED
  BY <1>1, AlwaysIInv, PTL

(* After every call the widget shows the counts that the call looked at,   *)
(* although unchanged counts are not sent.                                 *)
THEOREM WidgetKeepsUp == Spec => WidgetIsCurrent
<1>1. IInv /\ [Next]_vars =>
        [ /\ which = "pods" /\ HasMetrics /\ (Pods!Start \/ Pods!Status) => Pods!ShowsLook
          /\ which = "metrics" /\ Metrics!Status => Metrics!ShowsCounts ]_vars
  BY LookIsShown, StatusShowsCounts DEF IInv
<1>. QED
  BY <1>1, AlwaysIInv, PTL DEF Spec, WidgetIsCurrent
=============================================================================
