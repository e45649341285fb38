----------------------------- MODULE CrashLoop -----------------------------
(***************************************************************************)
(* The attack that keeps killing the containers of a pod                   *)
(* (src/extpod/attack_cause_crashloop.go).  Start and every Status take    *)
(* the pod from the informer's store and send a signal to process 1 of     *)
(* each chosen container that runs according to it, with kubectl exec and, *)
(* when that fails, with a shell.                                          *)
(*                                                                         *)
(* The store lags behind; the pod may be replaced by one of the same name. *)
(* A signal that arrives ends its container.                               *)
(***************************************************************************)
EXTENDS Naturals, Sequences

CONSTANTS Order,         \* the containers, in the order of the pod's statuses
          MaxInstance    \* bound on the pods that have the name one after another

CrashLoopAssumption == MaxInstance \in Nat

VARIABLES
  pod,       \* [instance, exists, hostPID, running] at the API server and the kubelet
  store,     \* the same in the informer's store
  phase,     \* "new", "rejected", "prepared", "running" or "ended"
  container, \* CrashLoopState: the chosen container, or All
  call,      \* [todo, attempt]: the places in Order of the containers that the
             \*   handler has still to kill
  prepared,  \* history: the pod that Prepare has looked at
  hit        \* history: [instance, hostPID, container] that got a signal

vars == << pod, store, phase, container, call, prepared, hit >>

Containers == {Order[i] : i \in DOMAIN Order}
All        == "all"
Idle       == [todo |-> {}, attempt |-> 0]
Pods       == [instance : 1 .. MaxInstance, exists : BOOLEAN, hostPID : BOOLEAN,
               running : SUBSET Containers]

Chosen(c) == container \in {All, c}

-----------------------------------------------------------------------------
Init ==
  /\ pod \in [instance : {1}, exists : {TRUE}, hostPID : BOOLEAN, running : {Containers}]
  /\ store = pod
  /\ phase = "new"
  /\ container \in Containers \cup {All}
  /\ call = Idle
  /\ prepared = 0 /\ hit = {}

(* Mutant: Prepare takes any pod.                                          *)
PrepareAny ==
  /\ phase = "new" /\ store.exists
  /\ phase' = "prepared"
  /\ prepared' = store.instance
  /\ UNCHANGED << pod, store, container, call, hit >>

Prepare ==
  /\ phase = "new"
  /\ store.exists /\ ~store.hostPID
  /\ phase' = "prepared"
  /\ prepared' = store.instance
  /\ UNCHANGED << pod, store, container, call, hit >>

PrepareFails ==
  /\ phase = "new"
  /\ ~store.exists \/ store.hostPID
  /\ phase' = "rejected"
  /\ UNCHANGED << pod, store, container, call, prepared, hit >>

(* Start and Status begin alike, with the pod as the store has it.         *)
Called ==
  /\ phase \in {"prepared", "running"} /\ call = Idle
  /\ store.exists
  /\ phase' = "running"
  /\ call' = [todo |-> {i \in DOMAIN Order : Chosen(Order[i]) /\ Order[i] \in store.running},
              attempt |-> 1]
  /\ UNCHANGED << pod, store, container, prepared, hit >>

CalledForNoPod ==
  /\ phase \in {"prepared", "running"} /\ call = Idle
  /\ ~store.exists
  /\ phase' = "ended"
  /\ UNCHANGED << pod, store, container, call, prepared, hit >>

(* Mutant: the handler returns after the first container.                  *)
ReturnAfterFirst(i) == [todo |-> {}, attempt |-> 1]

(* On to the next container, whether this one was killed or not there any  *)
(* more.                                                                   *)
NextContainer(i) == [todo |-> call.todo \ {i}, attempt |-> 1]

Kill(c) ==
  /\ pod.exists /\ c \in pod.running
  /\ pod' = [pod EXCEPT !.running = @ \ {c}]
  /\ hit' = hit \cup {[instance |-> pod.instance, hostPID |-> pod.hostPID, container |-> c]}

(* The handler is at the container in place i.                             *)
Executing(i) ==
  /\ phase = "running"
  /\ i \in call.todo /\ \A j \in call.todo : i <= j

(* The signal arrives; kubectl may fail even so, because its session ends  *)
(* with the container.                                                     *)
ExecKills(i) ==
  /\ Executing(i)
  /\ Kill(Order[i])
  /\ call' = NextContainer(i)
  /\ UNCHANGED << store, phase, container, prepared >>

(* "container not found" and its like: the container has ended meanwhile.  *)
ExecSkips(i) ==
  /\ Executing(i)
  /\ pod.exists /\ Order[i] \notin pod.running
  /\ call' = NextContainer(i)
  /\ UNCHANGED << pod, store, phase, container, prepared, hit >>

FirstExecFails(i) ==
  /\ Executing(i) /\ call.attempt = 1
  /\ call' = [call EXCEPT !.attempt = 2]
  /\ Kill(Order[i]) \/ UNCHANGED << pod, hit >>
  /\ UNCHANGED << store, phase, container, prepared >>

(* An error ends the attack, also for the containers that were to follow.  *)
SecondExecFails(i) ==
  /\ Executing(i) /\ call.attempt = 2
  /\ phase' = "ended" /\ call' = Idle
  /\ Kill(Order[i]) \/ UNCHANGED << pod, hit >>
  /\ UNCHANGED << store, container, prepared >>

Return ==
  /\ phase = "running" /\ call # Idle /\ call.todo = {}
  /\ call' = Idle
  /\ UNCHANGED << pod, store, phase, container, prepared, hit >>

(* The platform ends the attack; there is nothing to stop.                 *)
PlatformEnds ==
  /\ phase \in {"prepared", "running"} /\ call = Idle
  /\ phase' = "ended"
  /\ UNCHANGED << pod, store, container, call, prepared, hit >>

-----------------------------------------------------------------------------
(* The kubelet, the pod's controller and the informer (external).          *)

Active == phase \notin {"rejected", "ended"}

Restart(c) ==
  /\ Active
  /\ pod.exists /\ c \notin pod.running
  /\ pod' = [pod EXCEPT !.running = @ \cup {c}]
  /\ UNCHANGED << store, phase, container, call, prepared, hit >>

Delete ==
  /\ Active /\ pod.exists
  /\ pod' = [pod EXCEPT !.exists = FALSE, !.running = {}]
  /\ UNCHANGED << store, phase, container, call, prepared, hit >>

Replace ==
  /\ Active /\ ~pod.exists /\ pod.instance < MaxInstance
  /\ \E hostPID \in BOOLEAN :
       pod' = [instance |-> pod.instance + 1, exists |-> TRUE,
               hostPID |-> hostPID, running |-> {}]
  /\ UNCHANGED << store, phase, container, call, prepared, hit >>

Deliver ==
  /\ Active /\ store # pod
  /\ store' = pod
  /\ UNCHANGED << pod, phase, container, call, prepared, hit >>

Handler ==
  \/ Called \/ CalledForNoPod
  \/ \E i \in DOMAIN Order :
       ExecKills(i) \/ ExecSkips(i) \/ FirstExecFails(i) \/ SecondExecFails(i)
  \/ Return

Next ==
  \/ Prepare \/ PrepareFails \/ Handler \/ PlatformEnds
  \/ \E c \in Containers : Restart(c)
  \/ Delete \/ Replace \/ Deliver

(* The platform calls Status, kubectl ends and the informer catches up.    *)
Fairness == WF_vars(Handler) /\ WF_vars(Deliver)

Spec     == Init /\ [][Next]_vars
FairSpec == Spec /\ Fairness

-----------------------------------------------------------------------------
(* Properties                                                              *)

TypeOK ==
  /\ pod \in Pods /\ store \in Pods
  /\ phase \in {"new", "rejected", "prepared", "running", "ended"}
  /\ container \in Containers \cup {All}
  /\ call.todo \subseteq DOMAIN Order /\ call.attempt \in 0 .. 2
  /\ prepared \in 0 .. MaxInstance
  /\ hit \subseteq [instance : 1 .. MaxInstance, hostPID : BOOLEAN, container : Containers]

(* "hostPID enabled. This is not yet supported" (line 177): process 1 of   *)
(* such a pod is the node's.  The signal never goes to another container   *)
(* than the chosen one, nor to a pod with hostPID, unless that pod has     *)
(* taken the name of the one Prepare has looked at.                        *)
HitsWhatWasPrepared ==
  \A h \in hit : Chosen(h.container) /\ (h.hostPID => h.instance > prepared)

(* As long as the attack runs, a chosen container that has come up again   *)
(* does not stay up, however far the store is behind and whatever becomes  *)
(* of the other containers.                                                *)
Up(c) == phase = "running" /\ Chosen(c) /\ c \in pod.running

KeepsCrashing == \A c \in Containers : Up(c) ~> ~Up(c)
=============================================================================
