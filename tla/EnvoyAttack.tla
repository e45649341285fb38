----------------------------- MODULE EnvoyAttack -----------------------------
(***************************************************************************)
(* The delay and abort attacks on the HTTPRoutes of one namespace          *)
(* (src/extenvoygateway): an attack is a BackendTrafficPolicy of its own   *)
(* next to those of users and of other executions.  Of two policies on the *)
(* same route Envoy Gateway takes the older one, so an attack must not be  *)
(* the younger.                                                            *)
(*                                                                         *)
(* Prepare lists the policies; Start lists them again and creates its own, *)
(* which are two requests; Stop deletes it.                                *)
(***************************************************************************)
EXTENDS FiniteSets

CONSTANTS Executions,
          Users,     \* names of the policies of users
          Routes,
          Sections,  \* names of route rules
          Whole,     \* the section name of a policy for the whole route
          TargetOf,  \* [Executions -> Ref], routeName and sectionName
          Faults,    \* requests to the API server may fail, the extension restart
          StopMayOverlapStart  \* Stop may be called while Start still runs

Ref   == Routes \X (Sections \cup {Whole})
Names == Executions \cup Users  \* an execution's policy is named after it

ASSUME EnvoyAssumption ==
  /\ Executions \cap Users = {}
  /\ TargetOf \in [Executions -> Ref]
  /\ {Faults, StopMayOverlapStart} \subseteq BOOLEAN

VARIABLES
  policies, \* names of the policies that exist
  target,   \* [name -> where its policy points]
  older,    \* [name -> the policies that are older than it]
  pc,       \* [e -> where its Prepare and Start stand]
  stop,     \* [e -> what became of its Stop]
  since     \* history: the policies created or changed since e last checked

server == << policies, target, older >>
vars   == << policies, target, older, pc, stop, since >>

Init ==
  /\ policies \in SUBSET Users
  /\ target \in [Names -> Ref]
  /\ \A e \in Executions : target[e] = TargetOf[e]
  /\ older = [n \in Names |-> {}]
  /\ pc = [e \in Executions |-> "new"]
  /\ stop = [e \in Executions |-> "none"]
  /\ since = [e \in Executions |-> {}]

-----------------------------------------------------------------------------
(* A policy for the whole route conflicts with one for any section of it.  *)
targetRefMatchesRoute(ref, own) ==
  /\ ref[1] = own[1]
  /\ ref[2] = own[2] \/ Whole \in {ref[2], own[2]}

Matches(n, e) == targetRefMatchesRoute(target[n], TargetOf[e])

(* Mutant: policies of other executions are left out, not just its own.    *)
usersPolicy(e) == {n \in policies \ Executions : Matches(n, e)}

findConflictingPolicy(e) == {n \in policies \ {e} : Matches(n, e)}

-----------------------------------------------------------------------------
(* Create and delete on the API server.                                    *)

CreatePolicy(n, ref) ==
  /\ n \notin policies
  /\ policies' = policies \cup {n}
  /\ target' = [target EXCEPT ![n] = ref]
  /\ older' = [older EXCEPT ![n] = policies]
  /\ since' = [e \in Executions |-> since[e] \cup {n}]

DeletePolicy(n) ==
  /\ policies' = policies \ {n}
  /\ older' = [m \in Names |-> older[m] \ {n}]
  /\ UNCHANGED << target, since >>

-----------------------------------------------------------------------------
Prepare(e) ==
  /\ pc[e] = "new"
  /\ findConflictingPolicy(e) = {}
  /\ pc' = [pc EXCEPT ![e] = "prepared"]
  /\ since' = [since EXCEPT ![e] = {}]
  /\ UNCHANGED << server, stop >>

PrepareFails(e) ==
  /\ pc[e] = "new"
  /\ findConflictingPolicy(e) # {} \/ Faults
  /\ pc' = [pc EXCEPT ![e] = "rejected"]
  /\ UNCHANGED << server, stop, since >>

(* Start may be called again, after an error or just so.                   *)
Startable(e) == pc[e] \in {"prepared", "running", "error"} /\ stop[e] = "none"

(* Mutant: Start relies on what Prepare has checked.                       *)
StartUnchecked(e) ==
  /\ Startable(e)
  /\ pc' = [pc EXCEPT ![e] = "checked"]
  /\ since' = [since EXCEPT ![e] = {}]
  /\ UNCHANGED << server, stop >>

StartCheck(e) ==
  /\ Startable(e)
  /\ findConflictingPolicy(e) = {}
  /\ pc' = [pc EXCEPT ![e] = "checked"]
  /\ since' = [since EXCEPT ![e] = {}]
  /\ UNCHANGED << server, stop >>

StartConflicts(e) ==
  /\ Startable(e)
  /\ findConflictingPolicy(e) # {} \/ Faults
  /\ pc' = [pc EXCEPT ![e] = "error"]
  /\ UNCHANGED << server, stop, since >>

(* The answer to a create that took effect may be lost.                    *)
StartCreate(e) ==
  /\ pc[e] = "checked"
  /\ CreatePolicy(e, TargetOf[e])
  /\ \/ pc' = [pc EXCEPT ![e] = "running"]
     \/ Faults /\ pc' = [pc EXCEPT ![e] = "error"]
  /\ UNCHANGED stop

(* AlreadyExists is an error like any other.                               *)
StartCreateFails(e) ==
  /\ pc[e] = "checked"
  /\ e \in policies \/ Faults
  /\ pc' = [pc EXCEPT ![e] = "error"]
  /\ UNCHANGED << server, stop, since >>

Stoppable(e) ==
  /\ \/ pc[e] \in {"prepared", "running", "error"}
     \/ StopMayOverlapStart /\ pc[e] = "checked"
  /\ stop[e] # "done"

(* A policy that is not there is as good as deleted.                       *)
Stop(e) ==
  /\ Stoppable(e)
  /\ DeletePolicy(e)
  /\ \/ stop' = [stop EXCEPT ![e] = "done"]
     \/ Faults /\ stop' = [stop EXCEPT ![e] = "failed"]   \* the answer is lost
  /\ UNCHANGED pc

(* Mutant: the error of the delete is only logged.                         *)
StopIgnoresError(e) ==
  /\ Stoppable(e)
  /\ Faults
  /\ stop' = [stop EXCEPT ![e] = "done"]
  /\ UNCHANGED << server, pc, since >>

StopFails(e) ==
  /\ Stoppable(e)
  /\ Faults
  /\ stop' = [stop EXCEPT ![e] = "failed"]
  /\ UNCHANGED << server, pc, since >>

-----------------------------------------------------------------------------
(* Users create, point elsewhere and delete policies, ours included.       *)
UserCreates(n) ==
  /\ \E ref \in Ref : CreatePolicy(n, ref)
  /\ UNCHANGED << pc, stop >>

UserRetargets(n) ==
  /\ n \in policies
  /\ \E ref \in Ref : target' = [target EXCEPT ![n] = ref]
  /\ since' = [e \in Executions |-> since[e] \cup {n}]
  /\ UNCHANGED << policies, older, pc, stop >>

UserDeletes(n) ==
  /\ n \in policies
  /\ DeletePolicy(n)
  /\ UNCHANGED << pc, stop >>

Crash ==
  /\ Faults
  /\ \E e \in Executions : pc[e] = "checked"
  /\ pc' = [e \in Executions |-> IF pc[e] = "checked" THEN "error" ELSE pc[e]]
  /\ UNCHANGED << server, stop, since >>

Call(e) ==
  \/ Prepare(e) \/ PrepareFails(e)
  \/ StartCheck(e) \/ StartConflicts(e) \/ StartCreate(e) \/ StartCreateFails(e)
  \/ Stop(e) \/ StopFails(e)

UserStep ==
  \/ \E n \in Users : UserCreates(n) \/ UserRetargets(n)
  \/ \E n \in Names : UserDeletes(n)

Next == (\E e \in Executions : Call(e)) \/ UserStep \/ Crash

Spec == Init /\ [][Next]_vars

-----------------------------------------------------------------------------
(* Properties                                                              *)

TypeOK ==
  /\ policies \subseteq Names
  /\ target \in [Names -> Ref]
  /\ \A e \in Executions : target[e] = TargetOf[e]
  /\ older \in [Names -> SUBSET Names]
  /\ pc \in [Executions ->
               {"new", "rejected", "prepared", "checked", "running", "error"}]
  /\ stop \in [Executions -> {"none", "failed", "done"}]
  /\ since \in [Executions -> SUBSET Names]

(* An attack that runs is not shadowed: the older policies on its route,   *)
(* if there are any, were made or pointed there after its last check       *)
(* (action_common.go, "narrow the Prepare->Start window").                 *)
NotShadowed ==
  \A e \in Executions :
    pc[e] = "running" /\ e \in policies
      => {n \in older[e] \cap policies : Matches(n, e)} \subseteq since[e]

(* Two attacks on the same route that both run raced: each had done its    *)
(* check before the other's policy came.                                   *)
BothRunOnlyByRace ==
  \A e, f \in Executions :
    /\ e # f /\ Matches(f, e)
    /\ pc[e] = "running" /\ pc[f] = "running"
    /\ {e, f} \subseteq policies
    => f \in since[e] /\ e \in since[f]

(* Once a Stop has succeeded the execution's policy is gone for good, also *)
(* when its Start or an earlier Stop failed after having taken effect.     *)
StoppedMeansGone ==
  \A e \in Executions : stop[e] = "done" => e \notin policies
=============================================================================
