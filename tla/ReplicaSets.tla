---------------------------- MODULE ReplicaSets ----------------------------
(***************************************************************************)
(* One run after the other of the discovery of replica sets                *)
(* (src/extreplicaset/replicaset_discovery.go).  A workload's old replica  *)
(* sets are around for long; only the newest is to be a target.            *)
(*                                                                         *)
(* The discovery takes the replica sets from the lister at once, and looks *)
(* the workload of each up later, one by one, while the informers of the   *)
(* workloads deliver.  Then it groups the targets by their workload.  Both *)
(* loops follow the order of the lister, which is any.                     *)
(***************************************************************************)
EXTENDS Naturals

CONSTANTS Sets,      \* the replica sets that may be there
          Workloads, \* records with a name, a type and a namespace
          Listings   \* [Sets -> [owner, excluded, revision]]: what the lister may have

NoSet      == "none"
NoWorkload == [name |-> "", type |-> "", namespace |-> ""]
Absent     == [owner |-> NoWorkload, excluded |-> TRUE, revision |-> 0]

(* The owner is the workload that a replica set belongs to, in the stores  *)
(* or not; a revision of 0 stands for one that is missing or no number.    *)
ReplicaSetsAssumption ==
  /\ NoSet \notin Sets /\ NoWorkload \notin Workloads
  /\ Workloads \subseteq [name : STRING, type : STRING, namespace : STRING]
  /\ Listings \subseteq
       [Sets -> [owner : Workloads \cup {NoWorkload}, excluded : BOOLEAN, revision : Nat]]

VARIABLES
  present,  \* workloads that are in the stores
  listing,  \* the replica sets of the lister when the discovery began
  todo,     \* replica sets without a target yet
  owner,    \* [Sets -> the workload that the target names, or NoWorkload]
  left,     \* replica sets whose targets are still to be grouped
  filtered, \* targets that are none of a group
  grouped,  \* [key of a group -> replica set, or NoSet]
  moved     \* history: workloads came or went while the targets were made

vars == << present, listing, todo, owner, left, filtered, grouped, moved >>

-----------------------------------------------------------------------------
Listed == {rs \in Sets : ~listing[rs].excluded}

(* Mutant: the namespace is forgotten.                                     *)
keyInCluster(w) == << w.name, w.type, "" >>

key(w) == << w.name, w.type, w.namespace >>
Keys   == {key(w) : w \in Workloads}

Revision(rs) == listing[rs].revision

NoGroups == [k \in Keys |-> NoSet]

(* What DiscoverTargets returns at its end.                                *)
Targets == filtered \cup ({grouped[k] : k \in Keys} \ {NoSet})

-----------------------------------------------------------------------------
Init ==
  /\ present \in SUBSET Workloads
  /\ listing = [rs \in Sets |-> Absent]
  /\ todo = {} /\ left = {}
  /\ owner = [rs \in Sets |-> NoWorkload]
  /\ filtered = {} /\ grouped = NoGroups
  /\ moved = FALSE

DiscoverTargets ==
  /\ todo = {} /\ left = {}
  /\ listing' \in Listings
  /\ todo' = Listed' /\ left' = Listed'
  /\ owner' = [rs \in Sets |-> NoWorkload]
  /\ filtered' = {} /\ grouped' = NoGroups
  /\ moved' = FALSE
  /\ UNCHANGED present

(* The owner references are followed by name, in the stores as they are    *)
(* now.                                                                    *)
MakeTarget(rs) ==
  /\ rs \in todo
  /\ todo' = todo \ {rs}
  /\ owner' = [owner EXCEPT ![rs] = IF listing[rs].owner \in present THEN listing[rs].owner
                                    ELSE NoWorkload]
  /\ UNCHANGED << present, listing, left, filtered, grouped, moved >>

(* The body of onlyHighestRevision.                                        *)
Group(rs) ==
  /\ todo = {} /\ rs \in left
  /\ left' = left \ {rs}
  /\ IF owner[rs] = NoWorkload \/ Revision(rs) = 0
     THEN filtered' = filtered \cup {rs} /\ UNCHANGED grouped
     ELSE LET k == key(owner[rs])
          IN  /\ grouped' = [grouped EXCEPT ![k] =
                   IF @ = NoSet THEN rs ELSE IF Revision(rs) > Revision(@) THEN rs ELSE @]
              /\ UNCHANGED filtered
  /\ UNCHANGED << present, listing, todo, owner, moved >>

(* An informer delivers that a workload came or went (external).           *)
WorkloadChanges ==
  /\ \E w \in Workloads : present' = IF w \in present THEN present \ {w} ELSE present \cup {w}
  /\ moved' = (moved \/ todo # {})
  /\ UNCHANGED << listing, todo, owner, left, filtered, grouped >>

Next == DiscoverTargets \/ WorkloadChanges \/ \E rs \in Sets : MakeTarget(rs) \/ Group(rs)

Spec == Init /\ [][Next]_vars

-----------------------------------------------------------------------------
(* Properties                                                              *)

Over == todo = {} /\ left = {}

(* s and t are of one workload, by their references, and have revisions.   *)
Siblings(s, t) ==
  /\ listing[s].owner = listing[t].owner /\ listing[s].owner # NoWorkload
  /\ Revision(s) # 0 /\ Revision(t) # 0

(* Whatever the order of the replica sets, and whatever comes and goes     *)
(* while their workloads are looked up: one that was listed is left out    *)
(* only for another of its workload that is as new, of those that name the *)
(* workload only one is a target, and only listed ones are targets.  If    *)
(* the workloads stayed, a workload that its target names has just that    *)
(* one.                                                                    *)
NewestReplicaSetIsTarget ==
  Over =>
    /\ Targets \subseteq Listed
    /\ \A rs \in Listed \ Targets :
         \E t \in Targets : Siblings(rs, t) /\ Revision(t) >= Revision(rs)
    /\ \A s, t \in Targets :
         /\ s # t /\ Siblings(s, t) /\ owner[s] # NoWorkload
         => owner[t] = NoWorkload /\ moved
=============================================================================
