-------------------------- MODULE AbstractIngress --------------------------
(***************************************************************************)
(* What the traffic attacks promise about an ingress that others edit too: *)
(* an execution puts its block on top of the text as it is at that moment, *)
(* at most once, and takes it out of the text as it is at that moment.     *)
(* There are no copies, no versions and no retries here: every step works  *)
(* on the ingress itself.                                                  *)
(***************************************************************************)
CONSTANTS Executions,    \* the attacks' executions
          Keys,          \* annotation keys
          KeyOf,         \* the key an execution writes
          NoValue,       \* the text of a key that is not set
          Added(_, _),   \* a text with an execution's block added
          Removed(_, _), \* a text with an execution's block taken out
          Edits(_)       \* what others may turn a text into

VARIABLES exists,  \* the ingress is there
          ann,     \* the text under each key
          applied  \* executions that have written their block

vars == << exists, ann, applied >>

NoText == [k \in Keys |-> NoValue]

Init ==
  /\ exists = TRUE
  /\ ann = NoText
  /\ applied = {}

Apply(e) ==
  /\ exists
  /\ e \notin applied
  /\ ann' = [ann EXCEPT ![KeyOf[e]] = Added(@, e)]
  /\ applied' = applied \cup {e}
  /\ UNCHANGED exists

Cut(e) ==
  /\ exists
  /\ ann' = [ann EXCEPT ![KeyOf[e]] = Removed(@, e)]
  /\ UNCHANGED << exists, applied >>

UserEdit ==
  /\ exists
  /\ \E k \in Keys : \E text \in Edits(ann[k]) :
       ann' = [ann EXCEPT ![k] = text]
  /\ UNCHANGED << exists, applied >>

DeleteOrCreate ==
  /\ exists' = ~exists
  /\ ann' = NoText
  /\ UNCHANGED applied

Next ==
  \/ \E e \in Executions : Apply(e) \/ Cut(e)
  \/ UserEdit
  \/ DeleteOrCreate

Spec == Init /\ [][Next]_vars
=============================================================================
