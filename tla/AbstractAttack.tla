--------------------------- MODULE AbstractAttack ---------------------------
(***************************************************************************)
(* What the attacks that roll back promise about their target, as long as  *)
(* nobody disturbs them: they come one after the other, each changes the   *)
(* target at most once, each finds it untouched and leaves it so.          *)
(***************************************************************************)
CONSTANTS Executions, Values, Initial

VARIABLES
  value,   \* the attacked field
  attack   \* [e -> new, armed: may change the value, spent: cannot any more, done]

Init ==
  /\ value = Initial
  /\ attack = [e \in Executions |-> "new"]

Become(e, state) == attack' = [attack EXCEPT ![e] = state]

(* Only when no other attack is under way.                                 *)
Begin(e) ==
  /\ attack[e] = "new" /\ \A f \in Executions : attack[f] \in {"new", "done"}
  /\ Become(e, "armed")
  /\ UNCHANGED value

Change(e) ==
  /\ attack[e] = "armed" /\ value = Initial
  /\ value' \in Values
  /\ Become(e, "spent")

Disarm(e) == attack[e] = "armed" /\ Become(e, "spent") /\ UNCHANGED value

(* Once or again; what could still change the value later is not undone.   *)
Restore(e) ==
  /\ attack[e] = "spent"
  /\ value' = Initial
  /\ \E state \in {"spent", "done"} : Become(e, state)

(* There is nothing to restore.                                            *)
End(e) ==
  /\ attack[e] \in {"armed", "spent"} /\ value = Initial
  /\ Become(e, "done")
  /\ UNCHANGED value

Next == \E e \in Executions : Begin(e) \/ Change(e) \/ Disarm(e) \/ Restore(e) \/ End(e)

Spec == Init /\ [][Next]_<< value, attack >>
=============================================================================
