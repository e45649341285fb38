---------------------------- MODULE MCEnvoyAttack ----------------------------
(***************************************************************************)
(* Instances of EnvoyAttack: one route with two rules.  One execution      *)
(* attacks the whole route, one a rule; a user has one policy.             *)
(***************************************************************************)
EXTENDS EnvoyAttack

CONSTANTS e1, e2, route, ruleA

MCTargetOf == [e \in Executions |-> << route, IF e = e1 THEN Whole ELSE ruleA >>]
=============================================================================
