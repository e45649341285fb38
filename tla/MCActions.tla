----------------------------- MODULE MCActions -----------------------------
(***************************************************************************)
(* PolledActions with the containers of a small pod.                       *)
(***************************************************************************)
EXTENDS PolledActions

MCOrder == << "a", "b" >>
=============================================================================
