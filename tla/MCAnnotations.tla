---------------------------- MODULE MCAnnotations ----------------------------
(***************************************************************************)
(* The annotations of an ingress from two sides.  A behaviour is either    *)
(* two executions that attack one path through HAProxy (which = "attacks") *)
(* or one annotation that is edited (which = "text").  Users write the     *)
(* latter only; the attacks have the ingress written otherwise, deleted    *)
(* and created.                                                            *)
(***************************************************************************)
EXTENDS MCIngressTraffic, AnnotationEdits

CONSTANTS u1, u2     \* lines of the users of the text

VARIABLE which

all == << vars, which, annotation >>

MCInit ==
  /\ Init /\ EditsInit
  /\ which \in {"attacks", "text"}

Attack == which = "attacks" /\ UNCHANGED << which, annotation >>
Edit   == which = "text" /\ UNCHANGED << which, vars >>

MCNext ==
  \/ Attack /\ (UnrelatedWrite \/ DeleteOrCreate \/ Crash)
  \/ Attack /\ \E e \in Executions : Call(e) \/ StartStep(e) \/ StopStep(e)
  \/ Edit /\ EditsNext

MCFairness ==
  \A e \in Executions : WF_all(Attack /\ StartStep(e)) /\ WF_all(Attack /\ StopStep(e))

MCSpec == MCInit /\ [][MCNext]_all /\ MCFairness
=============================================================================
