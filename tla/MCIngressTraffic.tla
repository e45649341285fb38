-------------------------- MODULE MCIngressTraffic --------------------------
(***************************************************************************)
(* Instances of IngressTraffic: two executions, d a delay and b a block    *)
(* (or both blocks for one path), and one line a user may write, u, which  *)
(* has nothing to do with them or names a path.                            *)
(***************************************************************************)
EXTENDS IngressTraffic

CONSTANTS d, b, u, snippet

MCOneKey   == [e \in {d, b} |-> snippet]

Owners == Executions \cup UserTexts

MCDelayAndBlock == [o \in Owners |-> IF o = d THEN "delay" ELSE IF o = b THEN "block" ELSE "other"]
MCTwoBlocks     == [o \in Owners |-> IF o \in {d, b} THEN "block" ELSE "other"]

MCNoPaths   == [o \in Owners |-> << >>]
MCSamePaths == [o \in Owners |-> IF o = u THEN << "api", "v1" >> ELSE << "api" >>]
=============================================================================
