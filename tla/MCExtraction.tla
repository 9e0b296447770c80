---------------------------- MODULE MCExtraction ----------------------------
(***************************************************************************)
(* Instances of Extraction: a workspace w1 with two projects that share a  *)
(* task, and a workspace w2 that has none.                                 *)
(***************************************************************************)
EXTENDS Extraction

CONSTANTS w1, w2, p1, p2, t1

Homes == [p \in Projects |-> w1]
Memberships == [t \in Tasks |-> {p1, p2}]
============================================================================
