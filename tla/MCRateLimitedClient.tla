------------------------ MODULE MCRateLimitedClient ------------------------
(***************************************************************************)
(* Instances of RateLimitedClient.  c1 and c2 work for workspace w1, a     *)
(* third coroutine for w2.                                                 *)
(***************************************************************************)
EXTENDS RateLimitedClient

CONSTANTS c1, c2, c3, w1, w2

OneWorkspace == [c \in Callers |-> w1]
TwoWorkspaces == [c \in Callers |-> IF c = c3 THEN w2 ELSE w1]
OneCall == [c \in Callers |-> 1]
TwoCalls == [c \in Callers |-> 2]
FirstCallsTwice == [c \in Callers |-> IF c = c1 THEN 2 ELSE 1]
============================================================================
