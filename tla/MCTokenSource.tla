--------------------------- MODULE MCTokenSource ---------------------------
(* Instances of TokenSource: two processes with one caller each. *)
EXTENDS TokenSource

CONSTANTS c1, c2, p1, p2

MCProcOf == [c \in Callers |-> IF c = c1 THEN p1 ELSE p2]
=============================================================================
