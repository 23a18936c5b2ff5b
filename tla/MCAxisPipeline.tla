--------------------------- MODULE MCAxisPipeline ---------------------------
(* An instance of AxisPipeline: two items of one node, the first in its full
   text, too large for the provider, the second in a script of two bytes a
   character. *)
EXTENDS AxisPipeline

CONSTANTS i1, i2, n1, g1, k1

MCNodeOf == [i \in Items |-> n1]

MCGraphOf == [i \in Items |-> g1]

MCKeyOf == [g \in Graphs |-> k1]

MCSizeOf == [i \in Items |-> IF i = i1 THEN 3 ELSE 2]

MCCharsOf == [i \in Items |-> IF i = i1 THEN 3 ELSE 1]
=============================================================================
