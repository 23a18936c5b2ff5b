--------------------------- MODULE MCSegmentRoute ---------------------------
(***************************************************************************)
(* Three documents of one partition in four segments: two overlap on one   *)
(* document, a document has up to three holders.                           *)
(***************************************************************************)
EXTENDS SegmentRoute, TLC
CONSTANTS a, b, c, x, y, z, u, w1
MCMembers == x :> {a, b} @@ y :> {a} @@ z :> {b, c} @@ u :> {b}
=============================================================================
