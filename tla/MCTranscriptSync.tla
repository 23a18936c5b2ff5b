-------------------------- MODULE MCTranscriptSync --------------------------
(* An instance of TranscriptSync for TLC. *)
EXTENDS TranscriptSync

CONSTANTS f1, f2, f3, p1, p2
=============================================================================
