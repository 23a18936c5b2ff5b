-------------------------- MODULE MCCircuitBreaker --------------------------
(* An instance of CircuitBreaker: two workers of the summary axis. The embed
   axis has no worker of its own; its breaker is paused by the escalation of
   the summary axis and by the operators. *)
EXTENDS CircuitBreaker

CONSTANTS s1, s2

MCWorkers == {s1, s2}

MCAxisOf == [w \in MCWorkers |-> "summary"]
=============================================================================
