---------------------------- MODULE MCCollector ----------------------------
(* Instances of Collector: which axes the deployment runs. *)
EXTENDS Collector

\* The deployment with no summarizer configured.
MCEmbedOnly == {"embed"}

MCBoth == {"summary", "embed"}
=============================================================================
