------------------------------ MODULE WorkPool ------------------------------
(***************************************************************************)
(* What one axis of the pipeline promises to the collectors that feed it   *)
(* and to the daemon that stops it, without channels, batches or workers:  *)
(* an item that was accepted is held until it is given back, results are   *)
(* written only for items that are held, and a stop that reports success   *)
(* has given back everything and writes nothing afterwards. The promise    *)
(* about giving back ends when the start context is cancelled.             *)
(***************************************************************************)
CONSTANTS
  Items,    \* one for each push
  Nodes,
  NodeOf    \* Items -> Nodes

VARIABLES
  held,       \* accepted and not yet given back
  seen,       \* accepted so far
  written,    \* items with a result in the graph
  marked,     \* nodes with a failure marker in the graph
  phase,      \* "open", "closing" (no more items) or "closed" (Stop returned nil)
  abandoned   \* the start context was cancelled

vars == <<held, seen, written, marked, phase, abandoned>>

Init ==
  /\ held = {}
  /\ seen = {}
  /\ written = {}
  /\ marked = {}
  /\ phase = "open"
  /\ abandoned = FALSE

Accept(i) ==
  /\ phase = "open"
  /\ i \notin seen
  /\ held' = held \cup {i}
  /\ seen' = seen \cup {i}
  /\ UNCHANGED <<written, marked, phase, abandoned>>

GiveBack ==
  /\ phase # "closed"
  /\ \E S \in SUBSET held : held' = held \ S
  /\ UNCHANGED <<seen, written, marked, phase, abandoned>>

\* A result is written while the item is held; it clears old markers.
Write ==
  /\ phase # "closed"
  /\ \E S \in SUBSET held :
       /\ written' = written \cup S
       /\ marked' = marked \ {NodeOf[i] : i \in S}
  /\ UNCHANGED <<held, seen, phase, abandoned>>

\* A marker may follow the release of its item: the panic path releases first.
Mark ==
  /\ phase # "closed"
  /\ \E S \in SUBSET seen : marked' = marked \cup {NodeOf[i] : i \in S}
  /\ UNCHANGED <<held, seen, written, phase, abandoned>>

Close ==
  /\ phase = "open"
  /\ phase' = "closing"
  /\ UNCHANGED <<held, seen, written, marked, abandoned>>

Finish ==
  /\ phase = "closing"
  /\ held = {} \/ abandoned
  /\ phase' = "closed"
  /\ UNCHANGED <<held, seen, written, marked, abandoned>>

Abandon ==
  /\ abandoned' = TRUE
  /\ UNCHANGED <<held, seen, written, marked, phase>>

Next ==
  \/ \E i \in Items : Accept(i)
  \/ GiveBack
  \/ Write
  \/ Mark
  \/ Close
  \/ Finish
  \/ Abandon

Spec == Init /\ [][Next]_vars
=============================================================================
