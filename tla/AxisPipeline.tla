---------------------------- MODULE AxisPipeline ----------------------------
(***************************************************************************)
(* One axis of the pipeline between the collectors that push items and the *)
(* release of those items: the work channel, the dispatcher that packs     *)
(* items into leases, the channel of leases, the workers that spend a      *)
(* lease as provider calls and write it back, the splitting of a call the  *)
(* provider refuses as too large, the writeback permits and the staged     *)
(* shutdown (dispatcher.go, worker*.go, worker_*_lease.go,                 *)
(* worker_summary_split.go, writeback_admission.go, pipeline_stop.go).     *)
(* An item is one push: one SummaryWork or EmbedWork. The collectors know  *)
(* nodes, not items, and forget a node that left the eligible page while   *)
(* its item is still out, so a node can have several items in the axis.    *)
(* The summary axis and the embed axis run the same code; only the summary *)
(* axis splits.                                                            *)
(***************************************************************************)
EXTENDS Integers, Sequences, FiniteSets, SequencesExt, Subsequences

CONSTANTS
  Items,          \* the work items, one for each push
  Nodes,
  NodeOf,         \* Items -> Nodes
  Graphs,         \* graph and backend of an item: the writeback group
  GraphOf,        \* Items -> Graphs
  Keys,           \* lock domains of the server
  KeyOf,          \* Graphs -> Keys: admissionKeyFor
  SizeOf,         \* Items -> bytes of the composed text, as the code counts it
  CharsOf,        \* Items -> characters of it, as the provider counts them
  Workers,
  ChannelSize,    \* capacity of summaryCh / embedCh
  LeaseSize,      \* items of one lease
  BatchSize,      \* items of one provider call
  Limit,          \* characters of the largest call the provider accepts
  Reports,        \* limits a refusal may report; 0 is "none reported"
  Holders,        \* WritebackHoldersPerGraph
  CancelsStart,   \* whether the context of Start may be cancelled
  MaxFaults,      \* bound: failed calls, panics and failed writes
  MaxLatches      \* bound: times the breaker latches

ASSUME AxisAssumption ==
  /\ IsFiniteSet(Items)
  /\ IsFiniteSet(Workers)
  /\ Graphs # {}
  /\ NodeOf \in [Items -> Nodes]
  /\ GraphOf \in [Items -> Graphs]
  /\ KeyOf \in [Graphs -> Keys]
  /\ SizeOf \in [Items -> Nat]
  /\ CharsOf \in [Items -> Nat]
  /\ \A i \in Items : CharsOf[i] <= SizeOf[i]
  /\ ChannelSize \in Nat \ {0}
  /\ LeaseSize \in Nat \ {0}
  /\ BatchSize \in Nat \ {0}
  /\ Limit \in Nat
  /\ Reports \subseteq Nat
  /\ Holders \in Nat \ {0}
  /\ CancelsStart \in BOOLEAN
  /\ {MaxFaults, MaxLatches} \subseteq Nat

VARIABLES
  in,          \* the work channel
  inClosed,
  pushed,      \* items that were pushed
  owed,        \* items pushed and not yet released
  inFlight,    \* nodes the collectors count as in flight
  pruned,      \* nodes dropped from it while an item of theirs was out
  collecting,  \* "run", "cancelled", "gone": the collectors of this pipeline
  disp,        \* "recv", "emit", "drain", "done": the dispatcher
  batch,       \* the lease the dispatcher is filling
  out,         \* the channel of leases
  outClosed,
  pc,          \* control state of each worker
  lease,       \* the lease a worker took
  groups,      \* writeback groups of the lease still to process
  group,       \* the group in progress
  todo,        \* calls still to make for it; a split puts its parts in front
  merged,      \* results of the group not yet written
  marks,       \* items whose failure marker is being written
  fallen,      \* items of a panicked lease still to mark
  back,        \* where a worker goes on after its write
  permits,     \* writebacks in flight per lock domain
  latched,     \* the breaker of this axis
  stop,        \* progress of Stop
  ctxDone,     \* the context of Start
  billed,      \* items whose call succeeded and whose write was not refused since
  written, marked, oversize,
  faults, latches

chanVars == <<in, inClosed, pushed, owed, inFlight, pruned, collecting>>
dispVars == <<disp, batch, out, outClosed>>
workVars == <<pc, lease, groups, group, todo, merged, marks, fallen, back>>
graphVars == <<billed, written, marked, oversize>>
envVars == <<permits, latched, stop, ctxDone, faults, latches>>

vars == <<chanVars, dispVars, workVars, graphVars, envVars>>

-----------------------------------------------------------------------------
(* Calls: strides of a group and the splitting of a refused call.          *)

\* The sum of a measure over a call: one element for every unit of its items.
Sum(measure, s) == Cardinality(UNION {{k} \X (1 .. measure[s[k]]) : k \in DOMAIN s})

\* What the pack adds up, len(SummarizeText), and what the provider counts.
Size(s) == Sum(SizeOf, s)
Chars(s) == Sum(CharsOf, s)

\* processSummaryLeaseGroup: the group in strides of the provider-call cap.
Strides(s) ==
  [k \in 1 .. ((Len(s) + BatchSize - 1) \div BatchSize) |->
     SubSeq(s, (k - 1) * BatchSize + 1,
            IF k * BatchSize < Len(s) THEN k * BatchSize ELSE Len(s))]

halveSummaryItems(s) ==
  LET mid == Len(s) \div 2
  IN  IF Len(s) < 2 THEN <<s>>
      ELSE <<SubSeq(s, 1, mid), SubSeq(s, mid + 1, Len(s))>>

knownOversize(s, limit) ==
  IF limit = 0 THEN {} ELSE {i \in ToSet(s) : SizeOf[i] > limit}

\* Where the m parts of a packed s end: a part is closed exactly when the next
\* item would exceed the limit.
Cuts(s, limit, m) ==
  {cut \in [0 .. m -> 0 .. Len(s)] :
     /\ cut[0] = 0
     /\ cut[m] = Len(s)
     /\ \A j \in 1 .. m :
          /\ cut[j - 1] < cut[j]
          /\ Size(SubSeq(s, cut[j - 1] + 1, cut[j])) <= limit
          /\ j < m => /\ cut[j] < Len(s)
                      /\ Size(SubSeq(s, cut[j - 1] + 1, cut[j] + 1)) > limit}

\* s cut into parts, order kept. Again the set of the one result.
Packs(s, limit) ==
  UNION {{[j \in 1 .. m |-> SubSeq(s, cut[j - 1] + 1, cut[j])] :
            cut \in Cuts(s, limit, m)} : m \in 0 .. Len(s)}

\* packSummaryItems: the items above the limit left out.
packSummaryItems(s, limit) ==
  IF limit = 0 THEN {halveSummaryItems(s)}
  ELSE UNION {Packs(kept, limit) :
                kept \in Picked(s, {k \in DOMAIN s : SizeOf[s[k]] <= limit})}

\* Mutant: a pack that makes no progress is sent again.
MutSplitParts(s, limit) == packSummaryItems(s, limit)

\* The calls that replace a refused one, halved when the pack changed nothing.
splitParts(s, limit) ==
  {IF parts = <<s>> THEN halveSummaryItems(s) ELSE parts :
     parts \in packSummaryItems(s, limit)}

\* Mutant: every document of a refused call is marked.
MutSplitMarks(s, limit) == ToSet(s)

\* splitOversizeSummaryGroup: the documents it marks terminally.
splitMarks(s, limit) ==
  IF Len(s) = 1 THEN ToSet(s) ELSE knownOversize(s, limit)

-----------------------------------------------------------------------------
Init ==
  /\ in = <<>>
  /\ inClosed = FALSE
  /\ pushed = {}
  /\ owed = {}
  /\ inFlight = {}
  /\ pruned = {}
  /\ collecting = "run"
  /\ disp = "recv"
  /\ batch = <<>>
  /\ out = <<>>
  /\ outClosed = FALSE
  /\ pc = [w \in Workers |-> "idle"]
  /\ lease = [w \in Workers |-> <<>>]
  /\ groups = [w \in Workers |-> {}]
  /\ group = [w \in Workers |-> CHOOSE g \in Graphs : TRUE]
  /\ todo = [w \in Workers |-> <<>>]
  /\ merged = [w \in Workers |-> {}]
  /\ marks = [w \in Workers |-> {}]
  /\ fallen = [w \in Workers |-> {}]
  /\ back = [w \in Workers |-> "groups"]
  /\ permits = [k \in Keys |-> 0]
  /\ latched = FALSE
  /\ stop = "run"
  /\ ctxDone = FALSE
  /\ billed = {}
  /\ written = {}
  /\ marked = {}
  /\ oversize = {}
  /\ faults = 0
  /\ latches = 0

\* An external failure. A cancelled context makes every call fail for free.
Fault ==
  \/ ctxDone /\ UNCHANGED faults
  \/ faults < MaxFaults /\ faults' = faults + 1

-----------------------------------------------------------------------------
(* Collectors. *)

NodesOf(S) == {NodeOf[i] : i \in S}

\* A scan returned the node and it is not in flight: loopAxis.push. The select
\* may still choose the channel after the cancel.
Push(i) ==
  /\ collecting # "gone"
  /\ i \notin pushed
  /\ NodeOf[i] \notin inFlight
  /\ Len(in) < ChannelSize
  /\ in' = Append(in, i)
  /\ pushed' = pushed \cup {i}
  /\ owed' = owed \cup {i}
  /\ inFlight' = inFlight \cup {NodeOf[i]}
  /\ UNCHANGED <<inClosed, pruned, collecting, dispVars, workVars, graphVars,
                 envVars>>

\* pruneInFlightItems: a scan page without the node, its item still out.
Prune(n) ==
  /\ collecting # "gone"
  /\ n \in inFlight
  /\ inFlight' = inFlight \ {n}
  /\ pruned' = pruned \cup {n}
  /\ UNCHANGED <<in, inClosed, pushed, owed, collecting, dispVars, workVars,
                 graphVars, envVars>>

\* The loops of every collector return and leave collectorWG.
CollectorsExit ==
  /\ collecting = "cancelled"
  /\ collecting' = "gone"
  /\ UNCHANGED <<in, inClosed, pushed, owed, inFlight, pruned, dispVars, workVars,
                 graphVars, envVars>>

-----------------------------------------------------------------------------
(* runSummaryDispatcher / runEmbedDispatcher. *)

Receive ==
  /\ disp = "recv"
  /\ in # <<>>
  /\ in' = Tail(in)
  /\ batch' = Append(batch, Head(in))
  /\ disp' = IF Len(batch) + 1 >= LeaseSize THEN "emit" ELSE "recv"
  /\ UNCHANGED <<inClosed, pushed, owed, inFlight, pruned, collecting, out,
                 outClosed, workVars, graphVars, envVars>>

\* Mutant: a partial lease waits for more items.
MutFlushTimer == FALSE /\ UNCHANGED vars

\* The flush timer fires with a partial lease.
FlushTimer ==
  /\ disp = "recv"
  /\ batch # <<>>
  /\ disp' = "emit"
  /\ UNCHANGED <<chanVars, batch, out, outClosed, workVars, graphVars, envVars>>

\* Mutant: the lease stays with the dispatcher after it was sent.
MutEmit ==
  /\ disp = "emit"
  /\ Len(out) < Cardinality(Workers)
  /\ out' = Append(out, batch)
  /\ disp' = "recv"
  /\ UNCHANGED <<chanVars, batch, outClosed, workVars, graphVars, envVars>>

Emit ==
  /\ disp = "emit"
  /\ Len(out) < Cardinality(Workers)
  /\ out' = Append(out, batch)
  /\ batch' = <<>>
  /\ disp' = "recv"
  /\ UNCHANGED <<chanVars, outClosed, workVars, graphVars, envVars>>

\* emit under a cancelled context: the lease is dropped.
EmitDrops ==
  /\ disp = "emit"
  /\ ctxDone
  /\ batch' = <<>>
  /\ disp' = "recv"
  /\ UNCHANGED <<chanVars, out, outClosed, workVars, graphVars, envVars>>

\* End of input, or a cancelled context: what is in hand goes out without a
\* select and the lease channel is closed behind it.
DrainStarts ==
  /\ disp = "recv"
  /\ ctxDone \/ (inClosed /\ in = <<>>)
  /\ disp' = "drain"
  /\ UNCHANGED <<chanVars, batch, out, outClosed, workVars, graphVars, envVars>>

Drain ==
  /\ disp = "drain"
  /\ batch = <<>> \/ Len(out) < Cardinality(Workers)
  /\ out' = IF batch = <<>> THEN out ELSE Append(out, batch)
  /\ batch' = <<>>
  /\ disp' = "done"
  /\ outClosed' = TRUE
  /\ UNCHANGED <<chanVars, workVars, graphVars, envVars>>

Dispatcher == Receive \/ FlushTimer \/ Emit \/ EmitDrops \/ DrainStarts \/ Drain

-----------------------------------------------------------------------------
(* Workers. *)

\* A worker takes a lease; the groups are those of its items.
TakeLease(w) ==
  /\ pc[w] = "idle"
  /\ out # <<>>
  /\ out' = Tail(out)
  /\ lease' = [lease EXCEPT ![w] = Head(out)]
  /\ groups' = [groups EXCEPT ![w] = {GraphOf[i] : i \in ToSet(Head(out))}]
  /\ pc' = [pc EXCEPT ![w] = "groups"]
  /\ UNCHANGED <<chanVars, disp, batch, outClosed, group, todo, merged, marks,
                 fallen, back, graphVars, envVars>>

WorkerExits(w) ==
  /\ pc[w] = "idle"
  /\ ctxDone \/ (outClosed /\ out = <<>>)
  /\ pc' = [pc EXCEPT ![w] = "done"]
  /\ UNCHANGED <<chanVars, dispVars, lease, groups, group, todo, merged, marks,
                 fallen, back, graphVars, envVars>>

\* groupSummaryByGraph: the groups of a lease in any order.
NextGroup(w) ==
  /\ pc[w] = "groups"
  /\ \E g \in groups[w] :
       /\ group' = [group EXCEPT ![w] = g]
       /\ groups' = [groups EXCEPT ![w] = @ \ {g}]
       /\ \E s \in Picked(lease[w],
                         {k \in DOMAIN lease[w] : GraphOf[lease[w][k]] = g}) :
            todo' = [todo EXCEPT ![w] = Strides(s)]
  /\ pc' = [pc EXCEPT ![w] = "stride"]
  /\ UNCHANGED <<chanVars, dispVars, lease, merged, marks, fallen, back,
                 graphVars, envVars>>

\* Mutant: the collector is not told of the release.
MutReleaseLease(w) ==
  /\ pc[w] = "groups"
  /\ groups[w] = {}
  /\ owed' = owed \ ToSet(lease[w])
  /\ lease' = [lease EXCEPT ![w] = <<>>]
  /\ pc' = [pc EXCEPT ![w] = "idle"]
  /\ UNCHANGED <<in, inClosed, pushed, inFlight, pruned, collecting, dispVars,
                 groups, group, todo, merged, marks, fallen, back, graphVars,
                 envVars>>

\* The deferred release of every item of the lease. The collector drops the
\* node, whichever of its items this was.
ReleaseLease(w) ==
  /\ pc[w] = "groups"
  /\ groups[w] = {}
  /\ owed' = owed \ ToSet(lease[w])
  /\ inFlight' = inFlight \ NodesOf(ToSet(lease[w]))
  /\ lease' = [lease EXCEPT ![w] = <<>>]
  /\ pc' = [pc EXCEPT ![w] = "idle"]
  /\ UNCHANGED <<in, inClosed, pushed, pruned, collecting, dispVars, groups,
                 group, todo, merged, marks, fallen, back, graphVars, envVars>>

\* The loop over the calls of a group: at its end, or at a cancelled context,
\* one writeback of the merge; an empty merge writes nothing.
NextCall(w) ==
  /\ pc[w] = "stride"
  /\ pc' = [pc EXCEPT ![w] = IF todo[w] # <<>> /\ ~ctxDone THEN "gate"
                             ELSE IF merged[w] # {} THEN "write" ELSE "groups"]
  /\ back' = [back EXCEPT ![w] = "groups"]
  /\ UNCHANGED <<chanVars, dispVars, lease, groups, group, todo, merged, marks,
                 fallen, graphVars, envVars>>

\* waitResumed and the backoff window in front of every call.
PassGate(w) ==
  /\ pc[w] = "gate"
  /\ ~latched \/ ctxDone
  /\ pc' = [pc EXCEPT ![w] = "call"]
  /\ UNCHANGED <<chanVars, dispVars, lease, groups, group, todo, merged, marks,
                 fallen, back, graphVars, envVars>>

CallOK(w) ==
  /\ pc[w] = "call"
  /\ Chars(Head(todo[w])) <= Limit
  /\ merged' = [merged EXCEPT ![w] = @ \cup ToSet(Head(todo[w]))]
  /\ billed' = billed \cup ToSet(Head(todo[w]))
  /\ todo' = [todo EXCEPT ![w] = Tail(@)]
  /\ pc' = [pc EXCEPT ![w] = "stride"]
  /\ UNCHANGED <<chanVars, dispVars, lease, groups, group, marks, fallen, back,
                 written, marked, oversize, envVars>>

\* A marker for every item of M is written before the loop goes on, in one
\* update_batch; there is none for an empty M (writeSummaryMarkers).
Marking(w, M) ==
  /\ marks' = [marks EXCEPT ![w] = M]
  /\ back' = [back EXCEPT ![w] = IF M = {} THEN @ ELSE "stride"]
  /\ pc' = [pc EXCEPT ![w] = IF M = {} THEN "stride" ELSE "write"]

\* Mutant: a failed stride ends the group, and the strides before it are dropped.
MutCallFails(w) ==
  /\ pc[w] = "call"
  /\ Fault
  /\ \E M \in {{}, ToSet(Head(todo[w]))} : Marking(w, M)
  /\ todo' = [todo EXCEPT ![w] = <<>>]
  /\ merged' = [merged EXCEPT ![w] = {}]
  /\ UNCHANGED <<chanVars, dispVars, lease, groups, group, fallen, graphVars,
                 permits, latched, stop, ctxDone, latches>>

\* handleSummarizerError: a transient error leaves no marker, a terminal one
\* marks the items of the call. The loop goes on.
CallFails(w) ==
  /\ pc[w] = "call"
  /\ Fault
  /\ \E M \in {{}, ToSet(Head(todo[w]))} : Marking(w, M)
  /\ todo' = [todo EXCEPT ![w] = Tail(@)]
  /\ UNCHANGED <<chanVars, dispVars, lease, groups, group, merged, fallen,
                 graphVars, permits, latched, stop, ctxDone, latches>>

\* The provider refuses the call as too large: splitOversizeSummaryGroup marks
\* what it knows to be oversize and puts the parts in front of what is left.
CallRefused(w) ==
  LET sub == Head(todo[w])
  IN  /\ pc[w] = "call"
      /\ Chars(sub) > Limit
      /\ \E limit \in Reports :
           /\ \E parts \in IF Len(sub) = 1 THEN {<<>>}
                           ELSE splitParts(sub, limit) :
                todo' = [todo EXCEPT ![w] = parts \o Tail(@)]
           /\ oversize' = oversize \cup splitMarks(sub, limit)
           /\ Marking(w, splitMarks(sub, limit))
      /\ UNCHANGED <<chanVars, dispVars, lease, groups, group, merged, fallen,
                     billed, written, marked, envVars>>

\* A panic in the call: the deferred release runs first.
CallPanics(w) ==
  /\ pc[w] = "call"
  /\ Fault
  /\ owed' = owed \ ToSet(lease[w])
  /\ inFlight' = inFlight \ NodesOf(ToSet(lease[w]))
  /\ fallen' = [fallen EXCEPT ![w] = ToSet(lease[w])]
  /\ lease' = [lease EXCEPT ![w] = <<>>]
  /\ billed' = billed \ merged[w]
  /\ merged' = [merged EXCEPT ![w] = {}]
  /\ groups' = [groups EXCEPT ![w] = {}]
  /\ todo' = [todo EXCEPT ![w] = <<>>]
  /\ pc' = [pc EXCEPT ![w] = "recover"]
  /\ UNCHANGED <<in, inClosed, pushed, pruned, collecting, dispVars, group,
                 marks, back, written, marked, oversize, permits, latched, stop,
                 ctxDone, latches>>

\* markPanickedSummaryBatch: one marker write for each graph of the lease.
Recover(w) ==
  /\ pc[w] = "recover"
  /\ \E g \in {GraphOf[i] : i \in fallen[w]} :
       LET M == {i \in fallen[w] : GraphOf[i] = g}
       IN  /\ group' = [group EXCEPT ![w] = g]
           /\ marks' = [marks EXCEPT ![w] = M]
           /\ fallen' = [fallen EXCEPT ![w] = @ \ M]
  /\ back' = [back EXCEPT ![w] = "recover"]
  /\ pc' = [pc EXCEPT ![w] = "write"]
  /\ UNCHANGED <<chanVars, dispVars, lease, groups, todo, merged, graphVars,
                 envVars>>

\* The recovered worker takes leases again.
Recovered(w) ==
  /\ pc[w] = "recover"
  /\ fallen[w] = {}
  /\ back' = [back EXCEPT ![w] = "groups"]
  /\ pc' = [pc EXCEPT ![w] = "idle"]
  /\ UNCHANGED <<chanVars, dispVars, lease, groups, group, todo, merged, marks,
                 fallen, graphVars, envVars>>

\* The lock domain of the write of w: admissionKeyFor.
Domain(w) == KeyOf[group[w]]

\* admitWriteback: a permit of the domain, or none when the context is done.
Admit(w) ==
  /\ pc[w] = "write"
  /\ \/ /\ permits[Domain(w)] < Holders
        /\ permits' = [permits EXCEPT ![Domain(w)] = @ + 1]
        /\ pc' = [pc EXCEPT ![w] = "execute"]
     \/ /\ ctxDone
        /\ pc' = [pc EXCEPT ![w] = "bare"]
        /\ UNCHANGED permits
  /\ UNCHANGED <<chanVars, dispVars, lease, groups, group, todo, merged, marks,
                 fallen, back, graphVars, latched, stop, ctxDone, faults,
                 latches>>

\* Mutant: the permit is not returned.
MutReturnedNever(w) == permits

\* The closure admitWriteback returned.
Returned(w) ==
  IF pc[w] = "execute" THEN [permits EXCEPT ![Domain(w)] = @ - 1] ELSE permits

\* One Execute for the whole group succeeds; it clears old markers.
WriteLands(w) ==
  /\ pc[w] \in {"execute", "bare"}
  /\ back[w] = "groups"
  /\ permits' = Returned(w)
  /\ written' = written \cup merged[w]
  /\ marked' = marked \ NodesOf(merged[w])
  /\ merged' = [merged EXCEPT ![w] = {}]
  /\ pc' = [pc EXCEPT ![w] = "groups"]
  /\ UNCHANGED <<chanVars, dispVars, lease, groups, group, todo, marks, fallen,
                 back, billed, oversize, latched, stop, ctxDone, faults, latches>>

\* One Execute for the markers succeeds.
MarkLands(w) ==
  /\ pc[w] \in {"execute", "bare"}
  /\ back[w] # "groups"
  /\ permits' = Returned(w)
  /\ marked' = marked \cup NodesOf(marks[w])
  /\ marks' = [marks EXCEPT ![w] = {}]
  /\ pc' = [pc EXCEPT ![w] = back[w]]
  /\ UNCHANGED <<chanVars, dispVars, lease, groups, group, todo, merged, fallen,
                 back, billed, written, oversize, latched, stop, ctxDone, faults,
                 latches>>

\* executeBatchWithRetry: rate limited, the permit is returned for the wait;
\* any other error, or the last attempt, drops the results or the markers.
WriteFails(w) ==
  LET lost == IF back[w] = "groups" THEN merged[w] ELSE {}
  IN  /\ pc[w] \in {"execute", "bare"}
      /\ Fault
      /\ permits' = Returned(w)
      /\ \/ /\ ~ctxDone
            /\ pc' = [pc EXCEPT ![w] = "write"]
            /\ UNCHANGED <<billed, merged, marks>>
         \/ /\ pc' = [pc EXCEPT ![w] = back[w]]
            /\ billed' = billed \ lost
            /\ merged' = [merged EXCEPT ![w] = @ \ lost]
            /\ marks' = [marks EXCEPT ![w] = {}]
      /\ UNCHANGED <<chanVars, dispVars, lease, groups, group, todo, fallen,
                     back, written, marked, oversize, latched, stop, ctxDone,
                     latches>>

Worker(w) ==
  \/ TakeLease(w) \/ WorkerExits(w) \/ NextGroup(w) \/ ReleaseLease(w)
  \/ NextCall(w) \/ PassGate(w) \/ Recover(w) \/ Recovered(w) \/ Admit(w)
  \/ CallOK(w) \/ CallFails(w) \/ CallRefused(w) \/ CallPanics(w)
  \/ WriteLands(w) \/ MarkLands(w) \/ WriteFails(w)

-----------------------------------------------------------------------------
(* Stop. *)

\* Step 1: the registry is latched and every collector cancelled.
StopBegins ==
  /\ stop = "run"
  /\ stop' = "collectors"
  /\ collecting' = "cancelled"
  /\ UNCHANGED <<in, inClosed, pushed, owed, inFlight, pruned, dispVars, workVars,
                 graphVars, permits, latched, ctxDone, faults, latches>>

\* Steps 2 and 3: the collectors are gone, the work channel is closed.
CloseWork ==
  /\ stop = "collectors"
  /\ collecting = "gone"
  /\ inClosed' = TRUE
  /\ stop' = "dispatchers"
  /\ UNCHANGED <<in, pushed, owed, inFlight, pruned, collecting, dispVars,
                 workVars, graphVars, permits, latched, ctxDone, faults, latches>>

\* Steps 4 and 5: the dispatcher is gone and has closed the lease channel.
DispatchersGone ==
  /\ stop = "dispatchers"
  /\ disp = "done"
  /\ stop' = "workers"
  /\ UNCHANGED <<chanVars, dispVars, workVars, graphVars, permits, latched,
                 ctxDone, faults, latches>>

\* Mutant: Stop reports success without waiting for the workers.
MutWorkersGone ==
  /\ stop = "workers"
  /\ stop' = "ok"
  /\ UNCHANGED <<chanVars, dispVars, workVars, graphVars, permits, latched,
                 ctxDone, faults, latches>>

\* Steps 6 and 7.
WorkersGone ==
  /\ stop = "workers"
  /\ \A w \in Workers : pc[w] = "done"
  /\ stop' = "ok"
  /\ UNCHANGED <<chanVars, dispVars, workVars, graphVars, permits, latched,
                 ctxDone, faults, latches>>

\* The context of Stop fires first: an error that names the stage.
StopTimesOut ==
  /\ stop \in {"collectors", "dispatchers", "workers"}
  /\ stop' = "gaveUp"
  /\ UNCHANGED <<chanVars, dispVars, workVars, graphVars, permits, latched,
                 ctxDone, faults, latches>>

-----------------------------------------------------------------------------
(* The breaker and the context of Start. *)

\* The breaker of this axis trips or an operator pauses it.
Latch ==
  /\ ~latched
  /\ latches < MaxLatches
  /\ latched' = TRUE
  /\ latches' = latches + 1
  /\ UNCHANGED <<chanVars, dispVars, workVars, graphVars, permits, stop, ctxDone,
                 faults>>

\* An operator resumes the axis.
Resume ==
  /\ latched
  /\ latched' = FALSE
  /\ UNCHANGED <<chanVars, dispVars, workVars, graphVars, permits, stop, ctxDone,
                 faults, latches>>

CancelStart ==
  /\ CancelsStart
  /\ ~ctxDone
  /\ ctxDone' = TRUE
  /\ UNCHANGED <<chanVars, dispVars, workVars, graphVars, permits, latched, stop,
                 faults, latches>>

Next ==
  \/ \E i \in Items : Push(i)
  \/ \E n \in Nodes : Prune(n)
  \/ CollectorsExit
  \/ Receive
  \/ FlushTimer
  \/ Emit
  \/ EmitDrops
  \/ DrainStarts
  \/ Drain
  \/ \E w \in Workers : TakeLease(w)
  \/ \E w \in Workers : WorkerExits(w)
  \/ \E w \in Workers : NextGroup(w)
  \/ \E w \in Workers : ReleaseLease(w)
  \/ \E w \in Workers : NextCall(w)
  \/ \E w \in Workers : PassGate(w)
  \/ \E w \in Workers : CallOK(w)
  \/ \E w \in Workers : CallFails(w)
  \/ \E w \in Workers : CallRefused(w)
  \/ \E w \in Workers : CallPanics(w)
  \/ \E w \in Workers : Recover(w)
  \/ \E w \in Workers : Recovered(w)
  \/ \E w \in Workers : Admit(w)
  \/ \E w \in Workers : WriteLands(w)
  \/ \E w \in Workers : MarkLands(w)
  \/ \E w \in Workers : WriteFails(w)
  \/ StopBegins
  \/ CloseWork
  \/ DispatchersGone
  \/ WorkersGone
  \/ StopTimesOut
  \/ Latch
  \/ Resume
  \/ CancelStart

Spec == Init /\ [][Next]_vars

\* Every goroutine runs on, calls and writes return. Neither a stop, nor its
\* deadline, nor a cancel is owed, and nobody has to resume a latched axis: that
\* takes a human.
FairSpec ==
  /\ Spec
  /\ WF_vars(CollectorsExit)
  /\ WF_vars(Dispatcher)
  /\ \A w \in Workers : WF_vars(Worker(w))
  /\ WF_vars(CloseWork \/ DispatchersGone \/ WorkersGone)

-----------------------------------------------------------------------------
(* Properties. *)

WorkerPC == {"idle", "groups", "stride", "gate", "call", "recover", "write",
             "execute", "bare", "done"}

\* The variables hold what the code's channels, sets and stages can hold.
TypeOK ==
  /\ in \in Seq(Items)
  /\ pushed \cup owed \subseteq Items
  /\ inFlight \cup pruned \subseteq Nodes
  /\ collecting \in {"run", "cancelled", "gone"}
  /\ disp \in {"recv", "emit", "drain", "done"}
  /\ batch \in Seq(Items)
  /\ out \in Seq(Seq(Items))
  /\ pc \in [Workers -> WorkerPC]
  /\ lease \in [Workers -> Seq(Items)]
  /\ groups \in [Workers -> SUBSET Graphs]
  /\ group \in [Workers -> Graphs]
  /\ todo \in [Workers -> Seq(Seq(Items))]
  /\ merged \in [Workers -> SUBSET Items]
  /\ marks \in [Workers -> SUBSET Items]
  /\ fallen \in [Workers -> SUBSET Items]
  /\ back \in [Workers -> {"groups", "stride", "recover"}]
  /\ permits \in [Keys -> 0 .. Holders]
  /\ stop \in {"run", "collectors", "dispatchers", "workers", "ok", "gaveUp"}
  /\ {inClosed, outClosed, latched, ctxDone} \subseteq BOOLEAN
  /\ billed \cup written \cup oversize \subseteq Items
  /\ marked \subseteq Nodes
  /\ faults \in 0 .. MaxFaults
  /\ latches \in 0 .. MaxLatches

\* The positions of i in a sequence.
At(s, i) == {k \in DOMAIN s : s[k] = i}

\* Where an item is between the push and the release, by channel or hand and
\* position.
Places(i) ==
  {<<"in", 0, k>> : k \in At(in, i)}
    \cup {<<"batch", 0, k>> : k \in At(batch, i)}
    \cup (UNION {{<<"out", j, k>> : k \in At(out[j], i)} : j \in DOMAIN out})
    \cup (UNION {{<<"lease", w, k>> : k \in At(lease[w], i)} : w \in Workers})

\* A work item between its push and its release is in exactly one place: the
\* work channel, the dispatcher's hands, the lease channel or the lease of one
\* worker. Nothing is duplicated on the way, and until the start context is
\* cancelled nothing is lost (dispatcher.go, runSummaryWorkerBatch).
OnePlace ==
  \A i \in Items :
    /\ \A x, y \in Places(i) : x = y
    /\ Places(i) # {} => i \in owed
    /\ i \in owed => Places(i) # {} \/ ctxDone

\* The collectors' set follows the items: a node in it has an item out, an item
\* is out for no node outside it, and two items are out for no node, except
\* where a prune took the node from the set before its item came back. The
\* release of either item then takes the node out for both (drainReleases,
\* pruneInFlightItems, releaseInFlight).
InFlightIsOwed ==
  /\ \A n \in inFlight : \E i \in owed : NodeOf[i] = n
  /\ \A i \in owed : NodeOf[i] \in inFlight \cup pruned
  /\ \A i, j \in owed : NodeOf[i] = NodeOf[j] => i = j \/ NodeOf[i] \in pruned

\* A result the provider was paid for is in the graph or in the hands of a
\* worker that has yet to write it; only a panic or a refused write loses it.
\* A failed or split stride, or a marker written in between, takes nothing of
\* the other strides of its lease with it (processSummaryLeaseGroup,
\* splitOversizeSummaryGroup).
PaidIsKept == billed \subseteq written \cup UNION {merged[w] : w \in Workers}

\* Splitting gives the terminal marker only to a document whose bytes exceed
\* the characters the provider accepts, whatever a refusal reports that is not
\* below the limit applied (splitOversizeSummaryGroup,
\* knownOversizeSummaryItems).
OnlyOversizeIsMarked == \A i \in oversize : SizeOf[i] > Limit

\* Refuted: no document is marked that the provider would have accepted alone.
\* The limit is in characters and the split measures bytes.
OnlyRefusedIsMarked == \A i \in oversize : CharsOf[i] > Limit

\* The permits of a lock domain are exactly those its writers hold, of results
\* and of markers, so the budget neither shrinks nor grows with cancelled,
\* failed or retried writebacks; and the state is well typed (admitWriteback).
PermitsBalanced ==
  /\ TypeOK
  /\ \A k \in Keys :
       permits[k] = Cardinality({w \in Workers : pc[w] = "execute" /\ Domain(w) = k})

\* Every item that was pushed is released, on an axis that does not stay latched
\* for ever: a partial lease ages out, a refused call is split until nothing is
\* left of it, and a failed one lets go.
PushedIsReleased ==
  []<>(~latched) => \A i \in Items : i \in owed ~> (i \notin owed \/ ctxDone)

\* A stop that was begun ends without the help of its deadline, on an axis that
\* does not stay latched for ever (stopSequence).
StopEnds ==
  []<>(~latched) => (stop = "collectors" ~> (stop \in {"ok", "gaveUp"} \/ ctxDone))

\* Refuted: a worker parked at a latched breaker unblocks on Stop. Stop cancels
\* the collectors; the context the worker waits on is that of Start.
StopUnparks ==
  \A w \in Workers : (stop # "run" /\ pc[w] = "gate") ~> pc[w] # "gate"

\* What the axis promises: see WorkPool.
Pool == INSTANCE WorkPool WITH
  held <- owed,
  seen <- pushed,
  phase <- IF stop = "ok" THEN "closed" ELSE IF inClosed THEN "closing" ELSE "open",
  abandoned <- ctxDone

\* The axis implements the abstract pool: nothing is accepted once the work
\* channel is closed, and a Stop that returns nil leaves nothing in flight and
\* nothing is written behind it (stopSequence).
PoolSpec == Pool!Spec
=============================================================================
