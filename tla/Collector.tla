----------------------------- MODULE Collector -----------------------------
(***************************************************************************)
(* One registered graph's collector (internal/pipeline/collector.go and    *)
(* its collector_*.go files): the discovery loop of each enabled axis,     *)
(* with the workers that consume what it pushes, the collect runtime that  *)
(* gates it, and the server whose gaps it scans.                           *)
(*                                                                         *)
(* A loop iteration is split where it touches state others also touch: the *)
(* stamp cleared at the top, the collect gate, the scan, each push, the    *)
(* flush, the drain stamp, the heal check, and the reads and writes of the *)
(* balance verdict.  Time is left out: a sleep may end at any moment, so   *)
(* the lengths of the idle, drain, gate and backoff sleeps are not         *)
(* modelled, only which of them a wake can end.                            *)
(***************************************************************************)
EXTENDS Naturals, Functions

CONSTANTS
  Nodes,          \* node ids of the graph
  Enabled,        \* the axes run() starts a loop for
  Partial,        \* the server may return pages that are not the whole gap set
  PollMayFail,    \* a bulk poll may be lost to an error other than a 429
  ChannelSize,    \* work items the axis channel and its workers hold
  RelSize,        \* buffer of the release channel
  maxDrainSkips,  \* cycles the drain gate skips before it forces a scan
  MaxCollects,    \* bound: collects that run
  MaxGen,         \* bound: dirty generations of an axis
  MaxFaults       \* bound: scan, call, flush and verdict failures

Axis == {"summary", "embed"}

ASSUME CollectorAssumption ==
  /\ Enabled \subseteq Axis
  /\ Partial \in BOOLEAN /\ PollMayFail \in BOOLEAN
  /\ ChannelSize \in Nat /\ RelSize \in Nat /\ maxDrainSkips \in Nat
  /\ MaxCollects \in Nat /\ MaxGen \in Nat /\ MaxFaults \in Nat

VARIABLES
  \* The server: rows an axis still has to enrich, its dirty generation, and
  \* whether the account's watermark moved since a tool call compared it.
  gap, gen, moved,
  \* The gen poll: a poll is owed, its shared snapshot, the wakes it pokes.
  genPollWake, sampled, snap, wake,
  \* The collect runtime: the state of the gate, whether the run may still
  \* upload rows, completed collects.
  collect, landing, epoch,
  \* The loops: program counter, in-flight set, page in hand and whether the
  \* server called it the complete gap set, drain skips, watermark.
  pc, inFlight, items, complete, skipped, lastGen,
  \* Embed-loop latches, and the collector's heal flag.
  pendingSinceFlush, healArmed, healDisarmed,
  \* The drain stamps and the balance verdict's epoch bookkeeping.
  drainedAtEpoch, want, balanceEvaluatedAtEpoch,
  \* Jobs per node: pushed and not yet written back; written back and not
  \* yet released; in the release channel.
  open, landed, release,
  \* The engine holds staged documents that no flush has sealed.
  unsealed,
  \* History: nodes pruned from the in-flight set while a job held them.
  prunedLive,
  ctxDone, faults

serverVars == <<gap, gen, moved>>
pollVars   == <<genPollWake, sampled, snap, wake>>
gateVars   == <<collect, landing, epoch>>
scanVars   == <<inFlight, items, complete, skipped, lastGen, prunedLive>>
latchVars  == <<pendingSinceFlush, healArmed, healDisarmed>>
stampVars  == <<drainedAtEpoch, want, balanceEvaluatedAtEpoch>>
jobVars    == <<open, landed, release>>

vars == <<serverVars, pollVars, gateVars, pc, scanVars, latchVars, stampVars,
          jobVars, unsealed, ctxDone, faults>>

PC == {"top", "gate", "discover", "push", "flush", "stamp", "heal",
       "quiesce", "want", "seal", "verdict", "sleep", "idle", "done"}

Jobs(a, n) == open[a][n] + landed[a][n] + release[a][n]

\* One job more, one job less, of a node on an axis.
Up(f, a, n)   == [f EXCEPT ![a][n] = @ + 1]
Down(f, a, n) == [f EXCEPT ![a][n] = @ - 1]

Total(f) == FoldFunction(LAMBDA x, y : x + y, 0, f)

NoJobs == [n \in Nodes |-> 0]

Init ==
  /\ gap \in [Axis -> SUBSET Nodes] /\ gen = [a \in Axis |-> 1]
  /\ \A a \in Axis \ Enabled : gap[a] = {}
  /\ moved = TRUE /\ genPollWake = TRUE
  /\ sampled = FALSE /\ snap = [a \in Axis |-> 0]
  /\ wake = [a \in Axis |-> FALSE]
  /\ collect = "none" /\ landing = FALSE /\ epoch = 0
  /\ pc = [a \in Axis |-> IF a \in Enabled THEN "top" ELSE "done"]
  /\ inFlight = [a \in Axis |-> {}] /\ items = [a \in Axis |-> {}]
  /\ complete = [a \in Axis |-> FALSE] /\ skipped = [a \in Axis |-> 0]
  /\ lastGen = [a \in Axis |-> 0] /\ prunedLive = [a \in Axis |-> {}]
  /\ pendingSinceFlush = FALSE /\ healArmed = FALSE /\ healDisarmed = FALSE
  /\ drainedAtEpoch = [a \in Axis |-> 0] /\ want = [a \in Axis |-> 0]
  /\ balanceEvaluatedAtEpoch = 0
  /\ open = [a \in Axis |-> NoJobs] /\ landed = [a \in Axis |-> NoJobs]
  /\ release = [a \in Axis |-> NoJobs]
  /\ unsealed = FALSE /\ ctxDone = FALSE /\ faults = 0

Goto(a, l) == pc' = [pc EXCEPT ![a] = l]

Fault == faults < MaxFaults /\ faults' = faults + 1
-----------------------------------------------------------------------------
(***************************************************************************)
(* The loop of one axis: runLoop.                                          *)
(***************************************************************************)

\* Mutant: the stamp of the previous iteration is left standing.
MutLoopTopKeepsStamp(a) ==
  /\ pc[a] = "top"
  /\ release' = [release EXCEPT ![a] = NoJobs]
  /\ LET held == {n \in inFlight[a] : release[a][n] = 0}
         wait == held # {} /\ skipped[a] < maxDrainSkips
     IN  /\ inFlight' = [inFlight EXCEPT ![a] = held]
         /\ skipped' = [skipped EXCEPT ![a] = IF wait THEN @ + 1 ELSE 0]
         /\ Goto(a, IF wait THEN "sleep" ELSE "gate")
  /\ UNCHANGED <<serverVars, pollVars, gateVars, items, complete, lastGen,
                 prunedLive, latchVars, stampVars, open, landed, unsealed,
                 ctxDone, faults>>

\* Clear the stamp, drain the releases, and pass the drain gate or skip.
LoopTop(a) ==
  /\ pc[a] = "top"
  /\ drainedAtEpoch' = [drainedAtEpoch EXCEPT ![a] = 0]
  /\ release' = [release EXCEPT ![a] = NoJobs]
  /\ LET held == {n \in inFlight[a] : release[a][n] = 0}
         wait == held # {} /\ skipped[a] < maxDrainSkips
     IN  /\ inFlight' = [inFlight EXCEPT ![a] = held]
         /\ skipped' = [skipped EXCEPT ![a] = IF wait THEN @ + 1 ELSE 0]
         /\ Goto(a, IF wait THEN "sleep" ELSE "gate")
  /\ UNCHANGED <<serverVars, pollVars, gateVars, items, complete, lastGen,
                 prunedLive, latchVars, want, balanceEvaluatedAtEpoch, open,
                 landed, unsealed, ctxDone, faults>>

\* The collect gate: no cap, and the sleep leaves a queued wake queued.
CollectGate(a) ==
  /\ pc[a] = "gate"
  /\ Goto(a, IF collect = "running" THEN "sleep" ELSE "discover")
  /\ UNCHANGED <<serverVars, pollVars, gateVars, scanVars, latchVars,
                 stampVars, jobVars, unsealed, ctxDone, faults>>

\* sleepFor: the drain, gate and backoff sleeps end on their timer only.
Wakeup(a) ==
  /\ pc[a] = "sleep"
  /\ Goto(a, "top")
  /\ UNCHANGED <<serverVars, pollVars, gateVars, scanVars, latchVars,
                 stampVars, jobVars, unsealed, ctxDone, faults>>

\* The in-flight ids a page prunes, and the live ones among them.
prune(a, page) ==
  /\ inFlight' = [inFlight EXCEPT ![a] = @ \cap page]
  /\ prunedLive' = [prunedLive EXCEPT ![a] =
                      @ \cup {n \in inFlight[a] \ page : Jobs(a, n) > 0}]

\* discover's 0-RPC tick: the snapshot shows the watermark's generation.
CheapTick(a) ==
  /\ pc[a] = "discover"
  /\ sampled /\ snap[a] = lastGen[a]
  /\ items' = [items EXCEPT ![a] = {}]
  /\ complete' = [complete EXCEPT ![a] = TRUE]
  /\ prune(a, {})
  /\ Goto(a, "push")
  /\ UNCHANGED <<serverVars, pollVars, gateVars, skipped, lastGen, latchVars,
                 stampVars, jobVars, unsealed, ctxDone, faults>>

NeedsScan(a) == pc[a] = "discover" /\ ~(sampled /\ snap[a] = lastGen[a])

\* The pages the server may answer a scan with.  One that has seen the
\* current generation gets the empty complete page; otherwise a page is some
\* of the gap, and only one that is all of it is called complete.
ScanPages(a) ==
  IF lastGen[a] = gen[a] THEN {[page |-> {}, whole |-> TRUE]}
  ELSE {r \in [page : SUBSET gap[a], whole : BOOLEAN] :
          /\ r.whole => r.page = gap[a]
          /\ ~r.whole => Partial}

\* Mutant: any empty page advances the watermark.
MutAdvance(a, r) == IF r.page = {} THEN gen[a] ELSE lastGen[a]

\* Mutant: every page advances the watermark.
MutAdvanceEager(a, r) == gen[a]

\* The watermark advances only on an empty page that is the whole gap set.
Advance(a, r) ==
  IF r.page = {} /\ r.whole THEN gen[a] ELSE lastGen[a]

\* scanGaps answers; discover advances the watermark and the loop prunes.
Scan(a) ==
  /\ NeedsScan(a)
  /\ \E r \in ScanPages(a) :
       /\ items' = [items EXCEPT ![a] = r.page]
       /\ complete' = [complete EXCEPT ![a] = r.whole]
       /\ lastGen' = [lastGen EXCEPT ![a] = Advance(a, r)]
       /\ prune(a, r.page)
  /\ Goto(a, "push")
  /\ UNCHANGED <<serverVars, pollVars, gateVars, skipped, latchVars,
                 stampVars, jobVars, unsealed, ctxDone, faults>>

\* A failed scan backs off.
ScanFails(a) ==
  /\ NeedsScan(a)
  /\ Fault
  /\ Goto(a, "sleep")
  /\ UNCHANGED <<serverVars, pollVars, gateVars, scanVars, latchVars,
                 stampVars, jobVars, unsealed, ctxDone>>

\* endLaneOnDurableNotFound: the lane of this axis ends for good.
ScanNotFound(a) ==
  /\ NeedsScan(a)
  /\ Fault
  /\ Goto(a, "done")
  /\ UNCHANGED <<serverVars, pollVars, gateVars, scanVars, latchVars,
                 stampVars, jobVars, unsealed, ctxDone>>

\* Mutant: the page is pushed whole, in-flight nodes included.
MutFresh(a) == {n \in items[a] : open[a][n] < 2}

\* What pushNewItems still has to push: a pushed node is in flight at once.
Fresh(a) == items[a] \ inFlight[a]

Push(a) ==
  /\ pc[a] = "push"
  /\ Total(open[a]) < ChannelSize
  /\ \E n \in Fresh(a) :
       /\ open' = Up(open, a, n)
       /\ inFlight' = [inFlight EXCEPT ![a] = @ \cup {n}]
  /\ UNCHANGED <<serverVars, pollVars, gateVars, pc, items, complete, skipped,
                 lastGen, prunedLive, latchVars, stampVars, landed, release,
                 unsealed, ctxDone, faults>>

\* The page is pushed.  Work on the axis arms both embed latches; a drained
\* embed axis with work behind it goes to the quiescence flush.
Settle(a) ==
  /\ pc[a] = "push"
  /\ Fresh(a) = {}
  /\ LET work == items[a] # {} \/ inFlight[a] # {}
     IN  /\ pendingSinceFlush' = (pendingSinceFlush \/ (work /\ a = "embed"))
         /\ healArmed' = (healArmed \/ (work /\ a = "embed"))
         /\ Goto(a, IF work THEN "quiesce"
                    ELSE IF a = "embed" /\ pendingSinceFlush THEN "flush"
                    ELSE "stamp")
         /\ complete' = [complete EXCEPT ![a] = @ /\ ~work]
  /\ items' = [items EXCEPT ![a] = {}]
  /\ UNCHANGED <<serverVars, pollVars, gateVars, inFlight, skipped, lastGen,
                 prunedLive, healDisarmed, stampVars, jobVars, unsealed,
                 ctxDone, faults>>

\* The flush seals the staged documents or fails; the latch clears anyway.
QuiescenceFlush(a) ==
  /\ pc[a] = "flush"
  /\ \/ unsealed' = FALSE /\ UNCHANGED faults
     \/ Fault /\ UNCHANGED unsealed
  /\ pendingSinceFlush' = FALSE
  /\ Goto(a, "stamp")
  /\ UNCHANGED <<serverVars, pollVars, gateVars, scanVars, healArmed,
                 healDisarmed, stampVars, jobVars, ctxDone>>

\* Stamp the drain with the epoch read now, if the set was complete.
StampDrain(a) ==
  /\ pc[a] = "stamp"
  /\ drainedAtEpoch' =
       [drainedAtEpoch EXCEPT ![a] = IF complete[a] THEN epoch + 1 ELSE @]
  /\ complete' = [complete EXCEPT ![a] = FALSE]
  /\ Goto(a, IF a = "embed" /\ healArmed THEN "heal" ELSE "quiesce")
  /\ UNCHANGED <<serverVars, pollVars, gateVars, inFlight, items, skipped,
                 lastGen, prunedLive, latchVars, want,
                 balanceEvaluatedAtEpoch, jobVars, unsealed, ctxDone, faults>>

\* Mutant: a failed heal check stays armed.
MutHealCheck(a) ==
  /\ pc[a] = "heal"
  /\ UNCHANGED <<latchVars, faults>>
  /\ Goto(a, "quiesce")
  /\ UNCHANGED <<serverVars, pollVars, gateVars, scanVars, stampVars, jobVars,
                 unsealed, ctxDone>>

\* The heal closure fires once and disarms the latch, whatever it returns;
\* ErrHealDisarmed also latches the collector's flag.
HealCheck(a) ==
  /\ pc[a] = "heal"
  /\ healArmed' = FALSE
  /\ \/ UNCHANGED <<healDisarmed, faults>>
     \/ Fault /\ healDisarmed' = TRUE
  /\ Goto(a, "quiesce")
  /\ UNCHANGED <<serverVars, pollVars, gateVars, scanVars, pendingSinceFlush,
                 stampVars, jobVars, unsealed, ctxDone>>

\* quiescentBothAxes: every running axis stamped at the current epoch.
quiescentBothAxes ==
  \A b \in Enabled : drainedAtEpoch[b] = epoch + 1

Quiesce(a) ==
  /\ pc[a] = "quiesce"
  /\ Goto(a, IF quiescentBothAxes THEN "want" ELSE "idle")
  /\ UNCHANGED <<serverVars, pollVars, gateVars, scanVars, latchVars,
                 stampVars, jobVars, unsealed, ctxDone, faults>>

\* The epoch is read again, and compared with the last verdict's.
CheckEvaluated(a) ==
  /\ pc[a] = "want"
  /\ \/ /\ balanceEvaluatedAtEpoch = epoch + 1
        /\ Goto(a, "idle") /\ UNCHANGED want
     \/ /\ balanceEvaluatedAtEpoch # epoch + 1
        /\ want' = [want EXCEPT ![a] = epoch + 1] /\ Goto(a, "seal")
  /\ UNCHANGED <<serverVars, pollVars, gateVars, scanVars, latchVars,
                 drainedAtEpoch, balanceEvaluatedAtEpoch, jobVars, unsealed,
                 ctxDone, faults>>

\* The pre-verdict seal; its failure declines the verdict.
SealBeforeVerdict(a) ==
  /\ pc[a] = "seal"
  /\ \/ unsealed' = FALSE /\ Goto(a, "verdict") /\ UNCHANGED <<want, faults>>
     \/ /\ Fault /\ Goto(a, "idle") /\ UNCHANGED unsealed
        /\ want' = [want EXCEPT ![a] = 0]
  /\ UNCHANGED <<serverVars, pollVars, gateVars, scanVars, latchVars,
                 drainedAtEpoch, balanceEvaluatedAtEpoch, jobVars, ctxDone>>

\* Stamp the epoch as judged, then call the verdict.
Verdict(a) ==
  /\ pc[a] = "verdict"
  /\ balanceEvaluatedAtEpoch' = want[a]
  /\ want' = [want EXCEPT ![a] = 0]
  /\ Goto(a, "idle")
  /\ UNCHANGED <<serverVars, pollVars, gateVars, scanVars, latchVars,
                 drainedAtEpoch, jobVars, unsealed, ctxDone, faults>>

\* The idle sleep ends on its timer.
IdleTimer(a) ==
  /\ pc[a] = "idle"
  /\ Goto(a, "top")
  /\ UNCHANGED <<serverVars, pollVars, gateVars, scanVars, latchVars,
                 stampVars, jobVars, unsealed, ctxDone, faults>>

\* Or it consumes a wake, which arms the heal check of the embed loop.
IdleWake(a) ==
  /\ pc[a] = "idle"
  /\ wake[a]
  /\ wake' = [wake EXCEPT ![a] = FALSE]
  /\ healArmed' = (healArmed \/ (a = "embed" /\ ~healDisarmed))
  /\ Goto(a, "top")
  /\ UNCHANGED <<serverVars, genPollWake, sampled, snap, gateVars, scanVars,
                 pendingSinceFlush, healDisarmed, stampVars, jobVars,
                 unsealed, ctxDone, faults>>

\* A cancelled collector leaves its loops from any sleep and any push.
LoopExit(a) ==
  /\ ctxDone
  /\ pc[a] \in {"sleep", "idle", "push"}
  /\ pc[a] = "push" => Fresh(a) # {}
  /\ Goto(a, "done")
  /\ UNCHANGED <<serverVars, pollVars, gateVars, scanVars, latchVars,
                 stampVars, jobVars, unsealed, ctxDone, faults>>

\* What the goroutine does when its scans succeed.
LoopStep(a) ==
  \/ LoopTop(a) \/ CollectGate(a) \/ Wakeup(a) \/ CheapTick(a) \/ Scan(a)
  \/ Push(a) \/ Settle(a) \/ QuiescenceFlush(a) \/ StampDrain(a)
  \/ HealCheck(a) \/ Quiesce(a) \/ CheckEvaluated(a) \/ SealBeforeVerdict(a)
  \/ Verdict(a) \/ IdleTimer(a) \/ IdleWake(a) \/ LoopExit(a)

Loop(a) == LoopStep(a) \/ ScanFails(a) \/ ScanNotFound(a)
-----------------------------------------------------------------------------
(***************************************************************************)
(* The workers, one item of a lease at a time.                             *)
(***************************************************************************)

\* Rows that a write opens on an axis advance its dirty generation and the
\* watermark of the account.
Opens(a, n) ==
  /\ gen[a] < MaxGen
  /\ gap' = [gap EXCEPT ![a] = @ \cup {n}]
  /\ gen' = [gen EXCEPT ![a] = @ + 1]
  /\ moved' = TRUE

\* The lease's writeback, or a terminal marker, takes the row out of the gap;
\* a summary makes its row eligible for embedding again.
WriteLands(a, n) ==
  /\ open[a][n] > 0
  /\ open' = Down(open, a, n)
  /\ landed' = Up(landed, a, n)
  /\ \/ gap' = [gap EXCEPT ![a] = @ \ {n}] /\ UNCHANGED <<gen, moved>>
     \/ /\ a = "summary" /\ "embed" \in Enabled /\ gen["embed"] < MaxGen
        /\ gap' = [gap EXCEPT !["summary"] = @ \ {n},
                              !["embed"] = @ \cup {n}]
        /\ gen' = [gen EXCEPT !["embed"] = @ + 1]
        /\ moved' = TRUE
  /\ UNCHANGED <<pollVars, gateVars, pc, scanVars, latchVars, stampVars,
                 release, unsealed, ctxDone, faults>>

\* releaseInFlight: a send that would block is dropped.
Sent(a, n) ==
  IF Total(release[a]) < RelSize THEN Up(release, a, n) ELSE release

\* An embed lease stages its vectors in the engine (unless the ship fails),
\* then the deferred release runs.
FinishJob(a, n) ==
  /\ landed[a][n] > 0
  /\ landed' = Down(landed, a, n)
  /\ release' = Sent(a, n)
  /\ \/ UNCHANGED unsealed
     \/ a = "embed" /\ unsealed' = TRUE
  /\ UNCHANGED <<serverVars, pollVars, gateVars, pc, scanVars, latchVars,
                 stampVars, open, ctxDone, faults>>

\* A failed call writes nothing, or panics and is marked later: the row is
\* released still in the gap.
JobFails(a, n) ==
  /\ open[a][n] > 0
  /\ Fault
  /\ open' = Down(open, a, n)
  /\ release' = Sent(a, n)
  /\ UNCHANGED <<serverVars, pollVars, gateVars, pc, scanVars, latchVars,
                 stampVars, landed, unsealed, ctxDone>>

\* A row leaves the gap by another hand: the marker of a recovered panic, a
\* deletion, another client.
RowLeaves(a, n) ==
  /\ n \in gap[a]
  /\ Fault
  /\ gap' = [gap EXCEPT ![a] = @ \ {n}]
  /\ UNCHANGED <<gen, moved, pollVars, gateVars, pc, scanVars, latchVars,
                 stampVars, jobVars, unsealed, ctxDone>>

Work(a, n) ==
  WriteLands(a, n) \/ FinishJob(a, n) \/ JobFails(a, n) \/ RowLeaves(a, n)
-----------------------------------------------------------------------------
(***************************************************************************)
(* The collect runtime, the gen poll and whoever wakes or cancels.         *)
(***************************************************************************)
CollectStarts ==
  /\ collect = "none"
  /\ epoch < MaxCollects
  /\ collect' = "running" /\ landing' = TRUE
  /\ UNCHANGED <<serverVars, pollVars, epoch, pc, scanVars, latchVars,
                 stampVars, jobVars, unsealed, ctxDone, faults>>

CollectLands(a, n) ==
  /\ landing
  /\ Opens(a, n)
  /\ UNCHANGED <<pollVars, gateVars, pc, scanVars, latchVars, stampVars,
                 jobVars, unsealed, ctxDone, faults>>

\* The rows are uploaded: WakeAll, which owes a poll and touches no axis, and
\* which the run calls while it still holds the gate.
CollectWakes ==
  /\ landing
  /\ landing' = FALSE
  /\ genPollWake' = TRUE
  /\ UNCHANGED <<serverVars, sampled, snap, wake, collect, epoch, pc, scanVars,
                 latchVars, stampVars, jobVars, unsealed, ctxDone, faults>>

\* A gate held past collectGateMaxHold no longer counts.
GateExpires ==
  /\ collect = "running"
  /\ Fault
  /\ collect' = "expired"
  /\ UNCHANGED <<serverVars, pollVars, landing, epoch, pc, scanVars, latchVars,
                 stampVars, jobVars, unsealed, ctxDone>>

\* One critical section lowers the gate and advances the epoch; a run that
\* failed on the way gets here without the wake.
CollectEnds ==
  /\ collect # "none"
  /\ collect' = "none" /\ landing' = FALSE
  /\ epoch' = epoch + 1
  /\ UNCHANGED <<serverVars, pollVars, pc, scanVars, latchVars, stampVars,
                 jobVars, unsealed, ctxDone, faults>>

\* The activity hook of a tool call: a watermark that moved owes a poll.  The
\* cool-off only delays it, since pending survives to a later call.
ToolCall ==
  /\ moved
  /\ moved' = FALSE
  /\ genPollWake' = TRUE
  /\ UNCHANGED <<gap, gen, sampled, snap, wake, gateVars, pc, scanVars,
                 latchVars, stampVars, jobVars, unsealed, ctxDone, faults>>

\* The bulk poll folds the generations into the snapshot and pokes the axes
\* that advanced past what it last poked on.
GenPoll ==
  /\ genPollWake
  /\ genPollWake' = FALSE
  /\ sampled' = TRUE
  /\ snap' = gen
  /\ wake' = [a \in Axis |-> wake[a] \/ (gen[a] > snap[a] /\ a \in Enabled)]
  /\ UNCHANGED <<serverVars, gateVars, pc, scanVars, latchVars, stampVars,
                 jobVars, unsealed, ctxDone, faults>>

\* A poll lost to a plain error is not retried; one lost to a 429 stays owed,
\* which is a later GenPoll.
GenPollFails ==
  /\ genPollWake
  /\ PollMayFail
  /\ Fault
  /\ genPollWake' = FALSE
  /\ UNCHANGED <<serverVars, sampled, snap, wake, gateVars, pc, scanVars,
                 latchVars, stampVars, jobVars, unsealed, ctxDone>>

\* UnregisterGraph, or the end of the pipeline's context.
CancelCollector ==
  /\ ~ctxDone
  /\ Fault
  /\ ctxDone' = TRUE
  /\ UNCHANGED <<serverVars, pollVars, gateVars, pc, scanVars, latchVars,
                 stampVars, jobVars, unsealed>>

Next ==
  \/ \E a \in Enabled :
       Loop(a) \/ \E n \in Nodes : Work(a, n) \/ CollectLands(a, n)
  \/ CollectStarts \/ CollectWakes \/ GateExpires \/ CollectEnds
  \/ ToolCall \/ GenPoll \/ GenPollFails \/ CancelCollector

Spec == Init /\ [][Next]_vars

\* The goroutines run, an owed poll is made, a collect ends, a provider call
\* returns, and the user stays active: a tool call follows a watermark that
\* moved, the premise the client's activity hook is written on.
Fairness ==
  /\ \A a \in Axis :
       /\ WF_vars(LoopStep(a))
       /\ \A n \in Nodes : WF_vars(WriteLands(a, n)) /\ WF_vars(FinishJob(a, n))
  /\ WF_vars(GenPoll) /\ WF_vars(ToolCall) /\ WF_vars(CollectEnds)

FairSpec == Spec /\ Fairness
-----------------------------------------------------------------------------
(***************************************************************************)
(* Properties.                                                             *)
(***************************************************************************)
Counts == [Axis -> [Nodes -> Nat]]

\* Every variable has its type (the collector's fields, the locals of the
\* two runLoop goroutines, the channels between them and the workers).
TypeOK ==
  /\ gap \in [Axis -> SUBSET Nodes] /\ gen \in [Axis -> Nat]
  /\ moved \in BOOLEAN /\ genPollWake \in BOOLEAN
  /\ sampled \in BOOLEAN /\ snap \in [Axis -> Nat]
  /\ wake \in [Axis -> BOOLEAN]
  /\ collect \in {"none", "running", "expired"} /\ landing \in BOOLEAN
  /\ epoch \in Nat
  /\ pc \in [Axis -> PC]
  /\ inFlight \in [Axis -> SUBSET Nodes] /\ items \in [Axis -> SUBSET Nodes]
  /\ complete \in [Axis -> BOOLEAN] /\ skipped \in [Axis -> 0..maxDrainSkips]
  /\ lastGen \in [Axis -> Nat] /\ prunedLive \in [Axis -> SUBSET Nodes]
  /\ pendingSinceFlush \in BOOLEAN /\ healArmed \in BOOLEAN
  /\ healDisarmed \in BOOLEAN
  /\ drainedAtEpoch \in [Axis -> Nat] /\ want \in [Axis -> Nat]
  /\ balanceEvaluatedAtEpoch \in Nat
  /\ open \in Counts /\ landed \in Counts /\ release \in Counts
  /\ unsealed \in BOOLEAN /\ ctxDone \in BOOLEAN /\ faults \in Nat

\* An axis whose watermark has caught up with the server's dirty generation
\* has no gap: discover may skip the scan, and so may the server, on exactly
\* the generations nothing is left to enrich at.
WatermarkMeansDrained ==
  \A a \in Axis : /\ lastGen[a] <= gen[a]
                  /\ lastGen[a] = gen[a] => gap[a] = {}

\* The in-flight set is what stops a slow worker's rows from being queued
\* again: a node has one job at most, and while it has one it is in flight,
\* unless a page pruned it from the set while that job was outstanding.
OneJobUnlessPruned ==
  \A a \in Axis : \A n \in Nodes \ prunedLive[a] :
    /\ Jobs(a, n) <= 1
    /\ Jobs(a, n) = 1 => n \in inFlight[a]

\* A drain stamp stands only between the drain that earned it and the next
\* iteration's first step: the axis then holds no page, nothing in flight
\* and, pruned nodes aside, no worker has a row of it; it is no later than
\* the current epoch.
StampStandsAtRest ==
  \A a \in Axis : drainedAtEpoch[a] # 0 =>
    /\ pc[a] \in {"top", "heal", "quiesce", "want", "seal", "verdict",
                  "idle", "done"}
    /\ items[a] = {} /\ inFlight[a] = {}
    /\ \A n \in Nodes \ prunedLive[a] : Jobs(a, n) = 0
    /\ drainedAtEpoch[a] <= epoch + 1

\* Every gap of a running axis is eventually empty: across wakes and polls
\* that come late, a collect that holds the gate, failed calls, failed scans
\* and failed flushes (but not across a release dropped on a full channel,
\* see NoRowStranded, nor a poll lost to an error).
GapsDrain ==
  \A a \in Enabled : gap[a] # {} ~> (gap[a] = {} \/ pc[a] = "done")

\* An armed heal check fires: the embed loop reaches a drain edge and
\* consumes the latch.
HealFires == healArmed ~> (~healArmed \/ pc["embed"] = "done")
-----------------------------------------------------------------------------
(***************************************************************************)
(* Further claims of the code's comments.  No recorded run checks them; the*)
(* README names an instance that refutes each.                             *)
(***************************************************************************)

\* What maybeBalanceAtQuiescence claims: no second verdict for an epoch that
\* already has one.
OneVerdictPerCollect ==
  \A a \in Axis : pc[a] = "verdict" => balanceEvaluatedAtEpoch # want[a]

\* What the drain gate's cap claims: a release that was dropped cannot wedge
\* the collector, so a row with no job is given one or leaves the gap.
NoRowStranded ==
  \A a \in Enabled, n \in Nodes :
    (n \in gap[a] /\ Jobs(a, n) = 0)
      ~> (n \notin gap[a] \/ Jobs(a, n) > 0 \/ pc[a] = "done")

\* What quiescentBothAxes claims: when the verdict of the current epoch is
\* about to be called and no collect is running, every axis has drained.
VerdictSeesDrainedAxes ==
  \A a \in Axis : pc[a] = "verdict" /\ want[a] = epoch + 1 /\ collect = "none"
                    => \A b \in Enabled : gap[b] = {}

\* What the comment at the quiescence flush claims: when the flush fires,
\* every embedded document has been staged in the engine.
FlushAfterStaging ==
  \A a \in Axis : pc[a] = "flush" => \A n \in Nodes : landed["embed"][n] = 0

\* What healDisarmed claims: a disarmed graph stops invoking the closure.
DisarmedStaysQuiet ==
  \A a \in Axis : pc[a] = "heal" => ~healDisarmed

\* What the forced rescan claims: it is dedup-safe, so no node ever has two
\* jobs on an axis.
ForcedScanDedups ==
  \A a \in Axis, n \in Nodes : open[a][n] + landed[a][n] <= 1
=============================================================================
