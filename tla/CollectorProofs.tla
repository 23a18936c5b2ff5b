-------------------------- MODULE CollectorProofs --------------------------
(***************************************************************************)
(* The safety of Collector for every set of nodes, every choice of enabled *)
(* axes and every channel size.  The watermark's invariant is inductive as *)
(* it stands; the in-flight accounting needs only the types; the stamp     *)
(* needs both the accounting and what the loop knows between its drain     *)
(* test and its stamp.                                                     *)
(***************************************************************************)
EXTENDS Collector, TLAPS

\* Three counts that add up to at most one, and not to one, add up to zero.
LEMMA NoneOfThree ==
  ASSUME NEW x \in Nat, NEW y \in Nat, NEW z \in Nat,
         x + y + z <= 1, x + y + z # 1
  PROVE  x + y + z = 0
OBVIOUS

\* Counts are numbers.
LEMMA CountsAreNat ==
  ASSUME NEW f \in Counts
  PROVE  \A b \in Axis, k \in Nodes : f[b][k] \in Nat
BY DEF Counts

\* A count stepped up stays a table of counts and moves one entry only.
LEMMA CountUp ==
  ASSUME NEW f \in Counts, NEW a \in Axis, NEW n \in Nodes
  PROVE  /\ Up(f, a, n) \in Counts
         /\ \A b \in Axis, k \in Nodes : Up(f, a, n)[b][k] =
              IF b = a /\ k = n THEN f[b][k] + 1 ELSE f[b][k]
BY DEF Counts, Up

\* So does a positive count stepped down.
LEMMA CountDown ==
  ASSUME NEW f \in Counts, NEW a \in Axis, NEW n \in Nodes, f[a][n] > 0
  PROVE  /\ Down(f, a, n) \in Counts
         /\ \A b \in Axis, k \in Nodes : Down(f, a, n)[b][k] =
              IF b = a /\ k = n THEN f[b][k] - 1 ELSE f[b][k]
<1>1. f[a][n] \in Nat /\ f[a] \in [Nodes -> Nat]
  BY DEF Counts
<1>2. f[a][n] - 1 \in Nat
  BY <1>1
<1> QED
  BY <1>1, <1>2 DEF Counts, Down

\* A release is recorded or dropped; no other count moves.
LEMMA SentStep ==
  ASSUME release \in Counts, NEW a \in Axis, NEW n \in Nodes
  PROVE  /\ Sent(a, n) \in Counts
         /\ \A b \in Axis, k \in Nodes :
              \/ Sent(a, n)[b][k] = release[b][k]
              \/ b = a /\ k = n /\ Sent(a, n)[b][k] = release[b][k] + 1
<1>1. CASE Sent(a, n) = release
  BY <1>1
<1>2. CASE Sent(a, n) = Up(release, a, n)
  BY <1>2, CountUp
<1> QED
  BY <1>1, <1>2 DEF Sent

\* What a scan may return.
LEMMA PageType ==
  ASSUME TypeOK, NEW a \in Axis, NEW r \in ScanPages(a)
  PROVE  /\ r.page \subseteq Nodes /\ r.whole \in BOOLEAN
         /\ r.page = {} /\ r.whole /\ lastGen[a] # gen[a] => gap[a] = {}
<1>1. CASE lastGen[a] = gen[a]
  <2>1. r = [page |-> {}, whole |-> TRUE]
    BY <1>1 DEF ScanPages
  <2> QED
    BY <1>1, <2>1
<1>2. CASE lastGen[a] # gen[a]
  <2>1. /\ r \in [page : SUBSET gap[a], whole : BOOLEAN]
        /\ r.whole => r.page = gap[a]
    BY <1>2 DEF ScanPages
  <2>2. gap[a] \subseteq Nodes
    BY DEF TypeOK
  <2>3. r.page \subseteq gap[a]
    BY <2>1
  <2>4. r.whole \in BOOLEAN
    BY <2>1, Zenon
  <2> QED
    BY <2>1, <2>2, <2>3, <2>4, Zenon
<1> QED
  BY <1>1, <1>2

\* Every step keeps the types.
LEMMA TypeStep ==
  ASSUME TypeOK, [Next]_vars
  PROVE  TypeOK'
<1> USE CollectorAssumption DEF TypeOK, NoJobs, PC, serverVars, pollVars, gateVars, scanVars, latchVars, stampVars, jobVars
<1>1. CASE UNCHANGED vars
  BY <1>1 DEF vars
<1>2. ASSUME NEW a \in Enabled, Loop(a)
      PROVE  TypeOK'
  <2> a \in Axis
    BY <1>2
  <2>1. CASE LoopTop(a)
    <3>1. /\ inFlight' \in [Axis -> SUBSET Nodes]
          /\ skipped' \in [Axis -> 0..maxDrainSkips]
          /\ pc' \in [Axis -> PC]
      BY <2>1 DEF LoopTop, Goto
    <3>2. release' \in Counts /\ drainedAtEpoch' \in [Axis -> Nat]
      BY <2>1 DEF LoopTop, Counts
    <3> QED
      BY <2>1, <3>1, <3>2 DEF LoopTop
  <2>2. CASE CollectGate(a)
    BY <2>2 DEF CollectGate, Goto
  <2>3. CASE Wakeup(a)
    BY <2>3 DEF Wakeup, Goto
  <2>4. CASE CheapTick(a)
    BY <2>4 DEF CheapTick, Goto, prune
  <2>5. CASE Scan(a)
    <3>1. PICK r \in ScanPages(a) :
            /\ items' = [items EXCEPT ![a] = r.page]
            /\ complete' = [complete EXCEPT ![a] = r.whole]
            /\ lastGen' = [lastGen EXCEPT ![a] = Advance(a, r)]
            /\ prune(a, r.page)
      BY <2>5 DEF Scan
    <3>2. r.page \subseteq Nodes /\ r.whole \in BOOLEAN
      BY <3>1, PageType
    <3>3. Advance(a, r) \in Nat
      BY DEF Advance
    <3>4. inFlight' \in [Axis -> SUBSET Nodes] /\ prunedLive' \in [Axis -> SUBSET Nodes]
      BY <3>1, <3>2 DEF prune
    <3> QED
      BY <2>5, <3>1, <3>2, <3>3, <3>4 DEF Scan, Goto
  <2>6. CASE Push(a)
    <3>1. PICK n \in Fresh(a) :
            /\ open' = Up(open, a, n)
            /\ inFlight' = [inFlight EXCEPT ![a] = @ \cup {n}]
      BY <2>6 DEF Push
    <3>2. n \in Nodes
      BY <3>1 DEF Fresh
    <3>3. open' \in Counts
      BY <3>1, <3>2, CountUp
    <3> QED
      BY <2>6, <3>1, <3>2, <3>3 DEF Push
  <2>7. CASE Settle(a)
    BY <2>7 DEF Settle, Goto, Fresh
  <2>8. CASE QuiescenceFlush(a)
    <3>1. unsealed' \in BOOLEAN
      BY <2>8, Zenon DEF QuiescenceFlush
    <3>0. faults' \in Nat
      BY <2>8 DEF QuiescenceFlush, Fault
    <3> QED
      BY <2>8, <3>0, <3>1 DEF QuiescenceFlush, Goto
  <2>9. CASE StampDrain(a)
    BY <2>9 DEF StampDrain, Goto
  <2>10. CASE HealCheck(a)
    <3>1. healDisarmed' \in BOOLEAN
      BY <2>10, Zenon DEF HealCheck
    <3>0. faults' \in Nat
      BY <2>10 DEF HealCheck, Fault
    <3> QED
      BY <2>10, <3>0, <3>1 DEF HealCheck, Goto
  <2>11. CASE Quiesce(a)
    BY <2>11 DEF Quiesce, Goto
  <2>12. CASE CheckEvaluated(a)
    BY <2>12 DEF CheckEvaluated, Goto
  <2>13. CASE SealBeforeVerdict(a)
    <3>1. unsealed' \in BOOLEAN
      BY <2>13, Zenon DEF SealBeforeVerdict
    <3>0. faults' \in Nat
      BY <2>13 DEF SealBeforeVerdict, Fault
    <3>2. pc' \in [Axis -> PC] /\ want' \in [Axis -> Nat]
      BY <2>13 DEF SealBeforeVerdict, Goto
    <3> QED
      BY <2>13, <3>0, <3>1, <3>2 DEF SealBeforeVerdict
  <2>14. CASE Verdict(a)
    BY <2>14 DEF Verdict, Goto
  <2>15. CASE IdleTimer(a)
    BY <2>15 DEF IdleTimer, Goto
  <2>16. CASE IdleWake(a)
    BY <2>16 DEF IdleWake, Goto
  <2>17. CASE LoopExit(a)
    BY <2>17 DEF LoopExit, Goto, Fresh
  <2>18. CASE ScanFails(a)
    BY <2>18 DEF ScanFails, Goto, NeedsScan, Fault
  <2>19. CASE ScanNotFound(a)
    BY <2>19 DEF ScanNotFound, Goto, NeedsScan, Fault
  <2> QED
    BY <1>2, <2>1, <2>2, <2>3, <2>4, <2>5, <2>6, <2>7, <2>8, <2>9, <2>10, <2>11, <2>12, <2>13, <2>14, <2>15, <2>16, <2>17, <2>18, <2>19 DEF Loop, LoopStep
<1>3. ASSUME NEW a \in Enabled, NEW n \in Nodes,
             Work(a, n) \/ CollectLands(a, n)
      PROVE  TypeOK'
  <2> a \in Axis
    BY <1>3
  <2>1. CASE WriteLands(a, n)
    <3>1. open' \in Counts
      BY <2>1, CountDown DEF WriteLands
    <3>2. landed' \in Counts
      BY <2>1, CountUp DEF WriteLands
    <3>3. gap' \in [Axis -> SUBSET Nodes] /\ gen' \in [Axis -> Nat]
      BY <2>1 DEF WriteLands
    <3>4. moved' \in BOOLEAN
      BY <2>1, Zenon DEF WriteLands
    <3> QED
      BY <2>1, <3>1, <3>2, <3>3, <3>4 DEF WriteLands
  <2>2. CASE FinishJob(a, n)
    <3>1. landed' \in Counts
      BY <2>2, CountDown DEF FinishJob
    <3>2. release' \in Counts
      BY <2>2, SentStep DEF FinishJob
    <3>3. unsealed' \in BOOLEAN
      BY <2>2 DEF FinishJob
    <3> QED
      BY <2>2, <3>1, <3>2, <3>3 DEF FinishJob
  <2>3. CASE JobFails(a, n)
    <3>1. open' \in Counts
      BY <2>3, CountDown DEF JobFails
    <3>2. release' \in Counts
      BY <2>3, SentStep DEF JobFails
    <3> QED
      BY <2>3, <3>1, <3>2 DEF JobFails, Fault
  <2>4. CASE RowLeaves(a, n)
    BY <2>4 DEF RowLeaves, Fault
  <2>5. CASE CollectLands(a, n)
    BY <2>5 DEF CollectLands, Opens
  <2> QED
    BY <1>3, <2>1, <2>2, <2>3, <2>4, <2>5 DEF Work
<1>4. CASE CollectStarts
  BY <1>4 DEF CollectStarts
<1>5. CASE CollectWakes
  BY <1>5 DEF CollectWakes
<1>6. CASE GateExpires
  BY <1>6 DEF GateExpires, Fault
<1>7. CASE CollectEnds
  <2>1. landing' \in BOOLEAN
    BY <1>7, Zenon DEF CollectEnds
  <2>2. epoch' \in Nat
    BY <1>7 DEF CollectEnds
  <2>3. collect' \in {"none", "running", "expired"}
    BY <1>7 DEF CollectEnds
  <2> QED
    BY <1>7, <2>1, <2>2, <2>3 DEF CollectEnds
<1>8. CASE ToolCall
  BY <1>8 DEF ToolCall
<1>9. CASE GenPoll
  BY <1>9 DEF GenPoll
<1>10. CASE GenPollFails
  <2>1. genPollWake' \in BOOLEAN
    BY <1>10, Zenon DEF GenPollFails
  <2>2. faults' \in Nat
    BY <1>10 DEF GenPollFails, Fault
  <2> QED
    BY <1>10, <2>1, <2>2 DEF GenPollFails
<1>11. CASE CancelCollector
  BY <1>11 DEF CancelCollector, Fault
<1> QED
  BY <1>1, <1>2, <1>3, <1>4, <1>5, <1>6, <1>7, <1>8, <1>9, <1>10, <1>11 DEF Next

\* Every step keeps the watermark honest.
LEMMA WatermarkStep ==
  ASSUME TypeOK, WatermarkMeansDrained, [Next]_vars
  PROVE  WatermarkMeansDrained'
<1> USE CollectorAssumption DEF TypeOK, WatermarkMeansDrained, Axis, serverVars, pollVars, gateVars, scanVars, latchVars, stampVars, jobVars
<1>1. CASE UNCHANGED vars
  BY <1>1 DEF vars
<1>2. ASSUME NEW a \in Enabled, Loop(a)
      PROVE  WatermarkMeansDrained'
  <2> a \in Axis
    BY <1>2
  <2>1. CASE LoopTop(a)
    BY <2>1 DEF LoopTop, Goto
  <2>2. CASE CollectGate(a)
    BY <2>2 DEF CollectGate, Goto
  <2>3. CASE Wakeup(a)
    BY <2>3 DEF Wakeup, Goto
  <2>4. CASE CheapTick(a)
    BY <2>4 DEF CheapTick, Goto, prune
  <2>5. CASE Scan(a)
    BY <2>5 DEF Scan, Goto, prune, NeedsScan, ScanPages, Advance
  <2>6. CASE Push(a)
    BY <2>6 DEF Push, Goto, Fresh
  <2>7. CASE Settle(a)
    BY <2>7 DEF Settle, Goto, Fresh
  <2>8. CASE QuiescenceFlush(a)
    BY <2>8 DEF QuiescenceFlush, Goto, Fault
  <2>9. CASE StampDrain(a)
    BY <2>9 DEF StampDrain, Goto
  <2>10. CASE HealCheck(a)
    BY <2>10 DEF HealCheck, Goto, Fault
  <2>11. CASE Quiesce(a)
    BY <2>11 DEF Quiesce, Goto
  <2>12. CASE CheckEvaluated(a)
    BY <2>12 DEF CheckEvaluated, Goto
  <2>13. CASE SealBeforeVerdict(a)
    BY <2>13 DEF SealBeforeVerdict, Goto, Fault
  <2>14. CASE Verdict(a)
    BY <2>14 DEF Verdict, Goto
  <2>15. CASE IdleTimer(a)
    BY <2>15 DEF IdleTimer, Goto
  <2>16. CASE IdleWake(a)
    BY <2>16 DEF IdleWake, Goto
  <2>17. CASE LoopExit(a)
    BY <2>17 DEF LoopExit, Goto, Fresh
  <2>18. CASE ScanFails(a)
    BY <2>18 DEF ScanFails, Goto, NeedsScan, Fault
  <2>19. CASE ScanNotFound(a)
    BY <2>19 DEF ScanNotFound, Goto, NeedsScan, Fault
  <2> QED
    BY <1>2, <2>1, <2>2, <2>3, <2>4, <2>5, <2>6, <2>7, <2>8, <2>9, <2>10, <2>11, <2>12, <2>13, <2>14, <2>15, <2>16, <2>17, <2>18, <2>19 DEF Loop, LoopStep
<1>3. ASSUME NEW a \in Enabled, NEW n \in Nodes,
             Work(a, n) \/ CollectLands(a, n)
      PROVE  WatermarkMeansDrained'
  <2> a \in Axis
    BY <1>3
  <2>1. CASE WriteLands(a, n)
    BY <2>1 DEF WriteLands
  <2>2. CASE FinishJob(a, n)
    BY <2>2 DEF FinishJob, Sent
  <2>3. CASE JobFails(a, n)
    BY <2>3 DEF JobFails, Sent, Fault
  <2>4. CASE RowLeaves(a, n)
    BY <2>4 DEF RowLeaves, Fault
  <2>5. CASE CollectLands(a, n)
    BY <2>5 DEF CollectLands, Opens
  <2> QED
    BY <1>3, <2>1, <2>2, <2>3, <2>4, <2>5 DEF Work
<1>4. CASE CollectStarts
  BY <1>4 DEF CollectStarts
<1>5. CASE CollectWakes
  BY <1>5 DEF CollectWakes
<1>6. CASE GateExpires
  BY <1>6 DEF GateExpires, Fault
<1>7. CASE CollectEnds
  BY <1>7 DEF CollectEnds
<1>8. CASE ToolCall
  BY <1>8 DEF ToolCall
<1>9. CASE GenPoll
  BY <1>9 DEF GenPoll
<1>10. CASE GenPollFails
  BY <1>10 DEF GenPollFails, Fault
<1>11. CASE CancelCollector
  BY <1>11 DEF CancelCollector, Fault
<1> QED
  BY <1>1, <1>2, <1>3, <1>4, <1>5, <1>6, <1>7, <1>8, <1>9, <1>10, <1>11 DEF Next

\* Every step keeps the in-flight accounting.
LEMMA JobStep ==
  ASSUME TypeOK, OneJobUnlessPruned, [Next]_vars
  PROVE  OneJobUnlessPruned'
<1> USE CollectorAssumption DEF TypeOK, NoJobs, OneJobUnlessPruned, Jobs, serverVars, pollVars, gateVars, scanVars, latchVars, stampVars, jobVars
<1>1. CASE UNCHANGED vars
  BY <1>1 DEF vars
<1>2. ASSUME NEW a \in Enabled, Loop(a)
      PROVE  OneJobUnlessPruned'
  <2> a \in Axis
    BY <1>2
  <2>1. CASE LoopTop(a)
    <3>1. \A n \in Nodes : release'[a][n] = 0
      BY <2>1 DEF LoopTop, Counts
    <3>2. \A b \in Axis \ {a} : release'[b] = release[b] /\ inFlight'[b] = inFlight[b]
      BY <2>1 DEF LoopTop
    <3>3. inFlight'[a] = {n \in inFlight[a] : release[a][n] = 0}
      BY <2>1 DEF LoopTop
    <3>9. /\ \A b \in Axis, k \in Nodes : open[b][k] \in Nat
          /\ \A b \in Axis, k \in Nodes : landed[b][k] \in Nat
          /\ \A b \in Axis, k \in Nodes : release[b][k] \in Nat
      BY CountsAreNat
    <3> QED
      BY <2>1, <3>9, <3>1, <3>2, <3>3 DEF LoopTop
  <2>2. CASE CollectGate(a)
    BY <2>2 DEF CollectGate, Goto
  <2>3. CASE Wakeup(a)
    BY <2>3 DEF Wakeup, Goto
  <2>4. CASE CheapTick(a)
    BY <2>4 DEF CheapTick, Goto, prune
  <2>5. CASE Scan(a)
    BY <2>5 DEF Scan, Goto, prune, NeedsScan, ScanPages, Advance
  <2>6. CASE Push(a)
    <3>1. PICK n \in Fresh(a) :
            /\ open' = Up(open, a, n)
            /\ inFlight' = [inFlight EXCEPT ![a] = @ \cup {n}]
      BY <2>6 DEF Push
    <3>2. n \in Nodes /\ n \notin inFlight[a]
      BY <3>1 DEF Fresh
    <3>3. \A b \in Axis, k \in Nodes :
            open'[b][k] = IF b = a /\ k = n THEN open[b][k] + 1 ELSE open[b][k]
      BY <3>1, <3>2, CountUp
    <3>9. /\ \A b \in Axis, k \in Nodes : open[b][k] \in Nat
          /\ \A b \in Axis, k \in Nodes : landed[b][k] \in Nat
          /\ \A b \in Axis, k \in Nodes : release[b][k] \in Nat
      BY CountsAreNat
    <3>4. ASSUME n \notin prunedLive[a] PROVE Jobs(a, n) = 0
      <4>1. Jobs(a, n) <= 1 /\ Jobs(a, n) # 1
        BY <3>2, <3>4
      <4>2. open[a][n] \in Nat /\ landed[a][n] \in Nat /\ release[a][n] \in Nat
        BY <3>2, <3>9
      <4> HIDE DEF TypeOK, OneJobUnlessPruned
      <4> QED
        BY <4>1, <4>2, NoneOfThree
    <3>5. /\ inFlight'[a] = inFlight[a] \cup {n}
          /\ \A b \in Axis \ {a} : inFlight'[b] = inFlight[b]
      BY <3>1
    <3>6. UNCHANGED <<landed, release, prunedLive>>
      BY <2>6 DEF Push
    <3> QED
      BY <3>2, <3>3, <3>4, <3>5, <3>6, <3>9
  <2>7. CASE Settle(a)
    BY <2>7 DEF Settle, Goto, Fresh
  <2>8. CASE QuiescenceFlush(a)
    BY <2>8 DEF QuiescenceFlush, Goto, Fault
  <2>9. CASE StampDrain(a)
    BY <2>9 DEF StampDrain, Goto
  <2>10. CASE HealCheck(a)
    BY <2>10 DEF HealCheck, Goto, Fault
  <2>11. CASE Quiesce(a)
    BY <2>11 DEF Quiesce, Goto
  <2>12. CASE CheckEvaluated(a)
    BY <2>12 DEF CheckEvaluated, Goto
  <2>13. CASE SealBeforeVerdict(a)
    BY <2>13 DEF SealBeforeVerdict, Goto, Fault
  <2>14. CASE Verdict(a)
    BY <2>14 DEF Verdict, Goto
  <2>15. CASE IdleTimer(a)
    BY <2>15 DEF IdleTimer, Goto
  <2>16. CASE IdleWake(a)
    BY <2>16 DEF IdleWake, Goto
  <2>17. CASE LoopExit(a)
    BY <2>17 DEF LoopExit, Goto, Fresh
  <2>18. CASE ScanFails(a)
    BY <2>18 DEF ScanFails, Goto, NeedsScan, Fault
  <2>19. CASE ScanNotFound(a)
    BY <2>19 DEF ScanNotFound, Goto, NeedsScan, Fault
  <2> QED
    BY <1>2, <2>1, <2>2, <2>3, <2>4, <2>5, <2>6, <2>7, <2>8, <2>9, <2>10, <2>11, <2>12, <2>13, <2>14, <2>15, <2>16, <2>17, <2>18, <2>19 DEF Loop, LoopStep
<1>3. ASSUME NEW a \in Enabled, NEW n \in Nodes,
             Work(a, n) \/ CollectLands(a, n)
      PROVE  OneJobUnlessPruned'
  <2> a \in Axis
    BY <1>3
  <2>1. CASE WriteLands(a, n)
    <3>1. \A b \in Axis, k \in Nodes :
            open'[b][k] = IF b = a /\ k = n THEN open[b][k] - 1 ELSE open[b][k]
      BY <2>1, CountDown DEF WriteLands
    <3>2. \A b \in Axis, k \in Nodes :
            landed'[b][k] = IF b = a /\ k = n THEN landed[b][k] + 1 ELSE landed[b][k]
      BY <2>1, CountUp DEF WriteLands
    <3>9. /\ \A b \in Axis, k \in Nodes : open[b][k] \in Nat
          /\ \A b \in Axis, k \in Nodes : landed[b][k] \in Nat
          /\ \A b \in Axis, k \in Nodes : release[b][k] \in Nat
      BY CountsAreNat
    <3> QED
      BY <2>1, <3>9, <3>1, <3>2 DEF WriteLands
  <2>2. CASE FinishJob(a, n)
    <3>1. \A b \in Axis, k \in Nodes :
            landed'[b][k] = IF b = a /\ k = n THEN landed[b][k] - 1 ELSE landed[b][k]
      BY <2>2, CountDown DEF FinishJob
    <3>2. \A b \in Axis, k \in Nodes :
            \/ release'[b][k] = release[b][k]
            \/ b = a /\ k = n /\ release'[b][k] = release[b][k] + 1
      BY <2>2, SentStep DEF FinishJob
    <3>9. /\ \A b \in Axis, k \in Nodes : open[b][k] \in Nat
          /\ \A b \in Axis, k \in Nodes : landed[b][k] \in Nat
          /\ \A b \in Axis, k \in Nodes : release[b][k] \in Nat
      BY CountsAreNat
    <3>3. UNCHANGED <<open, inFlight, prunedLive>>
      BY <2>2 DEF FinishJob
    <3>4. \A b \in Axis, k \in Nodes :
            Jobs(b, k)' \in Nat /\ Jobs(b, k)' <= Jobs(b, k)
      BY <2>2, <3>1, <3>2, <3>3, <3>9 DEF FinishJob
    <3> QED
      BY <3>3, <3>4, <3>9
  <2>3. CASE JobFails(a, n)
    <3>1. \A b \in Axis, k \in Nodes :
            open'[b][k] = IF b = a /\ k = n THEN open[b][k] - 1 ELSE open[b][k]
      BY <2>3, CountDown DEF JobFails
    <3>2. \A b \in Axis, k \in Nodes :
            \/ release'[b][k] = release[b][k]
            \/ b = a /\ k = n /\ release'[b][k] = release[b][k] + 1
      BY <2>3, SentStep DEF JobFails
    <3>9. /\ \A b \in Axis, k \in Nodes : landed[b][k] \in Nat
          /\ \A b \in Axis, k \in Nodes : open[b][k] \in Nat
          /\ \A b \in Axis, k \in Nodes : release[b][k] \in Nat
      BY CountsAreNat
    <3>3. UNCHANGED <<landed, inFlight, prunedLive>>
      BY <2>3 DEF JobFails
    <3>4. \A b \in Axis, k \in Nodes :
            Jobs(b, k)' \in Nat /\ Jobs(b, k)' <= Jobs(b, k)
      BY <2>3, <3>1, <3>2, <3>3, <3>9 DEF JobFails
    <3> QED
      BY <3>3, <3>4, <3>9
  <2>4. CASE RowLeaves(a, n)
    BY <2>4 DEF RowLeaves, Fault
  <2>5. CASE CollectLands(a, n)
    BY <2>5 DEF CollectLands, Opens
  <2> QED
    BY <1>3, <2>1, <2>2, <2>3, <2>4, <2>5 DEF Work
<1>4. CASE CollectStarts
  BY <1>4 DEF CollectStarts
<1>5. CASE CollectWakes
  BY <1>5 DEF CollectWakes
<1>6. CASE GateExpires
  BY <1>6 DEF GateExpires, Fault
<1>7. CASE CollectEnds
  BY <1>7 DEF CollectEnds
<1>8. CASE ToolCall
  BY <1>8 DEF ToolCall
<1>9. CASE GenPoll
  BY <1>9 DEF GenPoll
<1>10. CASE GenPollFails
  BY <1>10 DEF GenPollFails, Fault
<1>11. CASE CancelCollector
  BY <1>11 DEF CancelCollector, Fault
<1> QED
  BY <1>1, <1>2, <1>3, <1>4, <1>5, <1>6, <1>7, <1>8, <1>9, <1>10, <1>11 DEF Next

\* Between the drain test and the stamp the axis holds nothing.
DrainHeld ==
  \A a \in Axis : pc[a] \in {"flush", "stamp"} =>
                    items[a] = {} /\ inFlight[a] = {}

\* A standing stamp: where the loop is, and that nothing is in flight.
StampAtRest ==
  \A a \in Axis : drainedAtEpoch[a] # 0 =>
    /\ pc[a] \in {"top", "heal", "quiesce", "want", "seal", "verdict",
                  "idle", "done"}
    /\ items[a] = {} /\ inFlight[a] = {}
    /\ drainedAtEpoch[a] <= epoch + 1

\* Every step keeps the stamps at rest.
LEMMA StampStep ==
  ASSUME TypeOK, DrainHeld, StampAtRest, [Next]_vars
  PROVE  (DrainHeld /\ StampAtRest)'
<1> USE CollectorAssumption DEF TypeOK, DrainHeld, StampAtRest, PC, Axis, serverVars, pollVars, gateVars, scanVars, latchVars, stampVars, jobVars
<1>1. CASE UNCHANGED vars
  BY <1>1 DEF vars
<1>2. ASSUME NEW a \in Enabled, Loop(a)
      PROVE  (DrainHeld /\ StampAtRest)'
  <2> a \in Axis
    BY <1>2
  <2>1. CASE LoopTop(a)
    BY <2>1 DEF LoopTop, Goto
  <2>2. CASE CollectGate(a)
    BY <2>2 DEF CollectGate, Goto
  <2>3. CASE Wakeup(a)
    BY <2>3 DEF Wakeup, Goto
  <2>4. CASE CheapTick(a)
    BY <2>4 DEF CheapTick, Goto, prune
  <2>5. CASE Scan(a)
    BY <2>5 DEF Scan, Goto, prune, NeedsScan, ScanPages, Advance
  <2>6. CASE Push(a)
    BY <2>6 DEF Push, Goto, Fresh
  <2>7. CASE Settle(a)
    BY <2>7 DEF Settle, Goto, Fresh
  <2>8. CASE QuiescenceFlush(a)
    BY <2>8 DEF QuiescenceFlush, Goto, Fault
  <2>9. CASE StampDrain(a)
    BY <2>9 DEF StampDrain, Goto
  <2>10. CASE HealCheck(a)
    BY <2>10 DEF HealCheck, Goto, Fault
  <2>11. CASE Quiesce(a)
    BY <2>11 DEF Quiesce, Goto
  <2>12. CASE CheckEvaluated(a)
    BY <2>12 DEF CheckEvaluated, Goto
  <2>13. CASE SealBeforeVerdict(a)
    BY <2>13 DEF SealBeforeVerdict, Goto, Fault
  <2>14. CASE Verdict(a)
    BY <2>14 DEF Verdict, Goto
  <2>15. CASE IdleTimer(a)
    BY <2>15 DEF IdleTimer, Goto
  <2>16. CASE IdleWake(a)
    BY <2>16 DEF IdleWake, Goto
  <2>17. CASE LoopExit(a)
    BY <2>17 DEF LoopExit, Goto, Fresh
  <2>18. CASE ScanFails(a)
    BY <2>18 DEF ScanFails, Goto, NeedsScan, Fault
  <2>19. CASE ScanNotFound(a)
    BY <2>19 DEF ScanNotFound, Goto, NeedsScan, Fault
  <2> QED
    BY <1>2, <2>1, <2>2, <2>3, <2>4, <2>5, <2>6, <2>7, <2>8, <2>9, <2>10, <2>11, <2>12, <2>13, <2>14, <2>15, <2>16, <2>17, <2>18, <2>19 DEF Loop, LoopStep
<1>3. ASSUME NEW a \in Enabled, NEW n \in Nodes,
             Work(a, n) \/ CollectLands(a, n)
      PROVE  (DrainHeld /\ StampAtRest)'
  <2> a \in Axis
    BY <1>3
  <2>1. CASE WriteLands(a, n)
    BY <2>1 DEF WriteLands
  <2>2. CASE FinishJob(a, n)
    BY <2>2 DEF FinishJob, Sent
  <2>3. CASE JobFails(a, n)
    BY <2>3 DEF JobFails, Sent, Fault
  <2>4. CASE RowLeaves(a, n)
    BY <2>4 DEF RowLeaves, Fault
  <2>5. CASE CollectLands(a, n)
    BY <2>5 DEF CollectLands, Opens
  <2> QED
    BY <1>3, <2>1, <2>2, <2>3, <2>4, <2>5 DEF Work
<1>4. CASE CollectStarts
  BY <1>4 DEF CollectStarts
<1>5. CASE CollectWakes
  BY <1>5 DEF CollectWakes
<1>6. CASE GateExpires
  BY <1>6 DEF GateExpires, Fault
<1>7. CASE CollectEnds
  BY <1>7 DEF CollectEnds
<1>8. CASE ToolCall
  BY <1>8 DEF ToolCall
<1>9. CASE GenPoll
  BY <1>9 DEF GenPoll
<1>10. CASE GenPollFails
  BY <1>10 DEF GenPollFails, Fault
<1>11. CASE CancelCollector
  BY <1>11 DEF CancelCollector, Fault
<1> QED
  BY <1>1, <1>2, <1>3, <1>4, <1>5, <1>6, <1>7, <1>8, <1>9, <1>10, <1>11 DEF Next

(***************************************************************************)
(* The inductive invariant and what follows from it.                       *)
(***************************************************************************)
Inv ==
  /\ TypeOK /\ WatermarkMeansDrained /\ OneJobUnlessPruned
  /\ DrainHeld /\ StampAtRest

\* A standing stamp together with the accounting: nothing is in flight, so
\* no node has a job.
LEMMA RestFromAccounting ==
  ASSUME TypeOK, OneJobUnlessPruned, StampAtRest
  PROVE  StampStandsAtRest
<1>1. SUFFICES ASSUME NEW a \in Axis, drainedAtEpoch[a] # 0,
                      NEW n \in Nodes \ prunedLive[a]
               PROVE  Jobs(a, n) = 0
  BY DEF StampStandsAtRest, StampAtRest
<1>2. open[a][n] \in Nat /\ landed[a][n] \in Nat /\ release[a][n] \in Nat
  BY CountsAreNat DEF TypeOK
<1>3. inFlight[a] = {}
  BY <1>1 DEF StampAtRest
<1>4. Jobs(a, n) <= 1 /\ Jobs(a, n) # 1
  BY <1>3 DEF OneJobUnlessPruned
<1> QED
  BY <1>2, <1>4, NoneOfThree DEF Jobs

LEMMA InitInv == Init => Inv
<1> SUFFICES ASSUME Init PROVE Inv
  OBVIOUS
<1> USE CollectorAssumption
<1>0. [a \in Axis |-> NoJobs] \in Counts
  BY DEF NoJobs, Counts
<1>1. TypeOK
  <2>1. /\ gap \in [Axis -> SUBSET Nodes] /\ gen \in [Axis -> Nat]
        /\ snap \in [Axis -> Nat] /\ wake \in [Axis -> BOOLEAN]
        /\ pc \in [Axis -> PC] /\ inFlight \in [Axis -> SUBSET Nodes]
        /\ items \in [Axis -> SUBSET Nodes] /\ complete \in [Axis -> BOOLEAN]
    BY DEF Init, PC
  <2>2. /\ skipped \in [Axis -> 0..maxDrainSkips] /\ lastGen \in [Axis -> Nat]
        /\ prunedLive \in [Axis -> SUBSET Nodes]
        /\ drainedAtEpoch \in [Axis -> Nat] /\ want \in [Axis -> Nat]
    BY DEF Init
  <2> QED
    BY <1>0, <2>1, <2>2 DEF Init, TypeOK
<1>2. WatermarkMeansDrained
  BY DEF Init, WatermarkMeansDrained
<1>3. \A a \in Axis, n \in Nodes : Jobs(a, n) = 0
  BY DEF Init, Jobs, NoJobs
<1>4. OneJobUnlessPruned
  BY <1>3 DEF OneJobUnlessPruned
<1>5. DrainHeld /\ StampAtRest
  BY DEF Init, DrainHeld, StampAtRest
<1> QED
  BY <1>1, <1>2, <1>4, <1>5 DEF Inv

\* The inductive invariant of the collector: types, watermark, in-flight
\* accounting, and what holds from the drain test to the next iteration.
THEOREM CollectorInvariant == Spec => []Inv
<1>1. Init => Inv
  BY InitInv
<1>2. Inv /\ [Next]_vars => Inv'
  BY TypeStep, WatermarkStep, JobStep, StampStep DEF Inv
<1> QED
  BY <1>1, <1>2, PTL DEF Spec

\* Type correctness of the collector, for any graph and any configuration.
THEOREM CollectorTypeOK == Spec => []TypeOK
<1>1. Inv => TypeOK
  BY DEF Inv
<1> QED
  BY <1>1, CollectorInvariant, PTL

\* discover skips a scan only at generations with an empty gap, whatever
\* partial or failed pages the server answers with.
THEOREM CollectorWatermark == Spec => []WatermarkMeansDrained
<1>1. Inv => WatermarkMeansDrained
  BY DEF Inv
<1> QED
  BY <1>1, CollectorInvariant, PTL

\* A node is queued twice on an axis only after a page pruned it live.
THEOREM CollectorOneJob == Spec => []OneJobUnlessPruned
<1>1. Inv => OneJobUnlessPruned
  BY DEF Inv
<1> QED
  BY <1>1, CollectorInvariant, PTL

\* A drain stamp never outlives its drain.
THEOREM CollectorStampAtRest == Spec => []StampStandsAtRest
<1>1. Inv => StampStandsAtRest
  BY RestFromAccounting DEF Inv
<1> QED
  BY <1>1, CollectorInvariant, PTL
=============================================================================
