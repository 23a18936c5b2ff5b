------------------------- MODULE AxisPipelineProofs -------------------------
(***************************************************************************)
(* The safety of AxisPipeline for every set of items, graphs and workers   *)
(* and every capacity, and its refinement of WorkPool.  OnePlace alone     *)
(* says enough of the channels, but a release, a write and a nil from Stop *)
(* also rest on what a worker holds at each point of its lease (InHand),   *)
(* on what was pushed (Seen) and on the order of the shutdown (Staged).    *)
(***************************************************************************)
EXTENDS AxisPipeline, SequenceTheorems, FiniteSetTheorems, TLAPS

\* Calls and results of a worker are items of its lease; an idle worker has no
\* lease, one that calls has a call to make, and a panicked one has let go.
Hand(w) ==
  /\ pc[w] \in {"idle", "done"} => lease[w] = <<>>
  /\ pc[w] \in {"gate", "call"} => todo[w] # <<>>
  /\ pc[w] \in {"stride", "gate", "call"} \/ back[w] = "stride" =>
       \A j \in DOMAIN todo[w] : ToSet(todo[w][j]) \subseteq ToSet(lease[w])
  /\ merged[w] \subseteq ToSet(lease[w])
  /\ pc[w] \in {"idle", "groups", "recover", "done"} => merged[w] = {}
  /\ back[w] = "stride" => pc[w] \in {"stride", "write", "execute", "bare"}
  /\ back[w] = "recover" => pc[w] \in {"recover", "write", "execute", "bare"}
  /\ pc[w] = "recover" \/ back[w] = "recover" => lease[w] = <<>>

InHand == \A w \in Workers : Hand(w)

\* What is owed, leased or about to be marked was pushed.
Seen ==
  /\ owed \subseteq pushed
  /\ \A w \in Workers :
       ToSet(lease[w]) \cup marks[w] \cup fallen[w] \subseteq pushed

\* The shutdown closes the channels in order, and who exits leaves nothing
\* behind unless the start context was cancelled.
Staged ==
  /\ inClosed => collecting = "gone" /\ stop \notin {"run", "collectors"}
  /\ stop \in {"dispatchers", "workers", "ok"} => inClosed
  /\ stop \in {"workers", "ok"} => disp = "done"
  /\ stop = "ok" => \A w \in Workers : pc[w] = "done"
  /\ disp \in {"drain", "done"} => ctxDone \/ (inClosed /\ in = <<>>)
  /\ disp = "done" => batch = <<>>
  /\ outClosed => disp = "done"
  /\ \A w \in Workers : pc[w] = "done" => ctxDone \/ (outClosed /\ out = <<>>)
  /\ Len(out) <= Cardinality(Workers)
-----------------------------------------------------------------------------
(* Sequences of items: their elements, and the subsequences a lease is cut  *)
(* into.                                                                    *)

\* The elements of a sequence, and how receiving and sending change them.
LEMMA Elements ==
  ASSUME NEW S, NEW s \in Seq(S)
  PROVE  /\ ToSet(s) \subseteq S
         /\ \A k \in DOMAIN s : s[k] \in ToSet(s)
         /\ \A e \in S : ToSet(Append(s, e)) = ToSet(s) \cup {e}
         /\ s # <<>> => /\ Head(s) \in ToSet(s)
                        /\ ToSet(Tail(s)) \subseteq ToSet(s)
                        /\ ToSet(s) = ToSet(Tail(s)) \cup {Head(s)}
<1>1. \A e \in S : ToSet(Append(s, e)) = ToSet(s) \cup {e}
  <2> SUFFICES ASSUME NEW e \in S
               PROVE  ToSet(Append(s, e)) = ToSet(s) \cup {e}
    OBVIOUS
  <2>1. Append(s, e)[Len(s) + 1] = e /\ Len(s) + 1 \in DOMAIN Append(s, e)
    OBVIOUS
  <2>2. \A k \in DOMAIN s : Append(s, e)[k] = s[k] /\ k \in DOMAIN Append(s, e)
    OBVIOUS
  <2>3. \A k \in DOMAIN Append(s, e) : k \in DOMAIN s \/ k = Len(s) + 1
    OBVIOUS
  <2> QED
    BY <2>1, <2>2, <2>3 DEF ToSet
<1>2. ASSUME s # <<>>
      PROVE  /\ Head(s) \in ToSet(s)
             /\ ToSet(s) = ToSet(Tail(s)) \cup {Head(s)}
  <2>1. Head(s) = s[1] /\ 1 \in DOMAIN s
    BY <1>2
  <2>2. \A k \in DOMAIN Tail(s) : Tail(s)[k] = s[k + 1] /\ k + 1 \in DOMAIN s
    BY <1>2
  <2>3. \A k \in DOMAIN s : k = 1 \/ (k - 1 \in DOMAIN Tail(s)
                                        /\ Tail(s)[k - 1] = s[k])
    BY <1>2
  <2>4. \A x \in ToSet(Tail(s)) : x \in ToSet(s)
    BY <2>2 DEF ToSet
  <2>5. \A x \in ToSet(s) : x \in ToSet(Tail(s)) \/ x = Head(s)
    BY <2>1, <2>3 DEF ToSet
  <2>6. Head(s) \in ToSet(s)
    BY <2>1, Zenon DEF ToSet
  <2> QED
    BY <2>4, <2>5, <2>6
<1>3. ToSet(s) \subseteq S /\ \A k \in DOMAIN s : s[k] \in ToSet(s)
  BY DEF ToSet
<1> QED
  BY <1>1, <1>2, <1>3, Zenon

\* An element of a concatenation is one of its first part or of its second.
LEMMA Joined ==
  ASSUME NEW S, NEW p \in Seq(S), NEW t \in Seq(S), NEW j \in DOMAIN (p \o t)
  PROVE  \/ j \in DOMAIN p /\ (p \o t)[j] = p[j]
         \/ j - Len(p) \in DOMAIN t /\ (p \o t)[j] = t[j - Len(p)]
<1>1. /\ Len(p) \in Nat /\ DOMAIN p = 1 .. Len(p)
      /\ Len(t) \in Nat /\ DOMAIN t = 1 .. Len(t)
  BY LenProperties
<1>2. j \in 1 .. (Len(p) + Len(t))
  BY <1>1, ConcatProperties
<1>3. (p \o t)[j] = IF j <= Len(p) THEN p[j] ELSE t[j - Len(p)]
  BY <1>2, ConcatProperties
<1>4. CASE j <= Len(p)
  BY <1>1, <1>2, <1>3, <1>4
<1>5. CASE ~ (j <= Len(p))
  <2>1. j - Len(p) \in 1 .. Len(t)
    BY <1>1, <1>2, <1>5
  <2> QED
    BY <1>1, <1>3, <1>5, <2>1
<1> QED
  BY <1>4, <1>5

\* A slice of a sequence is a sequence of its elements.
LEMMA Slice ==
  ASSUME NEW S, NEW s \in Seq(S), NEW a \in Nat, NEW b \in Nat,
         a >= 1, b <= Len(s)
  PROVE  /\ SubSeq(s, a, b) \in Seq(S)
         /\ ToSet(SubSeq(s, a, b)) \subseteq ToSet(s)
<1>1. \A k \in a .. b : k \in DOMAIN s /\ s[k] \in S
  OBVIOUS
<1>2. SubSeq(s, a, b) \in Seq(S)
  BY <1>1, SubSeqProperties
<1>3. /\ Len(SubSeq(s, a, b)) = IF a <= b THEN b - a + 1 ELSE 0
      /\ \A k \in 1 .. b - a + 1 : SubSeq(s, a, b)[k] = s[a + k - 1]
  BY <1>1, SubSeqProperties
<1>4. \A k \in DOMAIN SubSeq(s, a, b) :
        a + k - 1 \in DOMAIN s /\ SubSeq(s, a, b)[k] = s[a + k - 1]
  BY <1>2, <1>3
<1> QED
  BY <1>2, <1>4 DEF ToSet

\* A subset of the positions of a sequence is finite.
LEMMA PositionsFinite ==
  ASSUME NEW S, NEW s \in Seq(S), NEW D, D \subseteq DOMAIN s
  PROVE  Cardinality(D) \in Nat
<1>1. DOMAIN s = 1 .. Len(s) /\ Len(s) \in Nat
  OBVIOUS
<1>2. IsFiniteSet(1 .. Len(s))
  BY <1>1, FS_Interval
<1> QED
  BY <1>1, <1>2, FS_Subset, FS_CardinalityType

\* Grouping a lease and leaving the oversize items out keep to its items.
LEMMA PickedProp ==
  ASSUME NEW S, NEW s \in Seq(S), NEW D, D \subseteq DOMAIN s,
         NEW t \in Picked(s, D)
  PROVE  /\ t \in Seq(S)
         /\ ToSet(t) \subseteq {s[k] : k \in D}
         /\ ToSet(t) \subseteq ToSet(s)
<1>1. Cardinality(D) \in Nat
  BY PositionsFinite
<1> DEFINE n == Cardinality(D)
<1>2. PICK f \in [1 .. n -> D] : t = [k \in 1 .. n |-> s[f[k]]]
  BY DEF Picked
<1>3. \A k \in 1 .. n : f[k] \in D /\ t[k] = s[f[k]] /\ s[f[k]] \in S
  BY <1>2
<1>4. t \in [1 .. n -> S]
  BY <1>2, <1>3
<1>5. t \in Seq(S) /\ DOMAIN t = 1 .. n
  BY <1>1, <1>4
<1> QED
  BY <1>3, <1>5 DEF ToSet

\* Every sequence of a sequence of calls is over the elements of s.
Within(parts, s, S) ==
  /\ parts \in Seq(Seq(S))
  /\ \A j \in DOMAIN parts : ToSet(parts[j]) \subseteq ToSet(s)

\* processSummaryLeaseGroup sends only items of the group.
LEMMA StridesWithin ==
  ASSUME NEW S, NEW s \in Seq(S)
  PROVE  Within(Strides(s), s, S)
<1> DEFINE n == (Len(s) + BatchSize - 1) \div BatchSize
           hi(k) == IF k * BatchSize < Len(s) THEN k * BatchSize ELSE Len(s)
<1>1. BatchSize \in Nat /\ BatchSize > 0 /\ Len(s) \in Nat
  BY AxisAssumption
<1>2. n \in Nat
  <2>1. Len(s) + BatchSize - 1 \in Nat
    BY <1>1
  <2> QED
    BY <1>1, <2>1
<1>3. ASSUME NEW k \in 1 .. n
      PROVE  /\ (k - 1) * BatchSize + 1 \in Nat
             /\ (k - 1) * BatchSize + 1 >= 1
             /\ hi(k) \in Nat
             /\ hi(k) <= Len(s)
  <2>1. k - 1 \in Nat /\ k \in Nat
    BY <1>2
  <2>2. (k - 1) * BatchSize \in Nat /\ k * BatchSize \in Nat
    BY <1>1, <2>1
  <2> QED
    BY <1>1, <2>2
<1>4. \A k \in 1 .. n :
        /\ SubSeq(s, (k - 1) * BatchSize + 1, hi(k)) \in Seq(S)
        /\ ToSet(SubSeq(s, (k - 1) * BatchSize + 1, hi(k))) \subseteq ToSet(s)
  BY <1>3, Slice
<1>5. Strides(s) = [k \in 1 .. n |-> SubSeq(s, (k - 1) * BatchSize + 1, hi(k))]
  BY DEF Strides
<1> HIDE DEF n, hi
<1>6. Strides(s) \in [1 .. n -> Seq(S)]
  BY <1>4, <1>5
<1>7. Strides(s) \in Seq(Seq(S)) /\ DOMAIN Strides(s) = 1 .. n
  BY <1>2, <1>6
<1> QED
  BY <1>4, <1>5, <1>7 DEF Within

\* halveSummaryItems sends only items of the call.
LEMMA HalvesWithin ==
  ASSUME NEW S, NEW s \in Seq(S)
  PROVE  Within(halveSummaryItems(s), s, S)
<1> DEFINE mid == Len(s) \div 2
<1>1. CASE Len(s) < 2
  <2>1. halveSummaryItems(s) = <<s>>
    BY <1>1 DEF halveSummaryItems
  <2>2. <<s>> \in Seq(Seq(S)) /\ DOMAIN <<s>> = {1} /\ <<s>>[1] = s
    OBVIOUS
  <2> QED
    BY <2>1, <2>2 DEF Within
<1>2. CASE ~(Len(s) < 2)
  <2>1. Len(s) \in Nat /\ mid \in Nat /\ mid <= Len(s)
    BY <1>2
  <2> DEFINE a == SubSeq(s, 1, mid)
             b == SubSeq(s, mid + 1, Len(s))
  <2>2. a \in Seq(S) /\ ToSet(a) \subseteq ToSet(s)
    BY <2>1, Slice
  <2>3. b \in Seq(S) /\ ToSet(b) \subseteq ToSet(s)
    BY <2>1, Slice
  <2>4. halveSummaryItems(s) = <<a, b>>
    BY <1>2 DEF halveSummaryItems
  <2> HIDE DEF a, b
  <2>5. /\ <<a, b>> \in Seq(Seq(S))
        /\ DOMAIN <<a, b>> = 1 .. 2
        /\ <<a, b>>[1] = a
        /\ <<a, b>>[2] = b
    BY <2>2, <2>3
  <2> QED
    BY <2>2, <2>3, <2>4, <2>5 DEF Within
<1> QED
  BY <1>1, <1>2

\* splitOversizeSummaryGroup sends again only items of the refused call.
LEMMA PartsWithin ==
  ASSUME NEW S, NEW s \in Seq(S), NEW limit \in Nat,
         NEW parts \in splitParts(s, limit)
  PROVE  Within(parts, s, S)
<1>1. ASSUME NEW p \in packSummaryItems(s, limit)
      PROVE  Within(p, s, S)
  <2>1. CASE limit = 0
    BY <2>1, HalvesWithin DEF packSummaryItems
  <2>2. CASE limit # 0
    <3> DEFINE D == {k \in DOMAIN s : SizeOf[s[k]] <= limit}
    <3>1. PICK kept \in Picked(s, D) : p \in Packs(kept, limit)
      <4>1. p \in UNION {Packs(kept, limit) : kept \in Picked(s, D)}
        BY <2>2 DEF packSummaryItems
      <4> QED
        BY <4>1
    <3>2. PICK m \in 0 .. Len(kept) :
            p \in {[j \in 1 .. m |-> SubSeq(kept, cut[j - 1] + 1, cut[j])] :
                      cut \in Cuts(kept, limit, m)}
      BY <3>1 DEF Packs
    <3>10. PICK cut \in Cuts(kept, limit, m) :
            p = [j \in 1 .. m |-> SubSeq(kept, cut[j - 1] + 1, cut[j])]
      BY <3>2
    <3>3. kept \in Seq(S) /\ ToSet(kept) \subseteq ToSet(s)
      <4>1. D \subseteq DOMAIN s
        OBVIOUS
      <4> QED
        BY <4>1, PickedProp
    <3>4. cut \in [0 .. m -> 0 .. Len(kept)]
      BY <3>10 DEF Cuts
    <3>5. ASSUME NEW j \in 1 .. m
          PROVE  /\ SubSeq(kept, cut[j - 1] + 1, cut[j]) \in Seq(S)
                 /\ ToSet(SubSeq(kept, cut[j - 1] + 1, cut[j])) \subseteq ToSet(s)
      <4>1. j - 1 \in 0 .. m /\ j \in 0 .. m
        BY <3>2
      <4>2. /\ cut[j - 1] + 1 \in Nat /\ cut[j - 1] + 1 >= 1
            /\ cut[j] \in Nat /\ cut[j] <= Len(kept)
        BY <3>3, <3>4, <4>1
      <4> QED
        BY <3>3, <4>2, Slice
    <3> DEFINE part(j) == SubSeq(kept, cut[j - 1] + 1, cut[j])
    <3>6. p = [j \in 1 .. m |-> part(j)] /\ m \in Nat
      <4>1. p = [j \in 1 .. m |-> part(j)]
        BY <3>10, Zenon
      <4>2. m \in Nat
        BY <3>2
      <4> QED
        BY <4>1, <4>2
    <3>7. \A j \in 1 .. m : part(j) \in Seq(S) /\ ToSet(part(j)) \subseteq ToSet(s)
      BY <3>5
    <3> HIDE DEF part
    <3>8. p \in [1 .. m -> Seq(S)]
      BY <3>6, <3>7
    <3>9. p \in Seq(Seq(S)) /\ DOMAIN p = 1 .. m
      BY <3>6, <3>8
    <3> QED
      BY <3>6, <3>7, <3>9 DEF Within
  <2> QED
    BY <2>1, <2>2
<1> QED
  BY <1>1, HalvesWithin DEF splitParts

\* A step of the collectors, the dispatcher, Stop or the environment.
Elsewhere ==
  \/ \E i \in Items : Push(i)
  \/ \E n \in Nodes : Prune(n)
  \/ CollectorsExit \/ Dispatcher
  \/ StopBegins \/ CloseWork \/ DispatchersGone \/ WorkersGone \/ StopTimesOut
  \/ Latch \/ Resume \/ CancelStart

\* The steps, by who takes them.
LEMMA NextCases ==
  Next <=> Elsewhere \/ \E w \in Workers : Worker(w)
BY DEF Next, Elsewhere, Dispatcher, Worker

-----------------------------------------------------------------------------
(* Types and permits. *)

\* The workers that hold a permit of a lock domain.
Writers(k) == {w \in Workers : pc[w] = "execute" /\ Domain(w) = k}

\* A worker writes in some lock domain.
LEMMA DomainType ==
  ASSUME TypeOK, NEW w \in Workers
  PROVE  Domain(w) \in Keys
BY AxisAssumption DEF TypeOK, Domain

\* The second conjunct of PermitsBalanced.
Balanced == \A k \in Keys : permits[k] = Cardinality(Writers(k))

\* A writer holds a permit, so one is there to be returned.
LEMMA ReturnedType ==
  ASSUME TypeOK, Balanced, NEW w \in Workers
  PROVE  Returned(w) \in [Keys -> 0 .. Holders]
<1>1. CASE pc[w] = "execute"
  <2> DEFINE g == Domain(w)
  <2>1. g \in Keys /\ permits[g] \in 0 .. Holders
    BY DomainType DEF TypeOK
  <2>2. w \in Writers(g) /\ Writers(g) \subseteq Workers
    BY <1>1 DEF Writers
  <2>3. IsFiniteSet(Writers(g))
    BY <2>2, AxisAssumption, FS_Subset
  <2>4. Cardinality(Writers(g)) # 0
    BY <2>2, <2>3, FS_EmptySet
  <2>5. permits[g] # 0
    BY <2>1, <2>4 DEF Balanced
  <2>6. permits \in [Keys -> 0 .. Holders] /\ Holders \in Nat
    BY AxisAssumption DEF TypeOK
  <2> HIDE DEF g
  <2>7. [permits EXCEPT ![g] = @ - 1] \in [Keys -> 0 .. Holders]
    BY <2>1, <2>5, <2>6
  <2> QED
    BY <1>1, <2>7 DEF Returned, g
<1>2. CASE pc[w] # "execute"
  BY <1>2 DEF Returned, TypeOK
<1> QED
  BY <1>1, <1>2

\* Every step keeps the types.
LEMMA TypeStep ==
  ASSUME TypeOK, InHand, Balanced, [Next]_vars
  PROVE  TypeOK'
<1> USE AxisAssumption DEF TypeOK, chanVars, dispVars, workVars, graphVars,
      envVars, WorkerPC
<1>1. CASE UNCHANGED vars
  BY <1>1 DEF vars
<1>2. ASSUME NEW i \in Items, Push(i)
      PROVE  TypeOK'
  <2>1. in' \in Seq(Items) /\ NodeOf[i] \in Nodes
    BY <1>2 DEF Push
  <2>2. pushed' \cup owed' \subseteq Items /\ inFlight' \cup pruned' \subseteq Nodes
    BY <1>2, <2>1 DEF Push
  <2> QED
    BY <1>2, <2>1, <2>2 DEF Push
<1>32. ASSUME NEW n \in Nodes, Prune(n)
       PROVE  TypeOK'
  BY <1>32 DEF Prune
<1>3. CASE CollectorsExit
  BY <1>3 DEF CollectorsExit
<1>4. CASE Receive
  <2>1. /\ in' \in Seq(Items) /\ batch' \in Seq(Items)
        /\ disp' \in {"recv", "emit"}
    BY <1>4 DEF Receive
  <2> QED
    BY <1>4, <2>1 DEF Receive
<1>5. CASE FlushTimer
  BY <1>5 DEF FlushTimer
<1>6. CASE Emit
  BY <1>6 DEF Emit
<1>7. CASE EmitDrops
  BY <1>7 DEF EmitDrops
<1>8. CASE DrainStarts
  BY <1>8 DEF DrainStarts
<1>9. CASE Drain
  BY <1>9 DEF Drain
<1>10. CASE StopBegins
  BY <1>10 DEF StopBegins
<1>11. CASE CloseWork
  BY <1>11 DEF CloseWork
<1>12. CASE DispatchersGone
  BY <1>12 DEF DispatchersGone
<1>13. CASE WorkersGone
  BY <1>13 DEF WorkersGone
<1>14. CASE StopTimesOut
  BY <1>14 DEF StopTimesOut
<1>15. CASE Latch
  BY <1>15 DEF Latch
<1>16. CASE Resume
  BY <1>16 DEF Resume
<1>17. CASE CancelStart
  BY <1>17 DEF CancelStart
<1>18. ASSUME NEW w \in Workers, TakeLease(w)
      PROVE  TypeOK'
  <2>1. Head(out) \in Seq(Items) /\ out' \in Seq(Seq(Items))
    BY <1>18 DEF TakeLease
  <2>2. ToSet(Head(out)) \subseteq Items
    BY <2>1, Elements
  <2>3. {GraphOf[j] : j \in ToSet(Head(out))} \subseteq Graphs
    BY <2>2
  <2> QED
    BY <1>18, <2>1, <2>3 DEF TakeLease
<1>19. ASSUME NEW w \in Workers, WorkerExits(w)
      PROVE  TypeOK'
  BY <1>19 DEF WorkerExits
<1>20. ASSUME NEW w \in Workers, NextGroup(w)
      PROVE  TypeOK'
  <2>1. PICK g \in groups[w] :
          /\ group' = [group EXCEPT ![w] = g]
          /\ groups' = [groups EXCEPT ![w] = @ \ {g}]
          /\ \E s \in Picked(lease[w],
                            {k \in DOMAIN lease[w] : GraphOf[lease[w][k]] = g}) :
               todo' = [todo EXCEPT ![w] = Strides(s)]
    BY <1>20 DEF NextGroup
  <2>2. PICK s \in Picked(lease[w],
                         {k \in DOMAIN lease[w] : GraphOf[lease[w][k]] = g}) :
          todo' = [todo EXCEPT ![w] = Strides(s)]
    BY <2>1
  <2>3. Strides(s) \in Seq(Seq(Items))
    <3>1. lease[w] \in Seq(Items)
      OBVIOUS
    <3>2. s \in Seq(Items)
      BY <3>1, PickedProp
    <3> QED
      BY <3>2, StridesWithin DEF Within
  <2>4. /\ todo' \in [Workers -> Seq(Seq(Items))]
        /\ group' \in [Workers -> Graphs]
        /\ groups' \in [Workers -> SUBSET Graphs]
    BY <2>1, <2>2, <2>3
  <2> QED
    BY <1>20, <2>4 DEF NextGroup
<1>21. ASSUME NEW w \in Workers, ReleaseLease(w)
      PROVE  TypeOK'
  BY <1>21 DEF ReleaseLease
<1>22. ASSUME NEW w \in Workers, NextCall(w)
      PROVE  TypeOK'
  BY <1>22 DEF NextCall
<1>23. ASSUME NEW w \in Workers, PassGate(w)
      PROVE  TypeOK'
  BY <1>23 DEF PassGate
<1>24. ASSUME NEW w \in Workers, CallOK(w)
      PROVE  TypeOK'
  <2>1. /\ Head(todo[w]) \in Seq(Items) /\ Tail(todo[w]) \in Seq(Seq(Items))
    BY <1>24 DEF CallOK, InHand, Hand
  <2>2. ToSet(Head(todo[w])) \subseteq Items
    BY <2>1, Elements
  <2> QED
    BY <1>24, <2>1, <2>2 DEF CallOK
<1>25. ASSUME NEW w \in Workers, CallFails(w)
      PROVE  TypeOK'
  <2>1. /\ Head(todo[w]) \in Seq(Items) /\ Tail(todo[w]) \in Seq(Seq(Items))
    BY <1>25 DEF CallFails, InHand, Hand
  <2>2. ToSet(Head(todo[w])) \subseteq Items
    BY <2>1, Elements
  <2>3. faults' \in 0 .. MaxFaults
    BY <1>25 DEF CallFails, Fault
  <2>4. PICK M \in {{}, ToSet(Head(todo[w]))} : Marking(w, M)
    BY <1>25 DEF CallFails
  <2>5. /\ marks' \in [Workers -> SUBSET Items] /\ pc' \in [Workers -> WorkerPC]
        /\ back' \in [Workers -> {"groups", "stride", "recover"}]
    BY <2>2, <2>4 DEF Marking
  <2>6. todo' \in [Workers -> Seq(Seq(Items))]
    BY <1>25, <2>1 DEF CallFails
  <2> QED
    BY <1>25, <2>3, <2>5, <2>6 DEF CallFails
<1>26. ASSUME NEW w \in Workers, CallRefused(w)
      PROVE  TypeOK'
  <2> DEFINE sub == Head(todo[w])
  <2>1. /\ sub \in Seq(Items) /\ Tail(todo[w]) \in Seq(Seq(Items))
    BY <1>26 DEF CallRefused, InHand, Hand
  <2>2. PICK limit \in Reports :
          /\ \E parts \in IF Len(sub) = 1 THEN {<<>>} ELSE splitParts(sub, limit) :
               todo' = [todo EXCEPT ![w] = parts \o Tail(@)]
          /\ oversize' = oversize \cup splitMarks(sub, limit)
          /\ Marking(w, splitMarks(sub, limit))
    BY <1>26 DEF CallRefused
  <2>3. PICK parts \in IF Len(sub) = 1 THEN {<<>>} ELSE splitParts(sub, limit) :
          todo' = [todo EXCEPT ![w] = parts \o Tail(@)]
    BY <2>2
  <2>4. parts \in Seq(Seq(Items))
    <3>1. limit \in Nat
      OBVIOUS
    <3>2. CASE Len(sub) = 1
      BY <2>3, <3>2
    <3>3. CASE Len(sub) # 1
      BY <2>1, <2>3, <3>1, <3>3, PartsWithin DEF Within
    <3> QED
      BY <3>2, <3>3
  <2>5. splitMarks(sub, limit) \subseteq Items
    BY <2>1, Elements DEF splitMarks, knownOversize
  <2> HIDE DEF sub
  <2>6. parts \o Tail(todo[w]) \in Seq(Seq(Items))
    BY <2>1, <2>4
  <2>7. todo' \in [Workers -> Seq(Seq(Items))]
    BY <2>3, <2>6
  <2>8. oversize' \subseteq Items
    BY <2>2, <2>5
  <2>9. /\ marks' \in [Workers -> SUBSET Items] /\ pc' \in [Workers -> WorkerPC]
        /\ back' \in [Workers -> {"groups", "stride", "recover"}]
    BY <2>2, <2>5 DEF Marking
  <2> QED
    BY <1>26, <2>7, <2>8, <2>9 DEF CallRefused
<1>27. ASSUME NEW w \in Workers, CallPanics(w)
      PROVE  TypeOK'
  <2>1. ToSet(lease[w]) \subseteq Items
    BY Elements
  <2>2. fallen' \in [Workers -> SUBSET Items]
    BY <1>27, <2>1 DEF CallPanics
  <2>3. faults' \in 0 .. MaxFaults
    BY <1>27 DEF CallPanics, Fault
  <2>4. owed' \subseteq Items /\ inFlight' \subseteq Nodes /\ billed' \subseteq Items
    BY <1>27 DEF CallPanics
  <2>5. lease' \in [Workers -> Seq(Items)] /\ todo' \in [Workers -> Seq(Seq(Items))]
    <3>1. <<>> \in Seq(Items) /\ <<>> \in Seq(Seq(Items))
      OBVIOUS
    <3> QED
      BY <1>27, <3>1 DEF CallPanics
  <2>6. merged' \in [Workers -> SUBSET Items] /\ groups' \in [Workers -> SUBSET Graphs]
    BY <1>27 DEF CallPanics
  <2>7. pc' \in [Workers -> WorkerPC]
    BY <1>27 DEF CallPanics
  <2>8. UNCHANGED <<in, inClosed, pushed, pruned, collecting, disp, batch, out,
                    outClosed, group, marks, back, written, marked, oversize,
                    permits, latched, stop, ctxDone, latches>>
    BY <1>27 DEF CallPanics
  <2> QED
    BY <2>2, <2>3, <2>4, <2>5, <2>6, <2>7, <2>8
<1>28. ASSUME NEW w \in Workers, Recover(w)
      PROVE  TypeOK'
  <2>1. PICK g \in {GraphOf[i] : i \in fallen[w]} :
          LET M == {i \in fallen[w] : GraphOf[i] = g}
          IN  /\ group' = [group EXCEPT ![w] = g]
              /\ marks' = [marks EXCEPT ![w] = M]
              /\ fallen' = [fallen EXCEPT ![w] = @ \ M]
    BY <1>28 DEF Recover
  <2> DEFINE M == {i \in fallen[w] : GraphOf[i] = g}
  <2>2. fallen[w] \subseteq Items /\ g \in Graphs /\ M \subseteq Items
    OBVIOUS
  <2>3. /\ group' = [group EXCEPT ![w] = g] /\ marks' = [marks EXCEPT ![w] = M]
        /\ fallen' = [fallen EXCEPT ![w] = @ \ M]
    BY <2>1
  <2> HIDE DEF M
  <2>4. /\ group' \in [Workers -> Graphs] /\ marks' \in [Workers -> SUBSET Items]
        /\ fallen' \in [Workers -> SUBSET Items]
    BY <2>2, <2>3
  <2> QED
    BY <1>28, <2>4 DEF Recover
<1>33. ASSUME NEW w \in Workers, Recovered(w)
      PROVE  TypeOK'
  BY <1>33 DEF Recovered
<1>29. ASSUME NEW w \in Workers, Admit(w)
      PROVE  TypeOK'
  <2>1. permits' \in [Keys -> 0 .. Holders]
    <3>1. CASE /\ permits[Domain(w)] < Holders
               /\ permits' = [permits EXCEPT ![Domain(w)] = @ + 1]
      <4>1. /\ permits \in [Keys -> 0 .. Holders] /\ Holders \in Nat
            /\ Domain(w) \in Keys
        BY DomainType
      <4> QED
        BY ONLY <3>1, <4>1
    <3>2. CASE permits' = permits
      BY <3>2
    <3> QED
      BY <1>29, <3>1, <3>2 DEF Admit
  <2>2. pc' \in [Workers -> WorkerPC]
    BY <1>29 DEF Admit
  <2> QED
    BY <1>29, <2>1, <2>2 DEF Admit
<1>30. ASSUME NEW w \in Workers, WriteLands(w)
      PROVE  TypeOK'
  <2>1. permits' \in [Keys -> 0 .. Holders]
    BY <1>30, ReturnedType DEF WriteLands
  <2>2. /\ written' \subseteq Items /\ marked' \subseteq Nodes
        /\ merged' \in [Workers -> SUBSET Items]
        /\ pc' \in [Workers -> WorkerPC]
    BY <1>30 DEF WriteLands
  <2> QED
    BY <1>30, <2>1, <2>2 DEF WriteLands
<1>34. ASSUME NEW w \in Workers, MarkLands(w)
      PROVE  TypeOK'
  <2>1. permits' \in [Keys -> 0 .. Holders]
    BY <1>34, ReturnedType DEF MarkLands
  <2>2. NodesOf(marks[w]) \subseteq Nodes
    BY DEF NodesOf
  <2>3. /\ marked' \subseteq Nodes /\ marks' \in [Workers -> SUBSET Items]
        /\ pc' \in [Workers -> WorkerPC]
    BY <1>34, <2>2 DEF MarkLands
  <2> QED
    BY <1>34, <2>1, <2>3 DEF MarkLands
<1>31. ASSUME NEW w \in Workers, WriteFails(w)
      PROVE  TypeOK'
  <2>1. permits' \in [Keys -> 0 .. Holders]
    BY <1>31, ReturnedType DEF WriteFails
  <2>2. /\ billed' \subseteq Items
        /\ merged' \in [Workers -> SUBSET Items]
        /\ marks' \in [Workers -> SUBSET Items]
        /\ pc' \in [Workers -> WorkerPC]
    <3>1. billed' \subseteq Items
      BY <1>31 DEF WriteFails
    <3>2. marks' \in [Workers -> SUBSET Items]
      BY <1>31 DEF WriteFails
    <3>3. PICK S : merged' = [merged EXCEPT ![w] = @ \ S] \/ merged' = merged
      BY <1>31 DEF WriteFails
    <3>4. merged' \in [Workers -> SUBSET Items]
      <4>1. merged[w] \ S \in SUBSET Items
        OBVIOUS
      <4> QED
        BY <3>3, <4>1
    <3>5. back[w] \in WorkerPC
      BY DEF WorkerPC
    <3>6. pc' \in [Workers -> WorkerPC]
      BY <1>31, <3>5 DEF WriteFails
    <3> QED
      BY <3>1, <3>2, <3>4, <3>6
  <2>3. faults' \in 0 .. MaxFaults
    BY <1>31 DEF WriteFails, Fault
  <2> QED
    BY <1>31, <2>1, <2>2, <2>3 DEF WriteFails
<1> QED
  BY <1>1, <1>2, <1>3, <1>4, <1>5, <1>6, <1>7, <1>8, <1>9,
     <1>10, <1>11, <1>12, <1>13, <1>14, <1>15, <1>16, <1>17, <1>18,
     <1>19, <1>20, <1>21, <1>22, <1>23, <1>24, <1>25, <1>26, <1>27,
     <1>28, <1>29, <1>30, <1>31, <1>32, <1>33, <1>34
  DEF Next

\* A step that changes neither the writers nor the permits.
LEMMA BalancedKept ==
  ASSUME Balanced, permits' = permits,
         \A v \in Workers : (pc'[v] = "execute") <=> (pc[v] = "execute"),
         \A v \in Workers : pc[v] = "execute" => group'[v] = group[v]
  PROVE  Balanced'
<1>1. \A g : Writers(g)' = Writers(g)
  BY DEF Writers, Domain
<1> QED
  BY <1>1 DEF Balanced

\* A writer that leaves returns its permit, and only that one.
LEMMA BalancedReturn ==
  ASSUME TypeOK, Balanced, NEW w \in Workers, permits' = Returned(w),
         group' = group, NEW p, p # "execute",
         pc' = [pc EXCEPT ![w] = p]
  PROVE  Balanced'
<1>0. /\ permits \in [Keys -> 0 .. Holders] /\ Holders \in Nat
      /\ group \in [Workers -> Graphs] /\ pc \in [Workers -> WorkerPC]
  BY AxisAssumption DEF TypeOK
<1>1. CASE pc[w] # "execute"
  <2>1. permits' = permits
    BY <1>1 DEF Returned
  <2>2. \A v \in Workers : (pc'[v] = "execute") <=> (pc[v] = "execute")
    BY <1>0, <1>1
  <2> QED
    BY <2>1, <2>2, BalancedKept
<1>2. CASE pc[w] = "execute"
  <2>1. PICK h \in Keys : h = Domain(w)
    BY DomainType
  <2>2. permits' = [permits EXCEPT ![h] = @ - 1]
    BY <1>2, <2>1 DEF Returned
  <2>3. ASSUME NEW g \in Keys, g # h
        PROVE  permits'[g] = Cardinality(Writers(g))'
    <3>1. Writers(g)' = Writers(g)
      BY <1>0, <1>2, <2>1, <2>3 DEF Writers, Domain
    <3>2. permits'[g] = permits[g]
      BY <1>0, <2>1, <2>2, <2>3
    <3> QED
      BY <3>1, <3>2 DEF Balanced
  <2>4. permits'[h] = Cardinality(Writers(h))'
    <3>1. Writers(h)' = Writers(h) \ {w} /\ w \in Writers(h)
      BY <1>0, <1>2, <2>1 DEF Writers, Domain
    <3>2. IsFiniteSet(Writers(h))
      BY AxisAssumption, FS_Subset DEF Writers
    <3>3. Cardinality(Writers(h) \ {w}) = Cardinality(Writers(h)) - 1
      BY <3>1, <3>2, FS_RemoveElement
    <3>4. permits'[h] = permits[h] - 1
      BY <1>0, <2>1, <2>2
    <3> QED
      BY <2>1, <3>1, <3>3, <3>4 DEF Balanced
  <2> QED
    BY <2>3, <2>4 DEF Balanced
<1> QED
  BY <1>1, <1>2

\* admitWriteback counts the worker it lets through.
LEMMA BalancedAdmit ==
  ASSUME TypeOK, Balanced, NEW w \in Workers, pc[w] = "write", group' = group,
         permits' = [permits EXCEPT ![Domain(w)] = @ + 1],
         pc' = [pc EXCEPT ![w] = "execute"]
  PROVE  Balanced'
<1>0. /\ permits \in [Keys -> 0 .. Holders] /\ Holders \in Nat
      /\ group \in [Workers -> Graphs] /\ pc \in [Workers -> WorkerPC]
  BY AxisAssumption DEF TypeOK
<1>1. PICK h \in Keys : h = Domain(w)
  BY DomainType
<1>2. ASSUME NEW g \in Keys, g # h
      PROVE  permits'[g] = Cardinality(Writers(g))'
  <2>1. Writers(g)' = Writers(g)
    BY <1>0, <1>1, <1>2 DEF Writers, Domain
  <2>2. permits'[g] = permits[g]
    BY <1>0, <1>1, <1>2
  <2> QED
    BY <2>1, <2>2 DEF Balanced
<1>3. permits'[h] = Cardinality(Writers(h))'
  <2>1. Writers(h)' = Writers(h) \cup {w} /\ w \notin Writers(h)
    BY <1>0, <1>1 DEF Writers, Domain
  <2>2. IsFiniteSet(Writers(h))
    BY AxisAssumption, FS_Subset DEF Writers
  <2>3. Cardinality(Writers(h) \cup {w}) = Cardinality(Writers(h)) + 1
    BY <2>1, <2>2, FS_AddElement
  <2>4. permits'[h] = permits[h] + 1
    BY <1>0, <1>1
  <2> QED
    BY <1>1, <2>1, <2>3, <2>4 DEF Balanced
<1> QED
  BY <1>2, <1>3 DEF Balanced

\* Every step keeps the permits balanced.
LEMMA BalancedStep ==
  ASSUME TypeOK, Balanced, [Next]_vars
  PROVE  Balanced'
<1> USE DEF chanVars, dispVars, workVars, graphVars, envVars
<1>0. /\ group \in [Workers -> Graphs]
      /\ pc \in [Workers -> WorkerPC]
      /\ back \in [Workers -> {"groups", "stride", "recover"}]
  BY DEF TypeOK
<1>1. CASE UNCHANGED <<pc, group, permits>>
  BY <1>1, BalancedKept
<1>2. CASE UNCHANGED vars
  BY <1>1, <1>2 DEF vars
<1>3. CASE Elsewhere
  BY <1>1, <1>3 DEF Elsewhere, Dispatcher, Push, Prune,
     CollectorsExit, Receive, FlushTimer, Emit, EmitDrops, DrainStarts,
     Drain, StopBegins, CloseWork, DispatchersGone, WorkersGone,
     StopTimesOut, Latch, Resume, CancelStart
<1>4. ASSUME NEW w \in Workers, Worker(w)
      PROVE  Balanced'
  <2>1. CASE TakeLease(w)
    BY <1>0, <2>1, BalancedKept DEF TakeLease
  <2>2. CASE WorkerExits(w)
    BY <1>0, <2>2, BalancedKept DEF WorkerExits
  <2>3. CASE NextGroup(w)
    <3>1. PICK g : group' = [group EXCEPT ![w] = g]
      BY <2>3 DEF NextGroup
    <3> QED
      BY <2>3, <1>0, <3>1, BalancedKept DEF NextGroup
  <2>4. CASE ReleaseLease(w)
    BY <1>0, <2>4, BalancedKept DEF ReleaseLease
  <2>5. CASE NextCall(w)
    BY <1>0, <2>5, BalancedKept DEF NextCall
  <2>6. CASE PassGate(w)
    BY <1>0, <2>6, BalancedKept DEF PassGate
  <2>7. CASE CallOK(w)
    BY <1>0, <2>7, BalancedKept DEF CallOK
  <2>8. CASE CallFails(w)
    BY <1>0, <2>8, BalancedKept DEF CallFails, Marking
  <2>9. CASE CallRefused(w)
    BY <1>0, <2>9, BalancedKept DEF CallRefused, Marking
  <2>10. CASE CallPanics(w)
    BY <1>0, <2>10, BalancedKept DEF CallPanics
  <2>11. CASE Recover(w)
    <3>1. PICK g : group' = [group EXCEPT ![w] = g]
      BY <2>11 DEF Recover
    <3> QED
      BY <1>0, <2>11, <3>1, BalancedKept DEF Recover
  <2>12. CASE Admit(w)
    <3>1. CASE /\ permits' = [permits EXCEPT ![Domain(w)] = @ + 1]
               /\ pc' = [pc EXCEPT ![w] = "execute"]
      BY <2>12, <3>1, BalancedAdmit DEF Admit
    <3>2. CASE permits' = permits /\ pc' = [pc EXCEPT ![w] = "bare"]
      BY <2>12, <1>0, <3>2, BalancedKept DEF Admit
    <3> QED
      BY <2>12, <3>1, <3>2 DEF Admit
  <2>13. CASE WriteLands(w)
    BY <2>13, BalancedReturn DEF WriteLands
  <2>14. CASE WriteFails(w)
    <3>1. back[w] # "execute"
      BY <1>0
    <3>2. CASE pc' = [pc EXCEPT ![w] = "write"]
      BY <2>14, <3>2, BalancedReturn DEF WriteFails
    <3>3. CASE pc' = [pc EXCEPT ![w] = back[w]]
      BY <2>14, <3>1, <3>3, BalancedReturn DEF WriteFails
    <3> QED
      BY <2>14, <3>2, <3>3 DEF WriteFails
  <2>15. CASE Recovered(w)
    BY <1>0, <2>15, BalancedKept DEF Recovered
  <2>16. CASE MarkLands(w)
    <3>1. back[w] # "execute"
      BY <1>0
    <3> QED
      BY <2>16, <3>1, BalancedReturn DEF MarkLands
  <2> QED
    BY <1>4, <2>1, <2>2, <2>3, <2>4, <2>5, <2>6, <2>7, <2>8, <2>9,
       <2>10, <2>11, <2>12, <2>13, <2>14, <2>15, <2>16
    DEF Worker
<1> QED
  BY <1>2, <1>3, <1>4, NextCases

-----------------------------------------------------------------------------
(* What a worker holds. *)

\* Nobody but the worker changes what it holds.
LEMMA WorkerAlone ==
  ASSUME TypeOK, NEW w \in Workers, Worker(w), NEW v \in Workers, v # w
  PROVE  /\ pc'[v] = pc[v] /\ lease'[v] = lease[v]
         /\ todo'[v] = todo[v] /\ merged'[v] = merged[v]
         /\ back'[v] = back[v]
<1>0. /\ pc \in [Workers -> WorkerPC] /\ lease \in [Workers -> Seq(Items)]
      /\ todo \in [Workers -> Seq(Seq(Items))]
      /\ merged \in [Workers -> SUBSET Items]
      /\ back \in [Workers -> {"groups", "stride", "recover"}]
  BY DEF TypeOK
<1> USE DEF workVars
<1>1. CASE TakeLease(w)
  BY <1>0, <1>1 DEF TakeLease
<1>2. CASE WorkerExits(w)
  BY <1>0, <1>2 DEF WorkerExits
<1>3. CASE NextGroup(w)
  BY <1>0, <1>3 DEF NextGroup
<1>4. CASE ReleaseLease(w)
  BY <1>0, <1>4 DEF ReleaseLease
<1>5. CASE NextCall(w)
  BY <1>0, <1>5 DEF NextCall
<1>6. CASE PassGate(w)
  BY <1>0, <1>6 DEF PassGate
<1>7. CASE CallOK(w)
  BY <1>0, <1>7 DEF CallOK
<1>8. CASE CallFails(w)
  BY <1>0, <1>8 DEF CallFails, Marking
<1>9. CASE CallRefused(w)
  BY <1>0, <1>9 DEF CallRefused, Marking
<1>10. CASE CallPanics(w)
  BY <1>0, <1>10 DEF CallPanics
<1>11. CASE Recover(w)
  BY <1>0, <1>11 DEF Recover
<1>12. CASE Admit(w)
  BY <1>0, <1>12 DEF Admit
<1>13. CASE WriteLands(w)
  BY <1>0, <1>13 DEF WriteLands
<1>14. CASE WriteFails(w)
  BY <1>0, <1>14 DEF WriteFails
<1>15. CASE Recovered(w)
  BY <1>0, <1>15 DEF Recovered
<1>16. CASE MarkLands(w)
  BY <1>0, <1>16 DEF MarkLands
<1> QED
  BY <1>1, <1>2, <1>3, <1>4, <1>5, <1>6, <1>7, <1>8, <1>9,
     <1>10, <1>11, <1>12, <1>13, <1>14, <1>15, <1>16
  DEF Worker

\* Every step keeps what the workers hold within their leases.
LEMMA InHandStep ==
  ASSUME TypeOK, InHand, [Next]_vars
  PROVE  InHand'
<1>0. /\ pc \in [Workers -> WorkerPC] /\ lease \in [Workers -> Seq(Items)]
      /\ todo \in [Workers -> Seq(Seq(Items))]
      /\ merged \in [Workers -> SUBSET Items]
      /\ back \in [Workers -> {"groups", "stride", "recover"}]
  BY DEF TypeOK
<1>1. CASE UNCHANGED <<pc, lease, todo, merged, back>>
  BY <1>1 DEF InHand, Hand
<1>2. CASE UNCHANGED vars
  BY <1>1, <1>2 DEF vars, workVars
<1>3. CASE Elsewhere
  BY <1>1, <1>3 DEF workVars, Elsewhere, Dispatcher, Push, Prune,
     CollectorsExit, Receive, FlushTimer, Emit, EmitDrops, DrainStarts,
     Drain, StopBegins, CloseWork, DispatchersGone, WorkersGone,
     StopTimesOut, Latch, Resume, CancelStart
<1>4. ASSUME NEW w \in Workers, Worker(w)
      PROVE  InHand'
  <2>0. \A v \in Workers : v # w => Hand(v)'
    BY <1>4, WorkerAlone DEF InHand, Hand
  <2> SUFFICES Hand(w)'
    BY <2>0 DEF InHand
  <2> USE <1>0
  <2>1. CASE TakeLease(w)
    BY <2>1 DEF TakeLease, InHand, Hand
  <2>2. CASE WorkerExits(w)
    BY <2>2 DEF WorkerExits, InHand, Hand
  <2>3. CASE NextGroup(w)
    <3>1. PICK g \in groups[w] :
            \E s \in Picked(lease[w],
                            {k \in DOMAIN lease[w] : GraphOf[lease[w][k]] = g}) :
              todo' = [todo EXCEPT ![w] = Strides(s)]
      BY <2>3 DEF NextGroup
    <3>2. PICK s \in Picked(lease[w],
                           {k \in DOMAIN lease[w] : GraphOf[lease[w][k]] = g}) :
            todo' = [todo EXCEPT ![w] = Strides(s)]
      BY <3>1
    <3>3. s \in Seq(Items) /\ ToSet(s) \subseteq ToSet(lease[w])
      <4>1. lease[w] \in Seq(Items)
        OBVIOUS
      <4> QED
        BY <4>1, PickedProp
    <3>4. \A j \in DOMAIN Strides(s) : ToSet(Strides(s)[j]) \subseteq ToSet(lease[w])
      BY <3>3, StridesWithin DEF Within
    <3>5. todo'[w] = Strides(s)
      BY <3>2
    <3>6. /\ pc'[w] = "stride" /\ lease'[w] = lease[w] /\ pc[w] = "groups"
          /\ merged'[w] = merged[w] /\ back'[w] = back[w]
      BY <2>3 DEF NextGroup
    <3> QED
      BY <3>4, <3>5, <3>6 DEF InHand, Hand
  <2>4. CASE ReleaseLease(w)
    <3>1. ToSet(<<>>) = {}
      BY DEF ToSet
    <3> QED
      BY <2>4, <3>1 DEF ReleaseLease, InHand, Hand
  <2>5. CASE NextCall(w)
    BY <2>5 DEF NextCall, InHand, Hand
  <2>6. CASE PassGate(w)
    BY <2>6 DEF PassGate, InHand, Hand
  <2>7. CASE CallOK(w)
    <3>1. /\ todo[w] \in Seq(Seq(Items)) /\ todo[w] # <<>>
          /\ lease[w] \in Seq(Items)
      BY <2>7 DEF CallOK, InHand, Hand
    <3>2. /\ Head(todo[w]) = todo[w][1] /\ 1 \in DOMAIN todo[w]
          /\ Tail(todo[w]) \in Seq(Seq(Items))
          /\ \A j \in DOMAIN Tail(todo[w]) :
               j + 1 \in DOMAIN todo[w] /\ Tail(todo[w])[j] = todo[w][j + 1]
      BY <3>1
    <3>3. \A j \in DOMAIN todo[w] : ToSet(todo[w][j]) \subseteq ToSet(lease[w])
      BY <2>7 DEF CallOK, InHand, Hand
    <3>4. /\ ToSet(Head(todo[w])) \subseteq ToSet(lease[w])
          /\ \A j \in DOMAIN Tail(todo[w]) :
               ToSet(Tail(todo[w])[j]) \subseteq ToSet(lease[w])
      BY <3>2, <3>3
    <3>5. /\ pc'[w] = "stride" /\ lease'[w] = lease[w]
          /\ todo'[w] = Tail(todo[w]) /\ back'[w] = back[w] /\ pc[w] = "call"
          /\ merged'[w] = merged[w] \cup ToSet(Head(todo[w]))
      BY <2>7 DEF CallOK
    <3> QED
      BY <3>4, <3>5 DEF InHand, Hand
  <2>8. CASE CallFails(w)
    <3>1. /\ todo[w] \in Seq(Seq(Items)) /\ todo[w] # <<>>
          /\ lease[w] \in Seq(Items)
      BY <2>8 DEF CallFails, InHand, Hand
    <3>2. /\ Head(todo[w]) = todo[w][1] /\ 1 \in DOMAIN todo[w]
          /\ Tail(todo[w]) \in Seq(Seq(Items))
          /\ \A j \in DOMAIN Tail(todo[w]) :
               j + 1 \in DOMAIN todo[w] /\ Tail(todo[w])[j] = todo[w][j + 1]
      BY <3>1
    <3>3. \A j \in DOMAIN todo[w] : ToSet(todo[w][j]) \subseteq ToSet(lease[w])
      BY <2>8 DEF CallFails, InHand, Hand
    <3>4. /\ ToSet(Head(todo[w])) \subseteq ToSet(lease[w])
          /\ \A j \in DOMAIN Tail(todo[w]) :
               ToSet(Tail(todo[w])[j]) \subseteq ToSet(lease[w])
      BY <3>2, <3>3
    <3>5. /\ lease'[w] = lease[w] /\ pc[w] = "call"
          /\ todo'[w] = Tail(todo[w])
          /\ merged'[w] = merged[w]
          /\ \/ pc'[w] = "stride" /\ back'[w] = back[w]
             \/ pc'[w] = "write" /\ back'[w] = "stride"
      BY <2>8 DEF CallFails, Marking
    <3> QED
      BY <3>4, <3>5 DEF InHand, Hand
  <2>9. CASE CallRefused(w)
    <3>1. /\ todo[w] \in Seq(Seq(Items)) /\ todo[w] # <<>>
          /\ lease[w] \in Seq(Items)
      BY <2>9 DEF CallRefused, InHand, Hand
    <3>2. /\ Head(todo[w]) = todo[w][1] /\ 1 \in DOMAIN todo[w]
          /\ Tail(todo[w]) \in Seq(Seq(Items))
          /\ \A j \in DOMAIN Tail(todo[w]) :
               j + 1 \in DOMAIN todo[w] /\ Tail(todo[w])[j] = todo[w][j + 1]
      BY <3>1
    <3>3. \A j \in DOMAIN todo[w] : ToSet(todo[w][j]) \subseteq ToSet(lease[w])
      BY <2>9 DEF CallRefused, InHand, Hand
    <3>4. /\ ToSet(Head(todo[w])) \subseteq ToSet(lease[w])
          /\ \A j \in DOMAIN Tail(todo[w]) :
               ToSet(Tail(todo[w])[j]) \subseteq ToSet(lease[w])
      BY <3>2, <3>3
    <3> DEFINE sub == Head(todo[w])
    <3>5. PICK limit \in Reports :
            \E parts \in IF Len(sub) = 1 THEN {<<>>} ELSE splitParts(sub, limit) :
              todo' = [todo EXCEPT ![w] = parts \o Tail(@)]
      BY <2>9 DEF CallRefused
    <3>6. PICK parts \in IF Len(sub) = 1 THEN {<<>>} ELSE splitParts(sub, limit) :
            todo' = [todo EXCEPT ![w] = parts \o Tail(@)]
      BY <3>5
    <3>7. limit \in Nat /\ sub \in Seq(Items)
      BY <3>1, AxisAssumption
    <3>8. Within(parts, sub, Items)
      <4>1. CASE Len(sub) = 1
        BY <3>6, <4>1 DEF Within
      <4>2. CASE Len(sub) # 1
        BY <3>6, <3>7, <4>2, PartsWithin
      <4> QED
        BY <4>1, <4>2
    <3>9. /\ lease'[w] = lease[w] /\ merged'[w] = merged[w] /\ pc[w] = "call"
          /\ \/ pc'[w] = "stride" /\ back'[w] = back[w]
             \/ pc'[w] = "write" /\ back'[w] = "stride"
      BY <2>9 DEF CallRefused, Marking
    <3>10. todo'[w] = parts \o Tail(todo[w])
      BY <3>6
    <3>11. ASSUME NEW j \in DOMAIN (parts \o Tail(todo[w]))
           PROVE  ToSet((parts \o Tail(todo[w]))[j]) \subseteq ToSet(lease[w])
      <4> DEFINE t == Tail(todo[w])
      <4>1. parts \in Seq(Seq(Items)) /\ t \in Seq(Seq(Items))
        BY <3>2, <3>8 DEF Within
      <4>2. CASE j \in DOMAIN parts /\ (parts \o t)[j] = parts[j]
        BY <3>4, <3>8, <4>2 DEF Within
      <4>3. CASE j - Len(parts) \in DOMAIN t /\ (parts \o t)[j] = t[j - Len(parts)]
        BY <3>4, <4>3
      <4> QED
        BY <3>11, <4>1, <4>2, <4>3, Joined
    <3> QED
      BY <3>9, <3>10, <3>11 DEF InHand, Hand
  <2>10. CASE CallPanics(w)
    BY <2>10 DEF CallPanics, InHand, Hand
  <2>11. CASE Recover(w)
    BY <2>11 DEF Recover, InHand, Hand
  <2>15. CASE Recovered(w)
    BY <2>15 DEF Recovered, InHand, Hand
  <2>16. CASE MarkLands(w)
    <3>0. /\ lease'[w] = lease[w] /\ todo'[w] = todo[w] /\ back'[w] = back[w]
          /\ pc[w] \in {"execute", "bare"} /\ merged'[w] = merged[w]
          /\ pc'[w] = back[w] /\ back[w] \in {"stride", "recover"}
      BY <2>16 DEF MarkLands
    <3>1. CASE back[w] = "stride"
      BY <3>0, <3>1 DEF InHand, Hand
    <3>2. CASE back[w] = "recover"
      <4>1. lease[w] = <<>> /\ merged[w] = {}
        BY <3>2 DEF InHand, Hand, ToSet
      <4> QED
        BY <3>0, <3>2, <4>1 DEF InHand, Hand
    <3> QED
      BY <3>0, <3>1, <3>2
  <2>12. CASE Admit(w)
    BY <2>12 DEF Admit, InHand, Hand
  <2>13. CASE WriteLands(w)
    BY <2>13 DEF WriteLands, InHand, Hand
  <2>14. CASE WriteFails(w)
    <3> DEFINE lost == IF back[w] = "groups" THEN merged[w] ELSE {}
    <3>0. /\ lease'[w] = lease[w] /\ todo'[w] = todo[w] /\ back'[w] = back[w]
          /\ pc[w] \in {"execute", "bare"}
      BY <2>14 DEF WriteFails
    <3>1. CASE pc'[w] = "write" /\ merged'[w] = merged[w]
      BY <3>0, <3>1 DEF InHand, Hand
    <3>2. CASE pc'[w] = back[w] /\ merged'[w] = merged[w] \ lost
      <4>1. CASE back[w] = "groups"
        BY <3>0, <3>2, <4>1 DEF InHand, Hand
      <4>2. CASE back[w] = "stride"
        BY <3>0, <3>2, <4>2 DEF InHand, Hand
      <4>3. CASE back[w] = "recover"
        <5>1. lease[w] = <<>> /\ merged[w] = {}
          BY <4>3 DEF InHand, Hand, ToSet
        <5> QED
          BY <3>0, <3>2, <4>3, <5>1 DEF InHand, Hand
      <4> QED
        BY <4>1, <4>2, <4>3
    <3> QED
      BY <2>14, <3>1, <3>2 DEF WriteFails
  <2> QED
    BY <1>4, <2>1, <2>2, <2>3, <2>4, <2>5, <2>6, <2>7, <2>8, <2>9,
       <2>10, <2>11, <2>12, <2>13, <2>14, <2>15, <2>16
    DEF Worker
<1> QED
  BY <1>2, <1>3, <1>4, NextCases

-----------------------------------------------------------------------------
(* Where the items are. *)

\* The positions of i in the lease of w.
Has(w, i) == At(lease[w], i)

\* i is in one place at most.
Alone(i) ==
  /\ \A a, b \in At(in, i) : a = b
  /\ \A a, b \in At(batch, i) : a = b
  /\ \A j, l \in DOMAIN out :
       \A a \in At(out[j], i), b \in At(out[l], i) : j = l /\ a = b
  /\ \A v, w \in Workers :
       \A a \in Has(v, i), b \in Has(w, i) : v = w /\ a = b
  /\ \A a \in At(in, i), b \in At(batch, i) : FALSE
  /\ \A j \in DOMAIN out :
       \A a \in At(out[j], i), b \in At(in, i) \cup At(batch, i) : FALSE
  /\ \A w \in Workers :
       \A a \in Has(w, i), b \in At(in, i) \cup At(batch, i) : FALSE
  /\ \A w \in Workers, j \in DOMAIN out :
       \A a \in Has(w, i), b \in At(out[j], i) : FALSE

\* i is in some place.
Carried(i) ==
  \/ \E a \in At(in, i) : TRUE
  \/ \E a \in At(batch, i) : TRUE
  \/ \E j \in DOMAIN out : \E a \in At(out[j], i) : TRUE
  \/ \E w \in Workers : \E a \in Has(w, i) : TRUE

\* OnePlace without the places.
Tracked(i) ==
  /\ Alone(i)
  /\ Carried(i) => i \in owed
  /\ i \in owed => Carried(i) \/ ctxDone

Tracking == \A i \in Items : Tracked(i)

\* The places of an item, by kind.
LEMMA PlaceCases ==
  ASSUME NEW i, NEW x
  PROVE  x \in Places(i) <=>
           \/ \E k \in At(in, i) : x = <<"in", 0, k>>
           \/ \E k \in At(batch, i) : x = <<"batch", 0, k>>
           \/ \E j \in DOMAIN out : \E k \in At(out[j], i) : x = <<"out", j, k>>
           \/ \E w \in Workers : \E k \in Has(w, i) : x = <<"lease", w, k>>
<1> DEFINE A == {<<"in", 0, k>> : k \in At(in, i)}
           B == {<<"batch", 0, k>> : k \in At(batch, i)}
           C == UNION {{<<"out", j, k>> : k \in At(out[j], i)} : j \in DOMAIN out}
           D == UNION {{<<"lease", w, k>> : k \in At(lease[w], i)} : w \in Workers}
<1>1. x \in A <=> \E k \in At(in, i) : x = <<"in", 0, k>>
  OBVIOUS
<1>2. x \in B <=> \E k \in At(batch, i) : x = <<"batch", 0, k>>
  OBVIOUS
<1>3. x \in C <=> \E j \in DOMAIN out : \E k \in At(out[j], i) : x = <<"out", j, k>>
  OBVIOUS
<1>4. x \in D <=> \E w \in Workers : \E k \in Has(w, i) : x = <<"lease", w, k>>
  BY DEF Has
<1>5. Places(i) = A \cup B \cup C \cup D
  BY DEF Places
<1> HIDE DEF A, B, C, D
<1> QED
  BY <1>1, <1>2, <1>3, <1>4, <1>5

\* OnePlace speaks of places as tuples; this is the same of positions.
LEMMA OnePlaceTracked ==
  OnePlace <=> Tracking
<1> SUFFICES ASSUME NEW i \in Items
             PROVE  (/\ \A x, y \in Places(i) : x = y
                     /\ Places(i) # {} => i \in owed
                     /\ i \in owed => Places(i) # {} \/ ctxDone)
                    <=> Tracked(i)
  BY DEF OnePlace, Tracking
<1>1. Places(i) # {} <=> Carried(i)
  BY PlaceCases DEF Carried
<1>2. ASSUME Alone(i), NEW x \in Places(i), NEW y \in Places(i)
      PROVE  x = y
  BY <1>2, PlaceCases DEF Alone
<1>3. ASSUME \A x, y \in Places(i) : x = y
      PROVE  Alone(i)
  <2>1. \A k \in At(in, i) : <<"in", 0, k>> \in Places(i)
    BY PlaceCases
  <2>2. \A k \in At(batch, i) : <<"batch", 0, k>> \in Places(i)
    BY PlaceCases
  <2>3. \A j \in DOMAIN out : \A k \in At(out[j], i) :
          <<"out", j, k>> \in Places(i)
    BY PlaceCases
  <2>4. \A w \in Workers : \A k \in Has(w, i) : <<"lease", w, k>> \in Places(i)
    BY PlaceCases
  <2> QED
    BY <1>3, <2>1, <2>2, <2>3, <2>4 DEF Alone
<1> QED
  BY <1>1, <1>2, <1>3 DEF Tracked

\* Receiving shifts the positions by one.
LEMMA AtTail ==
  ASSUME NEW S, NEW s \in Seq(S), s # <<>>, NEW i
  PROVE  /\ \A k \in At(Tail(s), i) : k + 1 \in At(s, i) /\ k >= 1
         /\ \A k \in At(s, i) : k = 1 \/ k - 1 \in At(Tail(s), i)
         /\ 1 \in At(s, i) <=> Head(s) = i
         /\ \A k \in At(s, i) \cup At(Tail(s), i) : k \in Nat
BY DEF At

\* Sending adds a position at the end.
LEMMA AtAppend ==
  ASSUME NEW S, NEW s \in Seq(S), NEW e \in S, NEW i
  PROVE  /\ \A k : k \in At(Append(s, e), i) <=>
                     k \in At(s, i) \/ (k = Len(s) + 1 /\ e = i)
         /\ Len(s) + 1 \notin At(s, i)
BY DEF At

\* A step that moves no item.
LEMMA TrackedKept ==
  ASSUME NEW i \in Items, Tracked(i),
         UNCHANGED <<in, batch, out>>,
         \A v \in Workers : Has(v, i)' = Has(v, i),
         owed' = owed, ctxDone => ctxDone'
  PROVE  Tracked(i)'
BY DEF Tracked, Alone, Carried, At


\* A push takes an item that is nowhere.
LEMMA TrackedPush ==
  ASSUME TypeOK, Seen, NEW i \in Items, Tracked(i), NEW e \in Items, Push(e)
  PROVE  Tracked(i)'
<1>1. /\ \A k : k \in At(in', i) <=> k \in At(in, i) \/ (k = Len(in) + 1 /\ e = i)
      /\ Len(in) + 1 \notin At(in, i)
  BY AtAppend DEF Push, TypeOK
<1>2. /\ At(batch, i)' = At(batch, i) /\ out' = out
      /\ \A j \in DOMAIN out : At(out[j], i)' = At(out[j], i)
      /\ \A v : Has(v, i)' = Has(v, i)
      /\ At(in, i)' = At(in', i)
  BY DEF Push, dispVars, workVars, At, Has
<1>3. /\ i \in owed' <=> i \in owed \/ e = i
      /\ e \notin owed /\ ctxDone' = ctxDone
  BY DEF Push, Seen, envVars
<1>4. CASE e = i
  <2>1. ~Carried(i)
    BY <1>3, <1>4 DEF Tracked
  <2> QED
    BY <1>1, <1>2, <1>3, <1>4, <2>1 DEF Tracked, Alone, Carried
<1>5. CASE e # i
  BY <1>1, <1>2, <1>3, <1>5 DEF Tracked, Alone, Carried
<1> QED
  BY <1>4, <1>5

\* The dispatcher receives the item at the head of the work channel.
LEMMA TrackedReceive ==
  ASSUME TypeOK, NEW i \in Items, Tracked(i), Receive
  PROVE  Tracked(i)'
<1>1. /\ in \in Seq(Items) /\ in # <<>> /\ batch \in Seq(Items)
      /\ Head(in) \in Items
      /\ in' = Tail(in) /\ batch' = Append(batch, Head(in))
  BY DEF Receive, TypeOK
<1>2. /\ \A k \in At(Tail(in), i) : k + 1 \in At(in, i) /\ k >= 1
      /\ \A k \in At(in, i) : k = 1 \/ k - 1 \in At(Tail(in), i)
      /\ 1 \in At(in, i) <=> Head(in) = i
      /\ \A k \in At(in, i) \cup At(Tail(in), i) : k \in Nat
  BY <1>1, AtTail
<1>3. /\ \A k : k \in At(Append(batch, Head(in)), i) <=>
                  k \in At(batch, i) \/ (k = Len(batch) + 1 /\ Head(in) = i)
      /\ Len(batch) + 1 \notin At(batch, i)
  BY <1>1, AtAppend
<1>4. /\ At(in, i)' = At(Tail(in), i)
      /\ At(batch, i)' = At(Append(batch, Head(in)), i)
      /\ out' = out
      /\ \A j \in DOMAIN out : At(out[j], i)' = At(out[j], i)
      /\ \A v : Has(v, i)' = Has(v, i)
      /\ owed' = owed /\ ctxDone' = ctxDone
  BY <1>1 DEF Receive, workVars, envVars, At, Has
<1> DEFINE P == At(in, i)
           Q == At(Tail(in), i)
           R == At(batch, i)
           T == At(Append(batch, Head(in)), i)
<1> HIDE DEF P, Q, R, T
<1>5. /\ \A a, b \in Q : a = b
      /\ \A a, b \in T : a = b
      /\ \A a \in Q, b \in T : FALSE
      /\ (\E a \in Q \cup T : TRUE) <=> (\E a \in P \cup R : TRUE)
  <2>1. /\ \A a, b \in P : a = b
        /\ \A a, b \in R : a = b
        /\ \A a \in P, b \in R : FALSE
    BY DEF Tracked, Alone, P, R
  <2>2. /\ \A k \in Q : k + 1 \in P /\ k >= 1 /\ k \in Nat
        /\ \A k \in P : k = 1 \/ k - 1 \in Q
        /\ 1 \in P <=> Head(in) = i
        /\ \A k : k \in T <=> k \in R \/ (k = Len(batch) + 1 /\ Head(in) = i)
    BY <1>2, <1>3 DEF P, Q, R, T
  <2>3. CASE 1 \in P
    <3>1. Q = {}
      BY <2>1, <2>2, <2>3
    <3> QED
      BY <2>1, <2>2, <2>3, <3>1
  <2>4. CASE 1 \notin P
    <3>1. T = R
      BY <2>2, <2>4
    <3> QED
      BY <2>1, <2>2, <2>4, <3>1
  <2> QED
    BY <2>3, <2>4
<1> QED
  BY <1>4, <1>5 DEF Tracked, Alone, Carried, P, Q, R, T

\* The dispatcher sends its lease.
LEMMA TrackedEmit ==
  ASSUME TypeOK, NEW i \in Items, Tracked(i),
         out' = Append(out, batch), batch' = <<>>,
         UNCHANGED <<chanVars, workVars, envVars>>
  PROVE  Tracked(i)'
<1>1. out \in Seq(Seq(Items)) /\ batch \in Seq(Items)
  BY DEF TypeOK
<1> DEFINE n == Len(out) + 1
<1>2. /\ DOMAIN out' = DOMAIN out \cup {n}
      /\ n \notin DOMAIN out
      /\ out'[n] = batch
      /\ \A j \in DOMAIN out : out'[j] = out[j]
  BY <1>1
<1> HIDE DEF n
<1>3. At(batch, i)' = {}
  BY DEF At
<1>4. /\ At(in, i)' = At(in, i)
      /\ \A v : Has(v, i)' = Has(v, i)
      /\ owed' = owed /\ ctxDone' = ctxDone
  BY DEF chanVars, workVars, envVars, At, Has
<1>5. /\ \A j \in DOMAIN out' : j \in DOMAIN out \/ j = n
      /\ \A j \in DOMAIN out : j \in DOMAIN out' /\ j # n
      /\ n \in DOMAIN out'
  BY <1>2
<1>6. /\ \A j \in DOMAIN out : At(out'[j], i) = At(out[j], i)
      /\ At(out'[n], i) = At(batch, i)
  BY <1>2
<1>7. Carried(i)' <=> Carried(i)
  BY <1>3, <1>4, <1>5, <1>6 DEF Carried
<1>8. Alone(i)'
  <2>1. \A j, l \in DOMAIN out' :
          \A a \in At(out'[j], i), b \in At(out'[l], i) : j = l /\ a = b
    BY <1>5, <1>6 DEF Tracked, Alone
  <2>2. \A j \in DOMAIN out' :
          \A a \in At(out'[j], i), b \in At(in, i) : FALSE
    BY <1>5, <1>6 DEF Tracked, Alone
  <2>3. \A w \in Workers, j \in DOMAIN out' :
          \A a \in Has(w, i), b \in At(out'[j], i) : FALSE
    BY <1>5, <1>6 DEF Tracked, Alone
  <2> QED
    BY <1>3, <1>4, <2>1, <2>2, <2>3 DEF Tracked, Alone
<1> QED
  BY <1>4, <1>7, <1>8 DEF Tracked

\* Under a cancelled context the dispatcher drops its lease.
LEMMA TrackedDrop ==
  ASSUME NEW i \in Items, Tracked(i), EmitDrops
  PROVE  Tracked(i)'
<1>1. At(batch, i)' = {}
  BY DEF At, EmitDrops
<1>2. /\ At(in, i)' = At(in, i) /\ out' = out
      /\ \A j : At(out[j], i)' = At(out[j], i)
      /\ \A v : Has(v, i)' = Has(v, i)
      /\ owed' = owed /\ ctxDone' = ctxDone /\ ctxDone
  BY DEF EmitDrops, chanVars, workVars, envVars, At, Has
<1> QED
  BY <1>1, <1>2 DEF Tracked, Alone, Carried

\* A worker takes the lease at the head of the channel.
LEMMA TrackedTake ==
  ASSUME TypeOK, InHand, NEW i \in Items, Tracked(i),
         NEW w \in Workers, TakeLease(w)
  PROVE  Tracked(i)'
<1>1. /\ out \in Seq(Seq(Items)) /\ out # <<>> /\ out' = Tail(out)
      /\ lease \in [Workers -> Seq(Items)] /\ pc \in [Workers -> WorkerPC]
      /\ lease' = [lease EXCEPT ![w] = Head(out)]
      /\ pc' = [pc EXCEPT ![w] = "groups"]
      /\ lease[w] = <<>>
  BY DEF TakeLease, TypeOK, InHand, Hand
<1>2. /\ 1 \in DOMAIN out /\ Head(out) = out[1]
      /\ \A j \in DOMAIN out' : j + 1 \in DOMAIN out /\ out'[j] = out[j + 1]
                                  /\ j \in Nat /\ j >= 1
      /\ \A j \in DOMAIN out : j = 1 \/ j - 1 \in DOMAIN out'
      /\ \A j \in DOMAIN out : j \in Nat
  <2> DEFINE t == Tail(out)
  <2>1. /\ Len(out) \in Nat /\ Len(out) >= 1 /\ DOMAIN out = 1 .. Len(out)
        /\ Head(out) = out[1]
    BY <1>1
  <2>2. /\ Len(t) = Len(out) - 1 /\ DOMAIN t = 1 .. Len(t)
        /\ \A j \in 1 .. Len(t) : t[j] = out[j + 1]
    BY <1>1
  <2> HIDE DEF t
  <2>3. out' = t
    BY <1>1 DEF t
  <2> QED
    BY <2>1, <2>2, <2>3
<1>3. Has(w, i) = {}
  BY <1>1 DEF Has, At
<1>4. Has(w, i)' = At(out[1], i)
  BY <1>1, <1>2 DEF Has, At
<1>5. \A v \in Workers : v # w => Has(v, i)' = Has(v, i)
  BY <1>1 DEF Has, At
<1>6. /\ At(in, i)' = At(in, i) /\ At(batch, i)' = At(batch, i)
      /\ \A j \in DOMAIN out' : At(out[j], i)' = At(out[j + 1], i)
      /\ \A j \in DOMAIN out : j = 1 \/ At(out[j - 1], i)' = At(out[j], i)
      /\ owed' = owed /\ ctxDone' = ctxDone
  BY <1>2 DEF TakeLease, chanVars, envVars, At
<1> QED
  BY <1>2, <1>3, <1>4, <1>5, <1>6 DEF Tracked, Alone, Carried

\* A lease is released, at its end or by a panic.
LEMMA TrackedRelease ==
  ASSUME TypeOK, NEW i \in Items, Tracked(i), NEW w \in Workers,
         Has(w, i)' = {},
         \A v \in Workers : v # w => Has(v, i)' = Has(v, i),
         UNCHANGED <<in, batch, out, ctxDone>>,
         owed' = owed \ ToSet(lease[w])
  PROVE  Tracked(i)'
<1>1. i \in ToSet(lease[w]) <=> \E a \in Has(w, i) : TRUE
  BY DEF ToSet, Has, At
<1>2. /\ At(in, i)' = At(in, i) /\ At(batch, i)' = At(batch, i)
      /\ \A j : At(out[j], i)' = At(out[j], i)
  BY DEF At
<1> QED
  BY <1>1, <1>2 DEF Tracked, Alone, Carried

\* Every step keeps every item in flight in one place.
LEMMA TrackingStep ==
  ASSUME TypeOK, InHand, Seen, Tracking, [Next]_vars
  PROVE  Tracking'
<1> SUFFICES ASSUME NEW i \in Items
             PROVE  Tracked(i)'
  BY DEF Tracking
<1>0. /\ Tracked(i) /\ pc \in [Workers -> WorkerPC]
      /\ lease \in [Workers -> Seq(Items)]
  BY DEF Tracking, TypeOK
<1> USE DEF chanVars, dispVars, workVars, graphVars, envVars
<1>1. ASSUME UNCHANGED <<in, batch, out, owed, lease>>, ctxDone => ctxDone'
      PROVE  Tracked(i)'
  BY <1>0, <1>1, TrackedKept DEF Has, At
<1>2. CASE UNCHANGED vars
  BY <1>1, <1>2 DEF vars
<1>3. CASE Elsewhere
  <2>1. CASE \E e \in Items : Push(e)
    BY <1>0, <2>1, TrackedPush
  <2>2. CASE CollectorsExit
    BY <1>1, <2>2 DEF CollectorsExit
  <2>3. CASE Receive
    BY <1>0, <2>3, TrackedReceive
  <2>4. CASE FlushTimer
    BY <1>1, <2>4 DEF FlushTimer
  <2>5. CASE Emit
    BY <1>0, <2>5, TrackedEmit DEF Emit
  <2>6. CASE EmitDrops
    BY <1>0, <2>6, TrackedDrop
  <2>7. CASE DrainStarts
    BY <1>1, <2>7 DEF DrainStarts
  <2>8. CASE Drain
    <3>1. CASE batch = <<>>
      BY <1>1, <3>1, <2>8 DEF Drain
    <3>2. CASE batch # <<>>
      BY <1>0, <3>2, <2>8, TrackedEmit DEF Drain
    <3> QED
      BY <3>1, <3>2
  <2>9. CASE StopBegins
    BY <1>1, <2>9 DEF StopBegins
  <2>10. CASE CloseWork
    BY <1>1, <2>10 DEF CloseWork
  <2>11. CASE DispatchersGone
    BY <1>1, <2>11 DEF DispatchersGone
  <2>12. CASE WorkersGone
    BY <1>1, <2>12 DEF WorkersGone
  <2>13. CASE StopTimesOut
    BY <1>1, <2>13 DEF StopTimesOut
  <2>14. CASE Latch
    BY <1>1, <2>14 DEF Latch
  <2>15. CASE Resume
    BY <1>1, <2>15 DEF Resume
  <2>16. CASE CancelStart
    BY <1>1, <2>16 DEF CancelStart
  <2>17. CASE \E n \in Nodes : Prune(n)
    BY <1>1, <2>17 DEF Prune
  <2> QED
    BY <1>3, <2>1, <2>2, <2>3, <2>4, <2>5, <2>6, <2>7, <2>8, <2>9,
       <2>10, <2>11, <2>12, <2>13, <2>14, <2>15, <2>16, <2>17
    DEF Elsewhere, Dispatcher
<1>4. ASSUME NEW w \in Workers, Worker(w)
      PROVE  Tracked(i)'
  <2>0. \A v \in Workers : v # w => Has(v, i)' = Has(v, i)
    BY <1>4, WorkerAlone DEF Has, At
  <2>1. CASE TakeLease(w)
    BY <1>0, <2>1, TrackedTake
  <2>2. CASE ReleaseLease(w)
    <3>1. Has(w, i)' = {}
      BY <1>0, <2>2 DEF ReleaseLease, Has, At
    <3> QED
      BY <1>0, <2>0, <2>2, <3>1, TrackedRelease DEF ReleaseLease
  <2>3. CASE CallPanics(w)
    <3>1. Has(w, i)' = {}
      BY <1>0, <2>3 DEF CallPanics, Has, At
    <3> QED
      BY <1>0, <2>0, <2>3, <3>1, TrackedRelease DEF CallPanics
  <2>4. CASE \/ WorkerExits(w) \/ NextGroup(w) \/ NextCall(w) \/ PassGate(w)
             \/ CallOK(w) \/ CallFails(w) \/ CallRefused(w) \/ Recover(w)
             \/ Recovered(w) \/ Admit(w) \/ WriteLands(w) \/ MarkLands(w)
             \/ WriteFails(w)
    BY <1>1, <2>4 DEF WorkerExits, NextGroup, NextCall, PassGate, CallOK,
       CallFails, CallRefused, Recover, Recovered, Admit, WriteLands,
       MarkLands, WriteFails
  <2> QED
    BY <1>4, <2>1, <2>2, <2>3, <2>4 DEF Worker
<1> QED
  BY <1>2, <1>3, <1>4, NextCases

\* What a lease was made of is owed.
LEMMA CarriedOwed ==
  ASSUME TypeOK, Tracking
  PROVE  /\ \A j \in DOMAIN out : ToSet(out[j]) \subseteq owed
         /\ \A w \in Workers : ToSet(lease[w]) \subseteq owed
<1>0. out \in Seq(Seq(Items)) /\ lease \in [Workers -> Seq(Items)]
  BY DEF TypeOK
<1>1. ASSUME NEW j \in DOMAIN out, NEW x \in ToSet(out[j])
      PROVE  x \in owed
  <2>1. out[j] \in Seq(Items)
    BY <1>0
  <2>2. x \in Items /\ \E a \in At(out[j], x) : TRUE
    BY <2>1, <1>1, Elements DEF ToSet, At
  <2> QED
    BY <2>2 DEF Tracking, Tracked, Carried
<1>2. ASSUME NEW w \in Workers, NEW x \in ToSet(lease[w])
      PROVE  x \in owed
  <2>1. lease[w] \in Seq(Items)
    BY <1>0
  <2>2. x \in Items /\ \E a \in Has(w, x) : TRUE
    BY <2>1, <1>2, Elements DEF ToSet, At, Has
  <2> QED
    BY <2>2 DEF Tracking, Tracked, Carried
<1> QED
  BY <1>1, <1>2

\* Every step keeps what is owed, leased or to be marked among what was pushed.
LEMMA SeenStep ==
  ASSUME TypeOK, InHand, Tracking, Seen, [Next]_vars
  PROVE  Seen'
<1>0. /\ lease \in [Workers -> Seq(Items)] /\ marks \in [Workers -> SUBSET Items]
      /\ fallen \in [Workers -> SUBSET Items]
  BY DEF TypeOK
<1>1. ASSUME UNCHANGED <<lease, marks, fallen>>, pushed \subseteq pushed',
             owed' \subseteq owed \cup pushed'
      PROVE  Seen'
  BY <1>1 DEF Seen
<1> USE DEF chanVars, dispVars, workVars, graphVars, envVars
<1>2. CASE UNCHANGED vars
  BY <1>1, <1>2 DEF vars
<1>3. CASE Elsewhere
  BY <1>1, <1>3 DEF Elsewhere, Dispatcher, Push, Prune,
     CollectorsExit, Receive, FlushTimer, Emit, EmitDrops, DrainStarts,
     Drain, StopBegins, CloseWork, DispatchersGone, WorkersGone,
     StopTimesOut, Latch, Resume, CancelStart
<1>4. ASSUME NEW w \in Workers, Worker(w)
      PROVE  Seen'
  <2>0. ToSet(<<>>) = {}
    BY DEF ToSet
  <2>1. CASE TakeLease(w)
    <3>1. out \in Seq(Seq(Items)) /\ out # <<>>
      BY <2>1 DEF TakeLease, TypeOK
    <3>2. Head(out) = out[1] /\ 1 \in DOMAIN out
      BY <3>1
    <3>3. ToSet(Head(out)) \subseteq pushed
      BY <3>2, CarriedOwed DEF Seen
    <3>4. /\ pushed' = pushed /\ owed' = owed /\ marks' = marks /\ fallen' = fallen
          /\ lease' = [lease EXCEPT ![w] = Head(out)]
      BY <2>1 DEF TakeLease
    <3> QED
      BY <1>0, <3>3, <3>4 DEF Seen
  <2>2. CASE ReleaseLease(w)
    <3>1. /\ pushed' = pushed /\ owed' \subseteq owed /\ marks' = marks
          /\ fallen' = fallen /\ lease' = [lease EXCEPT ![w] = <<>>]
      BY <2>2 DEF ReleaseLease
    <3> QED
      BY <1>0, <2>0, <3>1 DEF Seen
  <2>3. CASE CallPanics(w)
    <3>1. /\ pushed' = pushed /\ owed' \subseteq owed /\ marks' = marks
          /\ fallen' = [fallen EXCEPT ![w] = ToSet(lease[w])]
          /\ lease' = [lease EXCEPT ![w] = <<>>]
      BY <2>3 DEF CallPanics
    <3> QED
      BY <1>0, <2>0, <3>1 DEF Seen
  <2>4. ASSUME NEW M, M \subseteq pushed, marks' = [marks EXCEPT ![w] = M],
               UNCHANGED <<pushed, owed, lease, fallen>>
        PROVE  Seen'
    BY <1>0, <2>4 DEF Seen
  <2>5. pc[w] = "call" => ToSet(Head(todo[w])) \subseteq pushed
    <3> SUFFICES ASSUME pc[w] = "call"
                 PROVE  ToSet(Head(todo[w])) \subseteq pushed
      OBVIOUS
    <3>1. todo[w] \in Seq(Seq(Items)) /\ todo[w] # <<>>
      BY DEF TypeOK, InHand, Hand
    <3>2. Head(todo[w]) = todo[w][1] /\ 1 \in DOMAIN todo[w]
      BY <3>1
    <3> QED
      BY <3>2 DEF InHand, Hand, Seen
  <2>6. CASE CallFails(w)
    <3>1. PICK M \in {{}, ToSet(Head(todo[w]))} : marks' = [marks EXCEPT ![w] = M]
      BY <2>6 DEF CallFails, Marking
    <3>2. M \subseteq pushed
      BY <2>5, <2>6 DEF CallFails
    <3> QED
      BY <2>4, <2>6, <3>1, <3>2 DEF CallFails
  <2>7. CASE CallRefused(w)
    <3>1. PICK limit \in Reports :
            marks' = [marks EXCEPT ![w] = splitMarks(Head(todo[w]), limit)]
      BY <2>7 DEF CallRefused, Marking
    <3>2. splitMarks(Head(todo[w]), limit) \subseteq ToSet(Head(todo[w]))
      BY DEF splitMarks, knownOversize
    <3>3. splitMarks(Head(todo[w]), limit) \subseteq pushed
      BY <2>5, <2>7, <3>2 DEF CallRefused
    <3> QED
      BY <2>4, <2>7, <3>1, <3>3 DEF CallRefused
  <2>8. CASE Recover(w)
    <3>1. PICK g : LET M == {i \in fallen[w] : GraphOf[i] = g}
                   IN  /\ marks' = [marks EXCEPT ![w] = M]
                       /\ fallen' = [fallen EXCEPT ![w] = @ \ M]
      BY <2>8 DEF Recover
    <3> DEFINE M == {i \in fallen[w] : GraphOf[i] = g}
    <3>2. M \subseteq pushed /\ fallen[w] \ M \subseteq pushed
      BY DEF Seen
    <3>3. /\ marks' = [marks EXCEPT ![w] = M]
          /\ fallen' = [fallen EXCEPT ![w] = fallen[w] \ M]
          /\ UNCHANGED <<pushed, owed, lease>>
      BY <2>8, <3>1 DEF Recover
    <3> HIDE DEF M
    <3> QED
      BY <1>0, <3>2, <3>3 DEF Seen
  <2>9. CASE MarkLands(w)
    <3>1. /\ marks' = [marks EXCEPT ![w] = {}]
          /\ UNCHANGED <<pushed, owed, lease, fallen>>
      BY <2>9 DEF MarkLands
    <3> QED
      BY <1>0, <3>1 DEF Seen
  <2>10. CASE WriteFails(w)
    <3>1. CASE marks' = marks
      BY <1>1, <2>10, <3>1 DEF WriteFails
    <3>2. CASE marks' = [marks EXCEPT ![w] = {}]
      BY <2>4, <2>10, <3>2 DEF WriteFails
    <3> QED
      BY <2>10, <3>1, <3>2 DEF WriteFails
  <2>11. CASE \/ WorkerExits(w) \/ NextGroup(w) \/ NextCall(w) \/ PassGate(w)
              \/ CallOK(w) \/ Recovered(w) \/ Admit(w) \/ WriteLands(w)
    BY <1>1, <2>11 DEF WorkerExits, NextGroup, NextCall, PassGate, CallOK,
       Recovered, Admit, WriteLands
  <2> QED
    BY <1>4, <2>1, <2>2, <2>3, <2>6, <2>7, <2>8, <2>9, <2>10, <2>11 DEF Worker
<1> QED
  BY <1>2, <1>3, <1>4, NextCases

\* Every step keeps the in-flight set in step with the items: a release takes
\* out the nodes of what it gives back, and a prune is remembered.
LEMMA InFlightStep ==
  ASSUME TypeOK, Seen, Tracking, InFlightIsOwed, [Next]_vars
  PROVE  InFlightIsOwed'
<1>1. ASSUME UNCHANGED <<owed, inFlight, pruned>>
      PROVE  InFlightIsOwed'
  BY <1>1 DEF InFlightIsOwed
<1>2. ASSUME NEW S, S \subseteq owed, owed' = owed \ S, inFlight' = inFlight \ NodesOf(S),
             UNCHANGED pruned
      PROVE  InFlightIsOwed'
  <2>1. \A n \in inFlight' : \E i \in owed' : NodeOf[i] = n
    BY <1>2 DEF InFlightIsOwed, NodesOf
  <2>2. ASSUME NEW i \in owed'
        PROVE  NodeOf[i] \in inFlight' \cup pruned'
    <3>1. CASE NodeOf[i] \in NodesOf(S) /\ NodeOf[i] \in inFlight
      <4>1. PICK j \in S : NodeOf[j] = NodeOf[i]
        BY <3>1 DEF NodesOf
      <4> QED
        BY <1>2, <4>1 DEF InFlightIsOwed
    <3>2. CASE ~(NodeOf[i] \in NodesOf(S) /\ NodeOf[i] \in inFlight)
      BY <1>2, <3>2 DEF InFlightIsOwed
    <3> QED
      BY <3>1, <3>2
  <2>3. \A i, j \in owed' : NodeOf[i] = NodeOf[j] => i = j \/ NodeOf[i] \in pruned'
    BY <1>2 DEF InFlightIsOwed
  <2> QED
    BY <2>1, <2>2, <2>3 DEF InFlightIsOwed
<1> USE DEF chanVars, dispVars, workVars, graphVars, envVars
<1>3. CASE UNCHANGED vars
  BY <1>1, <1>3 DEF vars
<1>4. CASE \E e \in Items : Push(e)
  <2>1. PICK e \in Items : Push(e)
    BY <1>4
  <2>2. /\ owed' = owed \cup {e} /\ inFlight' = inFlight \cup {NodeOf[e]}
        /\ pruned' = pruned /\ NodeOf[e] \notin inFlight
    BY <2>1 DEF Push
  <2>3. \A i \in owed : NodeOf[i] = NodeOf[e] => NodeOf[i] \in pruned
    BY <2>2 DEF InFlightIsOwed
  <2>4. \A n \in inFlight' : \E i \in owed' : NodeOf[i] = n
    BY <2>2 DEF InFlightIsOwed
  <2>5. \A i \in owed' : NodeOf[i] \in inFlight' \cup pruned'
    BY <2>2 DEF InFlightIsOwed
  <2>6. \A i, j \in owed' : NodeOf[i] = NodeOf[j] => i = j \/ NodeOf[i] \in pruned'
    BY <2>2, <2>3 DEF InFlightIsOwed
  <2> QED
    BY <2>4, <2>5, <2>6 DEF InFlightIsOwed
<1>5. CASE \E n \in Nodes : Prune(n)
  <2>1. PICK n \in Nodes : Prune(n)
    BY <1>5
  <2>2. /\ owed' = owed /\ inFlight' = inFlight \ {n} /\ pruned' = pruned \cup {n}
    BY <2>1 DEF Prune
  <2> QED
    BY <2>2 DEF InFlightIsOwed
<1>6. CASE \/ Dispatcher \/ CollectorsExit \/ StopBegins \/ CloseWork
           \/ DispatchersGone \/ WorkersGone \/ StopTimesOut \/ Latch \/ Resume
           \/ CancelStart
  BY <1>1, <1>6 DEF Dispatcher, CollectorsExit, Receive, FlushTimer, Emit,
     EmitDrops, DrainStarts, Drain, StopBegins, CloseWork, DispatchersGone,
     WorkersGone, StopTimesOut, Latch, Resume, CancelStart
<1>7. ASSUME NEW w \in Workers, Worker(w)
      PROVE  InFlightIsOwed'
  <2>1. ToSet(lease[w]) \subseteq owed
    BY CarriedOwed
  <2>2. CASE ReleaseLease(w)
    BY <1>2, <2>1, <2>2 DEF ReleaseLease
  <2>3. CASE CallPanics(w)
    BY <1>2, <2>1, <2>3 DEF CallPanics
  <2>4. CASE \/ TakeLease(w) \/ WorkerExits(w) \/ NextGroup(w) \/ NextCall(w)
             \/ PassGate(w) \/ CallOK(w) \/ CallFails(w) \/ CallRefused(w)
             \/ Recover(w) \/ Recovered(w) \/ Admit(w) \/ WriteLands(w)
             \/ MarkLands(w) \/ WriteFails(w)
    BY <1>1, <2>4 DEF TakeLease, WorkerExits, NextGroup, NextCall, PassGate,
       CallOK, CallFails, CallRefused, Recover, Recovered, Admit, WriteLands,
       MarkLands, WriteFails
  <2> QED
    BY <1>7, <2>2, <2>3, <2>4 DEF Worker
<1> QED
  BY <1>3, <1>4, <1>5, <1>6, <1>7, NextCases DEF Elsewhere

(* The order of the shutdown, and what was paid for. *)

\* Every step keeps the stages of the shutdown in order.
LEMMA StagedStep ==
  ASSUME TypeOK, Staged, [Next]_vars
  PROVE  Staged'
<1>0. /\ pc \in [Workers -> WorkerPC] /\ in \in Seq(Items)
      /\ out \in Seq(Seq(Items)) /\ batch \in Seq(Items)
      /\ collecting \in {"run", "cancelled", "gone"}
      /\ back \in [Workers -> {"groups", "stride", "recover"}]
      /\ Cardinality(Workers) \in Nat
  BY AxisAssumption, FS_CardinalityType DEF TypeOK
<1> USE <1>0 DEF Staged, chanVars, dispVars, workVars, graphVars, envVars
<1>1. CASE UNCHANGED vars
  BY <1>1 DEF vars
<1>2. CASE Elsewhere
  <2>1. CASE \E e \in Items : Push(e)
    BY <2>1 DEF Push
  <2>2. CASE CollectorsExit
    BY <2>2 DEF CollectorsExit
  <2>3. CASE Receive
    BY <2>3 DEF Receive
  <2>4. CASE FlushTimer
    BY <2>4 DEF FlushTimer
  <2>5. CASE Emit
    BY <2>5 DEF Emit
  <2>6. CASE EmitDrops
    BY <2>6 DEF EmitDrops
  <2>7. CASE DrainStarts
    BY <2>7 DEF DrainStarts
  <2>8. CASE Drain
    BY <2>8 DEF Drain
  <2>9. CASE StopBegins
    BY <2>9 DEF StopBegins
  <2>10. CASE CloseWork
    BY <2>10 DEF CloseWork
  <2>11. CASE DispatchersGone
    BY <2>11 DEF DispatchersGone
  <2>12. CASE WorkersGone
    BY <2>12 DEF WorkersGone
  <2>13. CASE StopTimesOut
    BY <2>13 DEF StopTimesOut
  <2>14. CASE Latch
    BY <2>14 DEF Latch
  <2>15. CASE Resume
    BY <2>15 DEF Resume
  <2>16. CASE CancelStart
    BY <2>16 DEF CancelStart
  <2>17. CASE \E n \in Nodes : Prune(n)
    BY <2>17 DEF Prune
  <2> QED
    BY <1>2, <2>1, <2>2, <2>3, <2>4, <2>5, <2>6, <2>7, <2>8, <2>9,
       <2>10, <2>11, <2>12, <2>13, <2>14, <2>15, <2>16, <2>17
    DEF Elsewhere, Dispatcher
<1>3. ASSUME NEW w \in Workers, Worker(w)
      PROVE  Staged'
  <2>move. ASSUME UNCHANGED <<in, inClosed, collecting, disp, batch, out, outClosed,
                            stop, ctxDone>>,
                NEW p, p # "done", pc[w] # "done", pc' = [pc EXCEPT ![w] = p]
         PROVE  Staged'
    BY <2>move
  <2>1. CASE TakeLease(w)
    BY <2>1 DEF TakeLease
  <2>2. CASE WorkerExits(w)
    BY <2>2 DEF WorkerExits
  <2>3. CASE NextGroup(w)
    BY <2>move, <2>3 DEF NextGroup
  <2>4. CASE ReleaseLease(w)
    BY <2>move, <2>4 DEF ReleaseLease
  <2>5. CASE NextCall(w)
    <3>1. PICK p \in {"write", "gate", "groups"} : pc' = [pc EXCEPT ![w] = p]
      BY <2>5 DEF NextCall
    <3> QED
      BY <2>5, <2>move, <3>1 DEF NextCall
  <2>6. CASE PassGate(w)
    BY <2>move, <2>6 DEF PassGate
  <2>7. CASE CallOK(w)
    BY <2>move, <2>7 DEF CallOK
  <2>8. CASE CallFails(w)
    <3>1. PICK p \in {"write", "stride"} : pc' = [pc EXCEPT ![w] = p]
      BY <2>8 DEF CallFails, Marking
    <3> QED
      BY <2>move, <2>8, <3>1 DEF CallFails
  <2>9. CASE CallRefused(w)
    <3>1. PICK p \in {"write", "stride"} : pc' = [pc EXCEPT ![w] = p]
      BY <2>9 DEF CallRefused, Marking
    <3> QED
      BY <2>move, <2>9, <3>1 DEF CallRefused
  <2>10. CASE CallPanics(w)
    BY <2>move, <2>10 DEF CallPanics
  <2>11. CASE Recover(w) \/ Recovered(w)
    <3>1. PICK p \in {"write", "idle"} : pc' = [pc EXCEPT ![w] = p]
      BY <2>11 DEF Recover, Recovered
    <3> QED
      BY <2>move, <2>11, <3>1 DEF Recover, Recovered
  <2>12. CASE Admit(w)
    <3>1. PICK p \in {"execute", "bare"} : pc' = [pc EXCEPT ![w] = p]
      BY <2>12 DEF Admit
    <3> QED
      BY <2>12, <2>move, <3>1 DEF Admit
  <2>13. CASE WriteLands(w)
    BY <2>move, <2>13 DEF WriteLands
  <2>14. CASE WriteFails(w) \/ MarkLands(w)
    <3>1. PICK p \in {"write", "groups", "stride", "recover"} :
            pc' = [pc EXCEPT ![w] = p]
      BY <2>14 DEF WriteFails, MarkLands
    <3> QED
      BY <2>14, <2>move, <3>1 DEF WriteFails, MarkLands
  <2> QED
    BY <1>3, <2>1, <2>2, <2>3, <2>4, <2>5, <2>6, <2>7, <2>8, <2>9,
       <2>10, <2>11, <2>12, <2>13, <2>14
    DEF Worker
<1> QED
  BY <1>1, <1>2, <1>3, NextCases

\* Every step keeps what was paid for.
LEMMA PaidStep ==
  ASSUME TypeOK, PaidIsKept, [Next]_vars
  PROVE  PaidIsKept'
<1>0. merged \in [Workers -> SUBSET Items]
  BY DEF TypeOK
<1>1. ASSUME UNCHANGED <<billed, written, merged>>
      PROVE  PaidIsKept'
  BY <1>1 DEF PaidIsKept
<1>2. \A x \in billed : x \in written \/ \E v \in Workers : x \in merged[v]
  BY DEF PaidIsKept
<1>3. ASSUME \A x \in billed' : x \in written' \/ \E v \in Workers : x \in merged'[v]
      PROVE  PaidIsKept'
  BY <1>3 DEF PaidIsKept
<1> USE <1>0 DEF chanVars, dispVars, workVars, graphVars, envVars
<1>4. CASE UNCHANGED vars
  BY <1>1, <1>4 DEF vars
<1>5. CASE Elsewhere
  BY <1>1, <1>5 DEF Elsewhere, Dispatcher, Push, Prune,
     CollectorsExit, Receive, FlushTimer, Emit, EmitDrops, DrainStarts,
     Drain, StopBegins, CloseWork, DispatchersGone, WorkersGone,
     StopTimesOut, Latch, Resume, CancelStart
<1>6. ASSUME NEW w \in Workers, Worker(w)
      PROVE  PaidIsKept'
  <2>1. CASE CallOK(w)
    <3>1. /\ billed' = billed \cup ToSet(Head(todo[w])) /\ written' = written
          /\ merged' = [merged EXCEPT ![w] = @ \cup ToSet(Head(todo[w]))]
      BY <2>1 DEF CallOK
    <3>2. /\ merged'[w] = merged[w] \cup ToSet(Head(todo[w]))
          /\ \A v \in Workers : v # w => merged'[v] = merged[v]
      BY <3>1
    <3> QED
      BY <1>2, <1>3, <3>1, <3>2
  <2>2. ASSUME merged' = [merged EXCEPT ![w] = {}], written \subseteq written',
               billed' \ written' \subseteq billed \ merged[w]
        PROVE  PaidIsKept'
    <3>1. \A v \in Workers : v # w => merged'[v] = merged[v]
      BY <2>2
    <3> QED
      BY <1>2, <1>3, <2>2, <3>1
  <2>3. CASE CallPanics(w)
    BY <2>2, <2>3 DEF CallPanics
  <2>4. CASE WriteLands(w)
    BY <2>2, <2>4 DEF WriteLands
  <2>5. CASE WriteFails(w)
    <3>1. CASE UNCHANGED <<billed, merged>>
      BY <1>1, <2>5, <3>1 DEF WriteFails
    <3>2. CASE /\ back[w] = "groups" /\ billed' = billed \ merged[w]
               /\ merged' = [merged EXCEPT ![w] = @ \ merged[w]]
      <4>1. merged' = [merged EXCEPT ![w] = {}]
        BY <3>2
      <4> QED
        BY <2>2, <2>5, <3>2, <4>1 DEF WriteFails
    <3>3. CASE back[w] # "groups" /\ billed' = billed \ {}
                 /\ merged' = [merged EXCEPT ![w] = @ \ {}]
      <4>1. billed' = billed /\ merged' = merged
        BY <3>3
      <4> QED
        BY <1>1, <2>5, <4>1 DEF WriteFails
    <3> QED
      BY <2>5, <3>1, <3>2, <3>3 DEF WriteFails
  <2>6. CASE \/ TakeLease(w) \/ WorkerExits(w) \/ NextGroup(w) \/ ReleaseLease(w)
             \/ NextCall(w) \/ PassGate(w) \/ Recover(w) \/ Admit(w)
             \/ CallFails(w) \/ CallRefused(w) \/ Recovered(w) \/ MarkLands(w)
    BY <1>1, <2>6 DEF TakeLease, WorkerExits, NextGroup, ReleaseLease, NextCall,
       PassGate, Recover, Recovered, Admit, CallFails, CallRefused, MarkLands
  <2> QED
    BY <1>6, <2>1, <2>3, <2>4, <2>5, <2>6 DEF Worker
<1> QED
  BY <1>4, <1>5, <1>6, NextCases

\* The provider reports no limit, or one that is not below the one it applies.
ReportsHonest == \A r \in Reports : r = 0 \/ r >= Limit

\* A call of one document.
LEMMA OneElement ==
  ASSUME NEW s \in Seq(Items), Len(s) = 1
  PROVE  DOMAIN s = {1} /\ s[1] \in Items
OBVIOUS

\* The measure of a call of one document is that of the document.
LEMMA SumOfOne ==
  ASSUME NEW f \in [Items -> Nat], NEW s \in Seq(Items), Len(s) = 1
  PROVE  Sum(f, s) = f[s[1]] /\ ToSet(s) = {s[1]} /\ s[1] \in Items
<1> DEFINE n == f[s[1]]
<1>1. DOMAIN s = {1} /\ s[1] \in Items
  BY OneElement
<1>2. n \in Nat
  BY <1>1
<1>3. Sum(f, s) = Cardinality({1} \X (1 .. n))
  <2>1. UNION {{k} \X (1 .. f[s[k]]) : k \in DOMAIN s} = {1} \X (1 .. n)
    BY <1>1
  <2> QED
    BY <2>1 DEF Sum
<1> HIDE DEF n
<1>4. IsFiniteSet(1 .. n) /\ Cardinality(1 .. n) = n
  BY <1>2, FS_Interval
<1>5. IsFiniteSet({1}) /\ Cardinality({1}) = 1
  BY FS_Singleton
<1>6. Cardinality({1} \X (1 .. n)) = 1 * n
  <2>1. Cardinality({1} \X (1 .. n)) = Cardinality({1}) * Cardinality(1 .. n)
    BY <1>4, <1>5, FS_Product
  <2> QED
    BY <1>4, <1>5, <2>1
<1>7. ToSet(s) = {s[1]}
  BY <1>1 DEF ToSet
<1> QED
  BY <1>1, <1>2, <1>3, <1>6, <1>7 DEF n

\* Every step marks as oversize only what has more bytes than the limit.
LEMMA OversizeStep ==
  ASSUME ReportsHonest, TypeOK, InHand, OnlyOversizeIsMarked, [Next]_vars
  PROVE  OnlyOversizeIsMarked'
<1>1. ASSUME UNCHANGED oversize
      PROVE  OnlyOversizeIsMarked'
  BY <1>1 DEF OnlyOversizeIsMarked
<1> USE DEF chanVars, dispVars, workVars, graphVars, envVars
<1>2. CASE UNCHANGED vars
  BY <1>1, <1>2 DEF vars
<1>3. CASE Elsewhere
  BY <1>1, <1>3 DEF Elsewhere, Dispatcher, Push, Prune,
     CollectorsExit, Receive, FlushTimer, Emit, EmitDrops, DrainStarts,
     Drain, StopBegins, CloseWork, DispatchersGone, WorkersGone,
     StopTimesOut, Latch, Resume, CancelStart
<1>4. ASSUME NEW w \in Workers, CallRefused(w)
      PROVE  OnlyOversizeIsMarked'
  <2> DEFINE sub == Head(todo[w])
  <2>1. sub \in Seq(Items)
    BY <1>4 DEF CallRefused, InHand, Hand, TypeOK
  <2>2. PICK limit \in Reports : oversize' = oversize \cup splitMarks(sub, limit)
    BY <1>4 DEF CallRefused
  <2>3. Chars(sub) > Limit
    BY <1>4 DEF CallRefused
  <2> HIDE DEF sub
  <2>4. ASSUME NEW x \in splitMarks(sub, limit)
        PROVE  SizeOf[x] > Limit
    <3>1. CASE Len(sub) = 1
      <4>1. CharsOf \in [Items -> Nat] /\ SizeOf \in [Items -> Nat] /\ Limit \in Nat
        BY AxisAssumption
      <4>2. Chars(sub) = CharsOf[x] /\ x \in Items
        BY <2>1, <2>4, <3>1, <4>1, SumOfOne DEF splitMarks, Chars
      <4>3. CharsOf[x] <= SizeOf[x]
        BY <4>2, AxisAssumption
      <4> QED
        BY <2>3, <4>1, <4>2, <4>3
    <3>2. CASE Len(sub) # 1
      <4>1. limit # 0 /\ SizeOf[x] > limit /\ x \in ToSet(sub)
        BY <2>4, <3>2 DEF splitMarks, knownOversize
      <4>2. x \in Items /\ limit \in Nat /\ limit >= Limit
        BY <2>1, <4>1, Elements, AxisAssumption DEF ReportsHonest
      <4>3. SizeOf[x] \in Nat /\ Limit \in Nat
        BY <4>2, AxisAssumption
      <4> QED
        BY <4>1, <4>2, <4>3
    <3> QED
      BY <3>1, <3>2
  <2> QED
    BY <2>2, <2>4 DEF OnlyOversizeIsMarked
<1>5. ASSUME NEW w \in Workers, Worker(w), ~CallRefused(w)
      PROVE  OnlyOversizeIsMarked'
  BY <1>1, <1>5 DEF Worker, TakeLease, WorkerExits, NextGroup, ReleaseLease,
     NextCall, PassGate, CallOK, CallFails, CallPanics, Recover, Recovered,
     Admit, WriteLands, MarkLands, WriteFails
<1> QED
  BY <1>2, <1>3, <1>4, <1>5, NextCases

-----------------------------------------------------------------------------
(* The theorems. *)

Inv ==
  /\ TypeOK
  /\ Balanced
  /\ InHand
  /\ Seen
  /\ Staged
  /\ Tracking
  /\ InFlightIsOwed
  /\ PaidIsKept

\* The pipeline starts with empty channels and idle workers.
LEMMA InitInv == Init => Inv /\ OnlyOversizeIsMarked
<1> SUFFICES ASSUME Init
             PROVE  Inv /\ OnlyOversizeIsMarked
  OBVIOUS
<1>1. ToSet(<<>>) = {} /\ \A i : At(<<>>, i) = {}
  BY DEF ToSet, At
<1>2. TypeOK
  <2>1. (CHOOSE g \in Graphs : TRUE) \in Graphs
    BY AxisAssumption
  <2>2. group \in [Workers -> Graphs]
    BY <2>1 DEF Init
  <2>3. 0 \in 0 .. Holders /\ 0 \in 0 .. MaxFaults /\ 0 \in 0 .. MaxLatches
    BY AxisAssumption
  <2>4. permits \in [Keys -> 0 .. Holders]
    BY <2>3 DEF Init
  <2>5. /\ pc \in [Workers -> WorkerPC] /\ lease \in [Workers -> Seq(Items)]
        /\ groups \in [Workers -> SUBSET Graphs]
        /\ todo \in [Workers -> Seq(Seq(Items))]
        /\ merged \in [Workers -> SUBSET Items]
        /\ marks \in [Workers -> SUBSET Items]
        /\ fallen \in [Workers -> SUBSET Items]
        /\ back \in [Workers -> {"groups", "stride", "recover"}]
    BY DEF Init, WorkerPC
  <2>6. in \in Seq(Items) /\ batch \in Seq(Items) /\ out \in Seq(Seq(Items))
    BY DEF Init
  <2>7. {inClosed, outClosed, latched, ctxDone} \subseteq BOOLEAN
    BY DEF Init
  <2>8. /\ pushed \cup owed \subseteq Items /\ inFlight \cup pruned \subseteq Nodes
        /\ billed \cup written \cup oversize \subseteq Items
        /\ marked \subseteq Nodes
    BY DEF Init
  <2>9. /\ collecting \in {"run", "cancelled", "gone"}
        /\ disp \in {"recv", "emit", "drain", "done"}
        /\ stop \in {"run", "collectors", "dispatchers", "workers", "ok", "gaveUp"}
        /\ faults \in 0 .. MaxFaults /\ latches \in 0 .. MaxLatches
    BY <2>3 DEF Init
  <2> QED
    BY <2>2, <2>4, <2>5, <2>6, <2>7, <2>8, <2>9 DEF TypeOK
<1>3. Balanced
  <2>1. \A g : Writers(g) = {}
    BY DEF Init, Writers
  <2> QED
    BY <2>1, FS_EmptySet DEF Init, Balanced
<1>4. InHand
  BY <1>1 DEF Init, InHand, Hand
<1>5. Seen
  BY <1>1 DEF Init, Seen
<1>6. Staged
  <2>1. Cardinality(Workers) \in Nat
    BY AxisAssumption, FS_CardinalityType
  <2> QED
    BY <2>1 DEF Init, Staged
<1>7. Tracking
  <2>1. \A w \in Workers : \A i : Has(w, i) = {}
    BY <1>1 DEF Init, Has
  <2> QED
    BY <1>1, <2>1 DEF Init, Tracking, Tracked, Alone, Carried
<1>8. PaidIsKept /\ OnlyOversizeIsMarked /\ InFlightIsOwed
  BY DEF Init, PaidIsKept, OnlyOversizeIsMarked, InFlightIsOwed
<1> QED
  BY <1>2, <1>3, <1>4, <1>5, <1>6, <1>7, <1>8 DEF Inv

\* The inductive invariant: types, permits, what each worker holds, where every
\* item is and how far the shutdown has come, for any number of items, graphs
\* and workers.
THEOREM AxisInvariant == Spec => []Inv
<1>1. Init => Inv
  BY InitInv
<1>2. Inv /\ [Next]_vars => Inv'
  BY TypeStep, BalancedStep, InHandStep, SeenStep, StagedStep, TrackingStep,
     InFlightStep, PaidStep DEF Inv
<1> QED
  BY <1>1, <1>2, PTL DEF Spec

\* Nothing is duplicated or lost between the push and the release (OnePlace).
THEOREM AxisOnePlace == Spec => []OnePlace
<1>1. Inv => OnePlace
  BY OnePlaceTracked DEF Inv
<1> QED
  BY <1>1, AxisInvariant, PTL

\* The collectors' in-flight set and the items that are out agree but for the
\* nodes a scan pruned, for any number of items of a node (InFlightIsOwed).
THEOREM AxisInFlightIsOwed == Spec => []InFlightIsOwed
<1>1. Inv => InFlightIsOwed
  BY DEF Inv
<1> QED
  BY <1>1, AxisInvariant, PTL

\* A result that was paid for is written or about to be (PaidIsKept).
THEOREM AxisPaidIsKept == Spec => []PaidIsKept
<1>1. Inv => PaidIsKept
  BY DEF Inv
<1> QED
  BY <1>1, AxisInvariant, PTL

\* admitWriteback and its closure keep the permits of every lock domain equal to
\* the number of its writers, and the state is well typed (PermitsBalanced).
THEOREM AxisPermitsBalanced == Spec => []PermitsBalanced
<1>1. Inv => PermitsBalanced
  BY DEF Inv, PermitsBalanced, Balanced, Writers
<1> QED
  BY <1>1, AxisInvariant, PTL

\* As long as a refusal reports no limit below the one applied, splitting marks
\* only documents with more bytes than the provider accepts characters
\* (OnlyOversizeIsMarked).
THEOREM AxisOnlyOversizeIsMarked ==
  ReportsHonest => (Spec => []OnlyOversizeIsMarked)
<1> SUFFICES ASSUME ReportsHonest
             PROVE  Spec => []OnlyOversizeIsMarked
  OBVIOUS
<1>1. Init => OnlyOversizeIsMarked
  BY InitInv
<1>2. Inv /\ OnlyOversizeIsMarked /\ [Next]_vars => OnlyOversizeIsMarked'
  BY OversizeStep DEF Inv
<1> QED
  BY <1>1, <1>2, AxisInvariant, PTL DEF Spec

-----------------------------------------------------------------------------
(* The refinement of WorkPool. *)

\* The phase of the abstract pool.
Phase == IF stop = "ok" THEN "closed" ELSE IF inClosed THEN "closing" ELSE "open"

\* A step the pool does not see.
LEMMA PoolStutters ==
  ASSUME UNCHANGED <<owed, pushed, written, marked, stop, inClosed, ctxDone>>
  PROVE  UNCHANGED Pool!vars
BY DEF Pool!vars

\* After a successful Stop only a cancelled context leaves an item in flight.
LEMMA AllReleased ==
  ASSUME Inv, disp = "done", \A w \in Workers : pc[w] = "done"
  PROVE  owed = {} \/ ctxDone
<1> SUFFICES ASSUME ~ctxDone, NEW i \in owed
             PROVE  FALSE
  OBVIOUS
<1>1. in = <<>> /\ batch = <<>>
  BY DEF Inv, Staged
<1>2. \A w \in Workers : lease[w] = <<>>
  BY DEF Inv, InHand, Hand
<1>3. out = <<>>
  <2>1. CASE Workers = {}
    <3>1. Len(out) <= 0
      BY <2>1, FS_EmptySet DEF Inv, Staged
    <3> QED
      BY <3>1 DEF Inv, TypeOK
  <2>2. CASE Workers # {}
    BY <2>2 DEF Inv, Staged
  <2> QED
    BY <2>1, <2>2
<1>4. i \in Items /\ Carried(i)
  BY DEF Inv, TypeOK, Tracking, Tracked
<1>5. \A k : k \notin At(<<>>, i)
  BY DEF At
<1> QED
  BY <1>1, <1>2, <1>3, <1>4, <1>5 DEF Carried, Has

\* Every step of the axis is a step of the pool or none.
LEMMA PoolStep ==
  ASSUME Inv, [Next]_vars
  PROVE  [Pool!Next]_(Pool!vars)
<1> USE DEF chanVars, dispVars, workVars, graphVars, envVars
<1>1. CASE UNCHANGED vars
  BY <1>1, PoolStutters DEF vars
<1>2. CASE Elsewhere
  <2>1. ASSUME NEW e \in Items, Push(e)
        PROVE  Pool!Accept(e)
    <3>1. Phase = "open" /\ Phase' = "open"
      BY <2>1 DEF Push, Inv, Staged, Phase
    <3> QED
      BY <2>1, <3>1 DEF Push, Pool!Accept, Phase
  <2>2. CASE CloseWork
    <3>1. Phase = "open" /\ Phase' = "closing"
      BY <2>2 DEF CloseWork, Inv, Staged, Phase
    <3>2. Pool!Close
      BY <2>2, <3>1 DEF CloseWork, Pool!Close, Phase
    <3> QED
      BY <3>2 DEF Pool!Next
  <2>3. CASE WorkersGone
    <3>1. Phase = "closing" /\ Phase' = "closed"
      BY <2>3 DEF WorkersGone, Inv, Staged, Phase
    <3>2. owed = {} \/ ctxDone
      BY <2>3, AllReleased DEF WorkersGone, Inv, Staged
    <3>3. Pool!Finish
      BY <2>3, <3>1, <3>2 DEF WorkersGone, Pool!Finish, Phase
    <3> QED
      BY <3>3 DEF Pool!Next
  <2>4. CASE CancelStart
    <3>1. Pool!Abandon
      BY <2>4 DEF CancelStart, Pool!Abandon
    <3> QED
      BY <3>1 DEF Pool!Next
  <2>5. CASE StopBegins \/ DispatchersGone \/ StopTimesOut
    <3>1. UNCHANGED <<owed, pushed, written, marked, inClosed, ctxDone>>
          /\ stop # "ok" /\ stop' # "ok"
      BY <2>5 DEF StopBegins, DispatchersGone, StopTimesOut
    <3> QED
      BY <3>1 DEF Pool!vars
  <2>6. CASE CollectorsExit \/ Dispatcher \/ Latch \/ Resume
    BY <2>6, PoolStutters DEF CollectorsExit, Dispatcher, Receive, FlushTimer,
       Emit, EmitDrops, DrainStarts, Drain, Latch, Resume
  <2>7. CASE \E n \in Nodes : Prune(n)
    BY <2>7, PoolStutters DEF Prune
  <2> QED
    BY <1>2, <2>1, <2>2, <2>3, <2>4, <2>5, <2>6, <2>7 DEF Elsewhere, Pool!Next
<1>3. ASSUME NEW w \in Workers, Worker(w)
      PROVE  [Pool!Next]_(Pool!vars)
  <2>1. UNCHANGED <<pushed, stop, inClosed, ctxDone>>
    BY <1>3 DEF Worker, TakeLease, WorkerExits, NextGroup, ReleaseLease,
       NextCall, PassGate, CallOK, CallFails, CallRefused, CallPanics, Recover,
       Recovered, Admit, WriteLands, MarkLands, WriteFails
  <2>2. ASSUME pc[w] # "done"
        PROVE  stop # "ok"
    BY <2>2 DEF Inv, Staged
  <2>3. ASSUME pc[w] # "done", UNCHANGED <<written, marked>>,
               owed' = owed \ ToSet(lease[w])
        PROVE  Pool!GiveBack
    <3>1. ToSet(lease[w]) \in SUBSET owed
      BY CarriedOwed DEF Inv
    <3> QED
      BY <2>1, <2>2, <2>3, <3>1 DEF Pool!GiveBack
  <2>4. CASE ReleaseLease(w)
    <3>1. Pool!GiveBack
      BY <2>3, <2>4 DEF ReleaseLease
    <3> QED
      BY <3>1 DEF Pool!Next
  <2>5. CASE CallPanics(w)
    <3>1. Pool!GiveBack
      BY <2>3, <2>5 DEF CallPanics
    <3> QED
      BY <3>1 DEF Pool!Next
  <2>6. CASE MarkLands(w)
    <3>1. marks[w] \in SUBSET pushed
      BY DEF Inv, Seen
    <3>2. /\ marked' = marked \cup {NodeOf[i] : i \in marks[w]}
          /\ UNCHANGED <<owed, written>> /\ pc[w] # "done"
      BY <2>6 DEF MarkLands, NodesOf
    <3>3. Pool!Mark
      BY <2>1, <2>2, <3>1, <3>2 DEF Pool!Mark
    <3> QED
      BY <3>3 DEF Pool!Next
  <2>7. CASE WriteLands(w)
    <3>1. merged[w] \in SUBSET owed
      BY CarriedOwed DEF Inv, InHand, Hand
    <3>2. /\ marked' = marked \ {NodeOf[i] : i \in merged[w]}
          /\ written' = written \cup merged[w]
          /\ UNCHANGED owed /\ pc[w] # "done"
      BY <2>7 DEF WriteLands, NodesOf
    <3>3. Pool!Write
      BY <2>1, <2>2, <3>1, <3>2 DEF Pool!Write
    <3> QED
      BY <3>3 DEF Pool!Next
  <2>8. CASE \/ TakeLease(w) \/ WorkerExits(w) \/ NextGroup(w) \/ NextCall(w)
             \/ PassGate(w) \/ CallOK(w) \/ CallFails(w) \/ CallRefused(w)
             \/ Recover(w) \/ Recovered(w) \/ Admit(w) \/ WriteFails(w)
    BY <2>1, <2>8, PoolStutters DEF TakeLease, WorkerExits, NextGroup,
       NextCall, PassGate, CallOK, CallFails, CallRefused, Recover, Recovered,
       Admit, WriteFails
  <2> QED
    BY <1>3, <2>4, <2>5, <2>6, <2>7, <2>8 DEF Worker
<1> QED
  BY <1>1, <1>2, <1>3, NextCases

\* The axis implements the abstract pool: a push is accepted only before the
\* close, results are written only for items in flight, and a Stop that returns
\* nil has released everything and is followed by no write (PoolSpec).
THEOREM AxisImplementsPool == Spec => PoolSpec
<1>1. Init => Pool!Init
  BY DEF Init, Pool!Init
<1>2. Inv /\ [Next]_vars => [Pool!Next]_(Pool!vars)
  BY PoolStep
<1> QED
  BY <1>1, <1>2, AxisInvariant, PTL DEF Spec, PoolSpec, Pool!Spec

=============================================================================
