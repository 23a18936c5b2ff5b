------------------------- MODULE SegmentRouteProofs -------------------------
(***************************************************************************)
(* The two-level route answers with the newest holder, and counts what it  *)
(* answers, for every corpus, every limit and any number of concurrent     *)
(* consolidations.  A snapshot is a value and every publish derives one    *)
(* from another, so the argument is about the operators: each of them      *)
(* takes a good snapshot to a good one.                                    *)
(***************************************************************************)
EXTENDS SegmentRoute, SequenceTheorems, FiniteSetTheorems, TLAPS

\* d is held by one of es[lo..hi].
HeldIn(es, lo, hi, d) == \E i \in lo .. hi : d \in Members[es[i]]

\* A snapshot has its types, and its flattened level is a prefix.
Shape(s) ==
  /\ s \in [entries : Seq(Segs), base : [Docs -> Segs \cup {None}], baseN : Nat,
            dropped : SUBSET Segs, stale : [Docs -> Segs \cup {None}],
            distinct : Nat]
  /\ s.baseN <= Len(s.entries)

\* The stale index names a holder, resident in the flattened level.
StaleResident(s) ==
  \A d \in Docs : s.stale[d] # None =>
     /\ \E i \in 1 .. s.baseN : s.entries[i] = s.stale[d]
     /\ d \in Members[s.stale[d]]

\* What the shared base map still says of the flattened level it was built
\* over: it names holders; what it does not know is not there; and where the
\* segment it names is still flattened, it is the newest there.
BaseHolds(s) ==
  \A d \in Docs :
     /\ s.base[d] # None => d \in Members[s.base[d]]
     /\ s.base[d] = None => ~ HeldIn(s.entries, 1, s.baseN, d)
     /\ (\E i \in 1 .. s.baseN : s.entries[i] = s.base[d])
          => NewestHolder(s.entries, 1, s.baseN, d) = s.base[d]

\* Where a removal made the base map's answer void, the tail answers, or the
\* stale index has the newest of the flattened level.
DroppedResolved(s) ==
  \A d \in Docs : s.base[d] \in s.dropped =>
     \/ HeldIn(s.entries, s.baseN + 1, Len(s.entries), d)
     \/ s.stale[d] = NewestHolder(s.entries, 1, s.baseN, d)

Counted(s) == s.distinct = Cardinality(Routed(s))

Levels(s) ==
  /\ Shape(s)
  /\ StaleResident(s)
  /\ BaseHolds(s)
  /\ DroppedResolved(s)

Good(s) == Levels(s) /\ Counted(s)

\* The inductive invariant.
Inv == Good(Current) /\ resolved \in [Swappers -> SUBSET Segs]
-----------------------------------------------------------------------------
(* Positions of a sequence: initial segments, the last of them, and where   *)
(* the elements of a compacted sequence come from.                          *)

\* A set of positions closed downwards is an initial segment.
LEMMA InitialSegment ==
  ASSUME NEW n \in Nat, NEW A \in SUBSET (1 .. n),
         \A k \in A : \A j \in 1 .. k : j \in A
  PROVE  /\ Cardinality(A) \in Nat
         /\ A = 1 .. Cardinality(A)
<1>1. IsFiniteSet(1 .. n)
  BY FS_Interval
<1>2. IsFiniteSet(A) /\ Cardinality(A) \in Nat
  BY <1>1, FS_Subset, FS_CardinalityType
<1>3. ASSUME NEW k \in A
      PROVE  k \in 1 .. Cardinality(A)
  <2>1. k \in Nat /\ k >= 1
    OBVIOUS
  <2>2. 1 .. k \subseteq A
    OBVIOUS
  <2>3. Cardinality(1 .. k) = k
    BY <2>1, FS_Interval
  <2>4. Cardinality(1 .. k) <= Cardinality(A)
    BY <1>2, <2>2, FS_Subset
  <2> QED
    BY <1>2, <2>1, <2>3, <2>4
<1>4. A \subseteq 1 .. Cardinality(A)
  BY <1>3
<1>5. IsFiniteSet(1 .. Cardinality(A))
      /\ Cardinality(1 .. Cardinality(A)) = Cardinality(A)
  BY <1>2, FS_Interval
<1> QED
  BY <1>2, <1>4, <1>5, FS_Subset

\* A set of positions that is not empty has a last one, and Max is it.
LEMMA LastPosition ==
  ASSUME NEW n \in Nat, NEW A \in SUBSET (1 .. n), A # {}
  PROVE  /\ Max(A) \in A
         /\ \A k \in A : k <= Max(A)
<1> DEFINE U == {k \in 1 .. n : \E j \in A : k <= j}
           m == Cardinality(U)
<1>1. U \in SUBSET (1 .. n)
  OBVIOUS
<1>2. \A k \in U : \A j \in 1 .. k : j \in U
  OBVIOUS
<1>3. A \subseteq U
  OBVIOUS
<1> HIDE DEF U
<1>4. m \in Nat /\ U = 1 .. m
  BY <1>1, <1>2, InitialSegment
<1> HIDE DEF m
<1>5. m \in U
  <2>1. PICK a \in A : TRUE
    OBVIOUS
  <2>2. a \in 1 .. m
    BY <1>3, <1>4
  <2> QED
    BY <1>4, <2>2
<1>6. PICK j \in A : m <= j
  BY <1>5 DEF U
<1>7. j <= m
  BY <1>3, <1>4
<1>8. m \in A /\ \A k \in A : m >= k
  BY <1>3, <1>4, <1>6, <1>7
<1>9. \E x \in A : \A y \in A : x >= y
  BY <1>8
<1>10. Max(A) \in A /\ \A y \in A : Max(A) >= y
  BY <1>9, Zenon DEF Max
<1> QED
  BY <1>10

\* What NewestHolder returns: the last holder of the level, if there is one.
LEMMA NewestIs ==
  ASSUME NEW es \in Seq(Segs), NEW lo \in Nat, NEW hi \in Nat, NEW d \in Docs,
         lo >= 1, hi <= Len(es)
  PROVE  /\ ~ HeldIn(es, lo, hi, d) => NewestHolder(es, lo, hi, d) = None
         /\ HeldIn(es, lo, hi, d) =>
              \E m \in lo .. hi :
                 /\ NewestHolder(es, lo, hi, d) = es[m]
                 /\ d \in Members[es[m]]
                 /\ \A k \in lo .. hi : d \in Members[es[k]] => k <= m
<1> DEFINE at == {i \in lo .. hi : d \in Members[es[i]]}
<1>1. NewestHolder(es, lo, hi, d) = IF at = {} THEN None ELSE es[Max(at)]
  BY DEF NewestHolder
<1>2. HeldIn(es, lo, hi, d) <=> at # {}
  BY DEF HeldIn
<1>3. ASSUME at # {}
      PROVE  /\ Max(at) \in lo .. hi
             /\ d \in Members[es[Max(at)]]
             /\ \A k \in lo .. hi : d \in Members[es[k]] => k <= Max(at)
  <2>1. at \in SUBSET (1 .. hi)
    OBVIOUS
  <2>2. Max(at) \in at /\ \A k \in at : k <= Max(at)
    BY <1>3, <2>1, LastPosition
  <2> QED
    BY <2>2
<1> HIDE DEF at
<1> QED
  BY <1>1, <1>2, <1>3

\* The last holder, once known.
LEMMA NewestAt ==
  ASSUME NEW es \in Seq(Segs), NEW lo \in Nat, NEW hi \in Nat, NEW d \in Docs,
         lo >= 1, hi <= Len(es),
         NEW m \in lo .. hi, d \in Members[es[m]],
         \A k \in lo .. hi : d \in Members[es[k]] => k <= m
  PROVE  NewestHolder(es, lo, hi, d) = es[m]
<1>1. HeldIn(es, lo, hi, d)
  BY DEF HeldIn
<1>2. PICK j \in lo .. hi :
        /\ NewestHolder(es, lo, hi, d) = es[j]
        /\ d \in Members[es[j]]
        /\ \A k \in lo .. hi : d \in Members[es[k]] => k <= j
  BY <1>1, NewestIs
<1>3. j = m
  BY <1>2
<1> QED
  BY <1>2, <1>3

\* It is a segment or None, and None only where nothing holds d.
LEMMA NewestType ==
  ASSUME NEW es \in Seq(Segs), NEW lo \in Nat, NEW hi \in Nat, NEW d \in Docs,
         lo >= 1, hi <= Len(es)
  PROVE  /\ NewestHolder(es, lo, hi, d) \in Segs \cup {None}
         /\ NewestHolder(es, lo, hi, d) # None <=> HeldIn(es, lo, hi, d)
         /\ NewestHolder(es, lo, hi, d) # None =>
               /\ \E i \in lo .. hi : es[i] = NewestHolder(es, lo, hi, d)
               /\ d \in Members[NewestHolder(es, lo, hi, d)]
<1>1. \A i \in lo .. hi : es[i] \in Segs
  OBVIOUS
<1>2. None \notin Segs
  BY RouteAssumption
<1> QED
  BY <1>1, <1>2, NewestIs

\* Compaction: every element kept comes from a place, in the same order, and
\* the flattened level of the result is what stays of the flattened level.
Moved(es, kept, n, m, remove, f) ==
  /\ f \in [1 .. Len(kept) -> 1 .. Len(es)]
  /\ \A k \in 1 .. Len(kept) : kept[k] = es[f[k]] /\ es[f[k]] \notin remove
  /\ \A j, k \in 1 .. Len(kept) : j < k => f[j] < f[k]
  /\ \A i \in 1 .. Len(es) :
        es[i] \notin remove => \E k \in 1 .. Len(kept) : f[k] = i
  /\ \A k \in 1 .. Len(kept) : k <= m <=> f[k] <= n

LEMMA KeptMoved ==
  ASSUME NEW es \in Seq(Segs), NEW remove, NEW kept \in Kept(es, remove),
         NEW n \in 0 .. Len(es)
  PROVE  LET m == Cardinality({i \in 1 .. n : es[i] \notin remove})
         IN  /\ kept \in Seq(Segs)
             /\ m \in Nat
             /\ m <= Len(kept)
             /\ \E f : Moved(es, kept, n, m, remove, f)
<1> DEFINE D == {i \in DOMAIN es : es[i] \notin remove}
           c == Cardinality(D)
           B == {i \in 1 .. n : es[i] \notin remove}
           m == Cardinality(B)
<1>1. DOMAIN es = 1 .. Len(es) /\ Len(es) \in Nat /\ n \in Nat /\ n <= Len(es)
  OBVIOUS
<1>2. IsFiniteSet(D) /\ c \in Nat
  <2>1. IsFiniteSet(1 .. Len(es))
    BY <1>1, FS_Interval
  <2>2. D \subseteq 1 .. Len(es)
    BY <1>1
  <2> QED
    BY <2>1, <2>2, FS_Subset, FS_CardinalityType
<1>3. D \subseteq 1 .. Len(es) /\ (\A i \in 1 .. Len(es) : i \in D <=> es[i] \notin remove)
  BY <1>1
<1>4. B = {i \in D : i <= n}
  BY <1>1
<1>5. kept \in Picked(es, D)
  BY DEF Kept
<1> HIDE DEF D, B
<1>6. PICK f \in [1 .. c -> D] :
         /\ \A a, b \in 1 .. c : a < b => f[a] < f[b]
         /\ kept = [k \in 1 .. c |-> es[f[k]]]
  BY <1>5 DEF Picked
<1> HIDE DEF c
<1>7. \A k \in 1 .. c : f[k] \in D /\ f[k] \in 1 .. Len(es) /\ es[f[k]] \in Segs
  <2>1. \A i \in 1 .. Len(es) : es[i] \in Segs
    OBVIOUS
  <2>2. \A k \in 1 .. c : f[k] \in D
    BY <1>6
  <2> QED
    BY <1>3, <2>1, <2>2
<1>8. kept \in Seq(Segs) /\ Len(kept) = c
  <2>1. kept \in [1 .. c -> Segs]
    BY <1>6, <1>7
  <2> QED
    BY <1>2, <2>1
<1>9. \A i \in D : \E k \in 1 .. c : f[k] = i
  <2>1. \A a, b \in 1 .. c : f[a] = f[b] => a = b
    BY <1>2, <1>3, <1>6, <1>7
  <2>2. f \in Injection(1 .. c, D)
    BY <1>6, <2>1 DEF Injection, IsInjective
  <2>3. Cardinality(1 .. c) = c
    BY <1>2, FS_Interval
  <2>4. f \in Surjection(1 .. c, D)
    BY <1>2, <2>2, <2>3, FS_Injection DEF c
  <2> QED
    BY <2>4 DEF Surjection
<1> DEFINE A == {k \in 1 .. c : f[k] <= n}
<1>10. A \in SUBSET (1 .. c) /\ \A k \in A : \A j \in 1 .. k : j \in A
  <2>1. A \in SUBSET (1 .. c)
    OBVIOUS
  <2> SUFFICES ASSUME NEW k \in A, NEW j \in 1 .. k
               PROVE  j \in A
    BY <2>1
  <2>2. k \in 1 .. c /\ f[k] <= n /\ j \in 1 .. c
    BY <1>2
  <2>3. j = k \/ f[j] < f[k]
    BY <1>2, <1>6, <2>2
  <2>4. f[j] \in Nat /\ f[k] \in Nat
    BY <1>1, <1>7, <2>2
  <2> QED
    BY <1>1, <2>2, <2>3, <2>4
<1>11. Cardinality(A) \in Nat /\ A = 1 .. Cardinality(A)
  <2> HIDE DEF A
  <2> QED
    BY <1>2, <1>10, InitialSegment
<1>12. Cardinality(A) = m
  <2> DEFINE g == [k \in A |-> f[k]]
  <2>1. g \in [A -> B]
    BY <1>4, <1>7
  <2>2. \A a, b \in A : g[a] = g[b] => a = b
    BY <1>2, <1>6, <1>7
  <2>3. \A i \in B : \E k \in A : g[k] = i
    BY <1>4, <1>9
  <2>4. g \in Bijection(A, B)
    <3> HIDE DEF g
    <3> QED
      BY <2>1, <2>2, <2>3 DEF Bijection, Injection, IsInjective, Surjection
  <2>5. IsFiniteSet(A)
    <3>1. IsFiniteSet(1 .. c)
      BY <1>2, FS_Interval
    <3> QED
      BY <1>10, <3>1, FS_Subset
  <2>6. ExistsBijection(A, B)
    <3> HIDE DEF g
    <3> QED
      BY <2>4 DEF ExistsBijection
  <2> QED
    BY <2>5, <2>6, FS_Bijection
<1>13. A = 1 .. m /\ m \in Nat
  BY <1>11, <1>12
<1> HIDE DEF m
<1>14. \A k \in 1 .. c : k <= m <=> f[k] <= n
  BY <1>2, <1>13
<1> HIDE DEF A
<1>15. m <= c
  <2>1. m = 0 \/ m \in 1 .. m
    BY <1>13
  <2>2. m = 0 \/ m \in 1 .. c
    BY <1>10, <1>13, <2>1
  <2> QED
    BY <1>2, <1>13, <2>2
<1>16. Moved(es, kept, n, m, remove, f)
  <2>1. f \in [1 .. Len(kept) -> 1 .. Len(es)]
    BY <1>3, <1>6, <1>8
  <2>2. \A k \in 1 .. Len(kept) : kept[k] = es[f[k]] /\ es[f[k]] \notin remove
    BY <1>3, <1>6, <1>7, <1>8
  <2>3. \A i \in 1 .. Len(es) :
          es[i] \notin remove => \E k \in 1 .. Len(kept) : f[k] = i
    BY <1>3, <1>8, <1>9
  <2> QED
    BY <1>6, <1>8, <1>14, <2>1, <2>2, <2>3 DEF Moved
<1>17. m = Cardinality({i \in 1 .. n : es[i] \notin remove})
  BY DEF m, B
<1> QED
  BY <1>8, <1>13, <1>15, <1>16, <1>17

\* Levels that agree have the same holders.
LEMMA SameHeld ==
  ASSUME NEW es, NEW fs, NEW lo, NEW hi, NEW d,
         \A i \in lo .. hi : es[i] = fs[i]
  PROVE  HeldIn(es, lo, hi, d) <=> HeldIn(fs, lo, hi, d)
  BY DEF HeldIn

LEMMA SameNewest ==
  ASSUME NEW es \in Seq(Segs), NEW fs \in Seq(Segs), NEW lo \in Nat,
         NEW hi \in Nat, NEW d \in Docs, lo >= 1, hi <= Len(es), hi <= Len(fs),
         \A i \in lo .. hi : es[i] = fs[i]
  PROVE  NewestHolder(es, lo, hi, d) = NewestHolder(fs, lo, hi, d)
<1>1. HeldIn(es, lo, hi, d) <=> HeldIn(fs, lo, hi, d)
  BY SameHeld
<1>2. CASE ~ HeldIn(es, lo, hi, d)
  BY <1>1, <1>2, NewestIs
<1>3. CASE HeldIn(es, lo, hi, d)
  <2>1. PICK m \in lo .. hi :
          /\ NewestHolder(es, lo, hi, d) = es[m]
          /\ d \in Members[es[m]]
          /\ \A k \in lo .. hi : d \in Members[es[k]] => k <= m
    BY <1>3, NewestIs
  <2>2. /\ d \in Members[fs[m]]
        /\ \A k \in lo .. hi : d \in Members[fs[k]] => k <= m
    BY <2>1
  <2>3. NewestHolder(fs, lo, hi, d) = fs[m]
    BY <2>2, NewestAt
  <2> QED
    BY <2>1, <2>3
<1> QED
  BY <1>2, <1>3

\* Compaction leaves the newest holder of the flattened level the newest,
\* unless it is removed itself.
LEMMA NewestMoved ==
  ASSUME NEW es \in Seq(Segs), NEW kept \in Seq(Segs), NEW remove,
         NEW n \in 0 .. Len(es), NEW m \in 0 .. Len(kept),
         NEW f, Moved(es, kept, n, m, remove, f),
         NEW d \in Docs, NewestHolder(es, 1, n, d) \notin remove
  PROVE  NewestHolder(kept, 1, m, d) = NewestHolder(es, 1, n, d)
<1>1. /\ n \in Nat /\ n <= Len(es) /\ Len(es) \in Nat
      /\ m \in Nat /\ m <= Len(kept) /\ Len(kept) \in Nat
  OBVIOUS
<1>2. \A k \in 1 .. m : f[k] \in 1 .. n /\ kept[k] = es[f[k]]
  BY <1>1 DEF Moved
<1>3. CASE ~ HeldIn(es, 1, n, d)
  <2>1. ~ HeldIn(kept, 1, m, d)
    BY <1>2, <1>3 DEF HeldIn
  <2> QED
    BY <1>1, <1>3, <2>1, NewestIs
<1>4. CASE HeldIn(es, 1, n, d)
  <2>1. PICK j \in 1 .. n :
          /\ NewestHolder(es, 1, n, d) = es[j]
          /\ d \in Members[es[j]]
          /\ \A k \in 1 .. n : d \in Members[es[k]] => k <= j
    BY <1>1, <1>4, NewestIs
  <2>2. PICK i \in 1 .. Len(kept) : f[i] = j
    BY <1>1, <2>1 DEF Moved
  <2>3. i \in 1 .. m /\ kept[i] = es[j]
    BY <1>1, <2>2 DEF Moved
  <2>4. ASSUME NEW k \in 1 .. m, d \in Members[kept[k]]
        PROVE  k <= i
    <3>1. f[k] \in 1 .. n /\ f[k] <= j
      BY <1>2, <2>1, <2>4
    <3>2. i < k => f[i] < f[k]
      BY <1>1, <2>2 DEF Moved
    <3> QED
      BY <1>1, <2>2, <3>1, <3>2
  <2>5. NewestHolder(kept, 1, m, d) = kept[i]
    BY <1>1, <2>1, <2>3, <2>4, NewestAt
  <2> QED
    BY <2>1, <2>3, <2>5
<1> QED
  BY <1>3, <1>4

\* A document no removed entry holds keeps its holders, level by level.
LEMMA HoldersMoved ==
  ASSUME NEW es \in Seq(Segs), NEW kept \in Seq(Segs), NEW remove,
         NEW n \in 0 .. Len(es), NEW m \in 0 .. Len(kept),
         NEW f, Moved(es, kept, n, m, remove, f), NEW d,
         \A i \in 1 .. Len(es) : d \in Members[es[i]] => es[i] \notin remove
  PROVE  /\ HeldIn(kept, 1, m, d) <=> HeldIn(es, 1, n, d)
         /\ HeldIn(kept, m + 1, Len(kept), d) <=> HeldIn(es, n + 1, Len(es), d)
<1>1. /\ n \in Nat /\ n <= Len(es) /\ Len(es) \in Nat
      /\ m \in Nat /\ m <= Len(kept) /\ Len(kept) \in Nat
  OBVIOUS
<1>2. \A k \in 1 .. Len(kept) :
        f[k] \in 1 .. Len(es) /\ kept[k] = es[f[k]] /\ (k <= m <=> f[k] <= n)
  BY DEF Moved
<1>3. \A i \in 1 .. Len(es) : d \in Members[es[i]] =>
         \E k \in 1 .. Len(kept) : f[k] = i
  BY DEF Moved
<1>4. HeldIn(kept, 1, m, d) => HeldIn(es, 1, n, d)
  <2> SUFFICES ASSUME NEW k \in 1 .. m, d \in Members[kept[k]]
               PROVE  HeldIn(es, 1, n, d)
    BY DEF HeldIn
  <2>1. k \in 1 .. Len(kept) /\ k <= m
    BY <1>1
  <2>2. f[k] \in 1 .. n /\ d \in Members[es[f[k]]]
    BY <1>1, <1>2, <2>1
  <2> QED
    BY <2>2 DEF HeldIn
<1>5. HeldIn(kept, m + 1, Len(kept), d) => HeldIn(es, n + 1, Len(es), d)
  <2> SUFFICES ASSUME NEW k \in m + 1 .. Len(kept), d \in Members[kept[k]]
               PROVE  HeldIn(es, n + 1, Len(es), d)
    BY DEF HeldIn
  <2>1. k \in 1 .. Len(kept) /\ ~ (k <= m)
    BY <1>1
  <2>2. f[k] \in n + 1 .. Len(es) /\ d \in Members[es[f[k]]]
    BY <1>1, <1>2, <2>1
  <2> QED
    BY <2>2 DEF HeldIn
<1>6. HeldIn(es, 1, n, d) => HeldIn(kept, 1, m, d)
  <2> SUFFICES ASSUME NEW i \in 1 .. n, d \in Members[es[i]]
               PROVE  HeldIn(kept, 1, m, d)
    BY DEF HeldIn
  <2>1. PICK k \in 1 .. Len(kept) : f[k] = i
    BY <1>1, <1>3
  <2>2. k \in 1 .. m /\ d \in Members[kept[k]]
    BY <1>1, <1>2, <2>1
  <2> QED
    BY <2>2 DEF HeldIn
<1>7. HeldIn(es, n + 1, Len(es), d) => HeldIn(kept, m + 1, Len(kept), d)
  <2> SUFFICES ASSUME NEW i \in n + 1 .. Len(es), d \in Members[es[i]]
               PROVE  HeldIn(kept, m + 1, Len(kept), d)
    BY DEF HeldIn
  <2>1. PICK k \in 1 .. Len(kept) : f[k] = i
    BY <1>1, <1>3
  <2>2. k \in m + 1 .. Len(kept) /\ d \in Members[kept[k]]
    BY <1>1, <1>2, <2>1
  <2> QED
    BY <2>2 DEF HeldIn
<1> QED
  BY <1>4, <1>5, <1>6, <1>7

-----------------------------------------------------------------------------
(* What a good snapshot answers.                                            *)

\* The fields of a snapshot.
LEMMA ShapeFields ==
  ASSUME NEW s, Shape(s)
  PROVE  /\ s.entries \in Seq(Segs) /\ Len(s.entries) \in Nat
         /\ s.base \in [Docs -> Segs \cup {None}]
         /\ s.baseN \in Nat /\ s.baseN <= Len(s.entries)
         /\ s.dropped \subseteq Segs
         /\ s.stale \in [Docs -> Segs \cup {None}]
         /\ s.distinct \in Nat
  BY DEF Shape

LEMMA SnapshotShape ==
  ASSUME NEW es \in Seq(Segs), NEW b \in [Docs -> Segs \cup {None}],
         NEW n \in Nat, n <= Len(es), NEW dr \in SUBSET Segs,
         NEW st \in [Docs -> Segs \cup {None}], NEW di \in Nat
  PROVE  Shape(Snapshot(es, b, n, dr, st, di))
  BY DEF Shape, Snapshot

\* When a lookup answers: from the tail, from the stale index where the base
\* record is dropped, from the base map elsewhere.
LEMMA RoutedIff ==
  ASSUME NEW s, Shape(s), NEW d \in Docs
  PROVE  d \in Routed(s) <=>
           \/ HeldIn(s.entries, s.baseN + 1, Len(s.entries), d)
           \/ s.base[d] \in s.dropped /\ s.stale[d] # None
           \/ s.base[d] \notin s.dropped /\ s.base[d] # None
<1>1. tailHolderOf(s, d) # None
        <=> HeldIn(s.entries, s.baseN + 1, Len(s.entries), d)
  BY ShapeFields, NewestType DEF tailHolderOf
<1> QED
  BY <1>1 DEF Routed, routeOf

\* No hole: what a resident segment holds is routed.
LEMMA HeldIsRouted ==
  ASSUME NEW s, Levels(s), NEW d \in Docs, NEW i \in 1 .. Len(s.entries),
         d \in Members[s.entries[i]]
  PROVE  d \in Routed(s)
<1>1. Shape(s)
  BY DEF Levels
<1>2. CASE i > s.baseN
  <2>1. HeldIn(s.entries, s.baseN + 1, Len(s.entries), d)
    BY <1>1, <1>2, ShapeFields DEF HeldIn
  <2> QED
    BY <1>1, <2>1, RoutedIff
<1>3. CASE i <= s.baseN
  <2>1. HeldIn(s.entries, 1, s.baseN, d)
    BY <1>1, <1>3, ShapeFields DEF HeldIn
  <2>2. NewestHolder(s.entries, 1, s.baseN, d) # None
    BY <1>1, <2>1, ShapeFields, NewestType
  <2>3. s.base[d] # None
    BY <2>1 DEF Levels, BaseHolds
  <2>4. s.base[d] \in s.dropped =>
           \/ HeldIn(s.entries, s.baseN + 1, Len(s.entries), d)
           \/ s.stale[d] # None
    BY <2>2 DEF Levels, DroppedResolved
  <2> QED
    BY <1>1, <2>3, <2>4, RoutedIff
<1> QED
  BY <1>1, <1>2, <1>3, ShapeFields

\* Counting documents.
LEMMA RoutedFinite ==
  ASSUME NEW s
  PROVE  IsFiniteSet(Routed(s)) /\ Cardinality(Routed(s)) \in Nat
  BY RouteAssumption, FS_Subset, FS_CardinalityType DEF Routed

\* The newest holder of all entries up to one, when its place is known.
LEMMA NewestFirst ==
  ASSUME NEW es \in Seq(Segs), NEW hi \in Nat, NEW d \in Docs, hi <= Len(es),
         NEW m, m \in 1 .. hi /\ \A k \in 1 .. hi : d \in Members[es[k]] => k <= m,
         d \in Members[es[m]]
  PROVE  NewestHolder(es, 1, hi, d) = es[m]
<1>1. ASSUME NEW lo \in Nat, lo = 1
      PROVE  NewestHolder(es, lo, hi, d) = es[m]
  <2>1. /\ lo >= 1 /\ m \in lo .. hi
        /\ \A k \in lo .. hi : d \in Members[es[k]] => k <= m
    BY <1>1
  <2> QED
    BY <2>1, NewestAt
<1> QED
  BY <1>1

\* A lookup of a good snapshot names the newest holder, or a segment that is
\* not resident.
LEMMA NewestAnswer ==
  ASSUME NEW s, Levels(s), NEW d \in Docs,
         routeOf(s, d) \in {s.entries[i] : i \in DOMAIN s.entries} \cup {None}
  PROVE  routeOf(s, d) = NewestHolder(s.entries, 1, Len(s.entries), d)
<1> DEFINE es == s.entries
           n == s.baseN
           N == Len(s.entries)
<1>1. /\ Shape(s) /\ es \in Seq(Segs) /\ n \in Nat /\ N \in Nat /\ n <= N
      /\ DOMAIN es = 1 .. N /\ None \notin Segs /\ N <= Len(es) /\ n <= Len(es)
      /\ n + 1 \in Nat /\ n + 1 >= 1
  BY ShapeFields, RouteAssumption DEF Levels
<1> HIDE DEF n, N
<1>2. CASE HeldIn(es, n + 1, N, d)
  <2>1. PICK m \in n + 1 .. N :
          /\ NewestHolder(es, n + 1, N, d) = es[m]
          /\ d \in Members[es[m]]
          /\ \A k \in n + 1 .. N : d \in Members[es[k]] => k <= m
    BY <1>1, <1>2, NewestIs
  <2>2. m \in 1 .. N /\ \A k \in 1 .. N : d \in Members[es[k]] => k <= m
    BY <1>1, <2>1
  <2>3. NewestHolder(es, 1, N, d) = es[m]
    <3>1. d \in Members[es[m]]
      BY <2>1
    <3>2. es \in Seq(Segs) /\ N \in Nat /\ N <= Len(es)
      BY <1>1
    <3> QED
      BY <2>2, <3>1, <3>2, NewestFirst, Zenon
  <2>4. routeOf(s, d) = NewestHolder(es, n + 1, N, d)
    <3>1. es[m] # None
      BY <1>1, <2>1
    <3> QED
      BY <2>1, <3>1 DEF routeOf, tailHolderOf, n, N
  <2> QED
    BY <2>1, <2>3, <2>4 DEF N
<1>3. CASE ~ HeldIn(es, n + 1, N, d)
  <2>1. tailHolderOf(s, d) = None
    BY <1>1, <1>3, NewestIs DEF tailHolderOf, n, N
  <2>2. NewestHolder(es, 1, N, d) = NewestHolder(es, 1, n, d)
    <3>1. CASE ~ HeldIn(es, 1, n, d)
      <4>1. ~ HeldIn(es, 1, N, d)
        BY <1>1, <1>3, <3>1 DEF HeldIn
      <4> QED
        BY <1>1, <3>1, <4>1, NewestIs DEF N
    <3>2. CASE HeldIn(es, 1, n, d)
      <4>1. PICK m \in 1 .. n :
              /\ NewestHolder(es, 1, n, d) = es[m]
              /\ d \in Members[es[m]]
              /\ \A k \in 1 .. n : d \in Members[es[k]] => k <= m
        <5>1. 1 \in Nat /\ 1 >= 1
          OBVIOUS
        <5> QED
          BY <1>1, <3>2, <5>1, NewestIs
      <4>2. m \in 1 .. N /\ \A k \in 1 .. N : d \in Members[es[k]] => k <= m
        BY <1>1, <1>3, <4>1 DEF HeldIn
      <4>3. es \in Seq(Segs) /\ N \in Nat /\ N <= Len(es) /\ d \in Members[es[m]]
        BY <1>1, <4>1
      <4>4. NewestHolder(es, 1, N, d) = es[m]
        BY <4>2, <4>3, NewestFirst, Zenon
      <4> QED
        BY <4>1, <4>4
    <3> QED
      BY <3>1, <3>2
  <2>3. CASE s.base[d] \in s.dropped
    <3>1. routeOf(s, d) = s.stale[d]
      BY <2>1, <2>3 DEF routeOf
    <3>2. s.stale[d] = NewestHolder(es, 1, n, d)
      BY <1>3, <2>3 DEF Levels, DroppedResolved, n, N
    <3> QED
      BY <2>2, <3>1, <3>2 DEF N
  <2>4. CASE s.base[d] \notin s.dropped
    <3>1. routeOf(s, d) = s.base[d]
      BY <2>1, <2>4 DEF routeOf
    <3>2. CASE s.base[d] = None
      <4>1. NewestHolder(es, 1, n, d) = None
        BY <1>1, <3>2, NewestIs DEF Levels, BaseHolds, n, N
      <4> QED
        BY <2>2, <3>1, <3>2, <4>1 DEF N
    <3>3. CASE s.base[d] # None
      <4>1. d \in Members[s.base[d]]
        BY <3>3 DEF Levels, BaseHolds
      <4>2. PICK i \in 1 .. N : es[i] = s.base[d]
        BY <1>1, <3>1, <3>3
      <4>3. i \in 1 .. n
        BY <1>1, <1>3, <4>1, <4>2 DEF HeldIn
      <4>4. NewestHolder(es, 1, n, d) = s.base[d]
        BY <4>2, <4>3 DEF Levels, BaseHolds, n
      <4> QED
        BY <2>2, <3>1, <4>4 DEF N
    <3> QED
      BY <3>2, <3>3
  <2> QED
    BY <2>3, <2>4
<1> QED
  BY <1>2, <1>3

\* Two sets without a common element.
LEMMA SumDisjoint ==
  ASSUME NEW S, NEW T, IsFiniteSet(S), IsFiniteSet(T \ S)
  PROVE  Cardinality(S \cup (T \ S)) = Cardinality(S) + Cardinality(T \ S)
<1>1. S \cap (T \ S) = {}
  OBVIOUS
<1>2. Cardinality(S \cup (T \ S))
        = Cardinality(S) + Cardinality(T \ S) - Cardinality(S \cap (T \ S))
  BY FS_Union
<1>3. Cardinality(S) \in Nat /\ Cardinality(T \ S) \in Nat
  BY FS_CardinalityType
<1>4. Cardinality(S \cap (T \ S)) = 0
  BY <1>1, FS_EmptySet, Zenon
<1> DEFINE a == Cardinality(S)
           b == Cardinality(T \ S)
           c == Cardinality(S \cap (T \ S))
           u == Cardinality(S \cup (T \ S))
<1>5. a \in Nat /\ b \in Nat /\ c = 0 /\ u = a + b - c
  BY <1>2, <1>3, <1>4, Zenon
<1> HIDE DEF a, b, c, u
<1>6. u = a + b
  BY <1>5
<1> QED
  BY <1>6 DEF a, b, u

-----------------------------------------------------------------------------
(* Every operator that derives a snapshot derives a good one.               *)

\* A snapshot built flat.
LEMMA FlatGood ==
  ASSUME NEW es \in Seq(Segs)
  PROVE  Good(newSegmentSet(es))
<1> DEFINE s == newSegmentSet(es)
           none == [d \in Docs |-> None]
           N == Len(es)
<1>1. N \in Nat /\ N <= Len(es)
  OBVIOUS
<1>2. \A d \in Docs : flatRoute(es)[d] = NewestHolder(es, 1, N, d)
  BY DEF flatRoute
<1>3. flatRoute(es) \in [Docs -> Segs \cup {None}]
  <2>1. \A d \in Docs : NewestHolder(es, 1, N, d) \in Segs \cup {None}
    BY <1>1, NewestType
  <2> QED
    BY <2>1 DEF flatRoute
<1>4. Distinct(flatRoute(es)) \in Nat
  BY RouteAssumption, FS_Subset, FS_CardinalityType DEF Distinct
<1>5. /\ s.entries = es /\ s.base = flatRoute(es) /\ s.baseN = N
      /\ s.dropped = {} /\ s.stale = none /\ s.distinct = Distinct(flatRoute(es))
  BY DEF newSegmentSet, Snapshot
<1>6. Shape(s)
  <2>1. none \in [Docs -> Segs \cup {None}]
    OBVIOUS
  <2>2. Shape(Snapshot(es, flatRoute(es), N, {}, none, Distinct(flatRoute(es))))
    BY <1>1, <1>3, <1>4, <2>1, SnapshotShape
  <2> QED
    BY <2>2 DEF newSegmentSet
<1> HIDE DEF s
<1>7. StaleResident(s)
  BY <1>5 DEF StaleResident
<1>8. BaseHolds(s)
  <2> SUFFICES ASSUME NEW d \in Docs
               PROVE  /\ s.base[d] # None => d \in Members[s.base[d]]
                      /\ s.base[d] = None => ~ HeldIn(es, 1, N, d)
                      /\ NewestHolder(es, 1, N, d) = s.base[d]
    BY <1>5 DEF BaseHolds
  <2>1. s.base[d] = NewestHolder(es, 1, N, d)
    BY <1>2, <1>5
  <2> QED
    BY <1>1, <2>1, NewestType
<1>9. DroppedResolved(s)
  BY <1>5 DEF DroppedResolved
<1>10. Counted(s)
  <2>1. ASSUME NEW d \in Docs
        PROVE  d \in Routed(s) <=> flatRoute(es)[d] # None
    <3>1. ~ HeldIn(s.entries, s.baseN + 1, Len(s.entries), d)
      BY <1>1, <1>5 DEF HeldIn
    <3> QED
      BY <1>5, <1>6, <3>1, RoutedIff
  <2>2. Routed(s) = {d \in Docs : flatRoute(es)[d] # None}
    BY <2>1 DEF Routed
  <2> QED
    BY <1>5, <2>2 DEF Counted, Distinct
<1> QED
  BY <1>6, <1>7, <1>8, <1>9, <1>10 DEF Good, Levels, s

\* A segment appended to a sequence is in the tail and nowhere else.
LEMMA AppendedLevels ==
  ASSUME NEW es \in Seq(Segs), NEW e \in Segs, NEW n \in Nat, n <= Len(es),
         NEW d \in Docs
  PROVE  LET fs == Append(es, e)
         IN  /\ HeldIn(fs, 1, n, d) <=> HeldIn(es, 1, n, d)
             /\ NewestHolder(fs, 1, n, d) = NewestHolder(es, 1, n, d)
             /\ HeldIn(fs, n + 1, Len(fs), d)
                  <=> HeldIn(es, n + 1, Len(es), d) \/ d \in Members[e]
<1> DEFINE fs == Append(es, e)
<1>1. fs \in Seq(Segs) /\ Len(fs) = Len(es) + 1 /\ fs[Len(es) + 1] = e
      /\ Len(es) \in Nat /\ \A i \in 1 .. Len(es) : fs[i] = es[i]
  OBVIOUS
<1> HIDE DEF fs
<1>2. \A i \in 1 .. n : fs[i] = es[i]
  BY <1>1
<1>3. HeldIn(fs, 1, n, d) <=> HeldIn(es, 1, n, d)
  BY <1>2, SameHeld
<1>4. NewestHolder(fs, 1, n, d) = NewestHolder(es, 1, n, d)
  <2>1. 1 \in Nat /\ 1 >= 1 /\ n <= Len(fs)
    BY <1>1
  <2> QED
    BY <1>1, <1>2, <2>1, SameNewest
<1>5. HeldIn(fs, n + 1, Len(fs), d)
        => HeldIn(es, n + 1, Len(es), d) \/ d \in Members[e]
  BY <1>1 DEF HeldIn
<1>6. HeldIn(es, n + 1, Len(es), d) => HeldIn(fs, n + 1, Len(fs), d)
  BY <1>1 DEF HeldIn
<1>7. d \in Members[e] => HeldIn(fs, n + 1, Len(fs), d)
  BY <1>1 DEF HeldIn
<1> QED
  BY <1>3, <1>4, <1>5, <1>6, <1>7 DEF fs

\* One more segment in the tail.
LEMMA AppendGood ==
  ASSUME NEW s, Good(s), NEW e \in Segs
  PROVE  Good(withAppended(s, e))
<1> DEFINE es == s.entries
           fs == Append(s.entries, e)
           n == s.baseN
           di == s.distinct + Cardinality(Members[e] \ Routed(s))
           t == Snapshot(fs, s.base, n, s.dropped, s.stale, di)
<1>1. /\ Shape(s) /\ Levels(s)
      /\ StaleResident(s) /\ BaseHolds(s) /\ DroppedResolved(s) /\ Counted(s)
  BY DEF Good, Levels
<1>2. /\ es \in Seq(Segs) /\ n \in Nat /\ Len(es) \in Nat /\ n <= Len(es)
      /\ s.distinct \in Nat
  BY <1>1, ShapeFields
<1>3. fs \in Seq(Segs) /\ Len(fs) = Len(es) + 1 /\ fs[Len(es) + 1] = e
      /\ \A i \in 1 .. Len(es) : fs[i] = es[i]
  BY <1>2
<1>4. withAppended(s, e) = newSegmentSet(fs) \/ withAppended(s, e) = t
  BY DEF withAppended
<1>5. SUFFICES Good(t)
  BY <1>3, <1>4, FlatGood
<1>6. IsFiniteSet(Members[e]) /\ Members[e] \subseteq Docs
  BY RouteAssumption, FS_Subset
<1>7. IsFiniteSet(Members[e] \ Routed(s)) /\ Cardinality(Members[e] \ Routed(s)) \in Nat
  BY <1>6, FS_Subset, FS_CardinalityType
<1>8. di \in Nat
  BY <1>2, <1>7
<1>9. Shape(t)
  <2>1. /\ s.base \in [Docs -> Segs \cup {None}]
        /\ s.stale \in [Docs -> Segs \cup {None}]
        /\ s.dropped \in SUBSET Segs
    BY <1>1, ShapeFields
  <2>2. n <= Len(fs)
    BY <1>2, <1>3
  <2> HIDE DEF n, fs, di
  <2> QED
    BY <1>2, <1>3, <1>8, <2>1, <2>2, SnapshotShape
<1>10. /\ t.entries = fs /\ t.base = s.base /\ t.baseN = n
       /\ t.dropped = s.dropped /\ t.stale = s.stale /\ t.distinct = di
  BY DEF Snapshot
<1> HIDE DEF t, fs, di, n
<1>11. ASSUME NEW d \in Docs
       PROVE  /\ HeldIn(fs, 1, n, d) <=> HeldIn(es, 1, n, d)
              /\ NewestHolder(fs, 1, n, d) = NewestHolder(es, 1, n, d)
              /\ HeldIn(fs, n + 1, Len(fs), d)
                   <=> HeldIn(es, n + 1, Len(es), d) \/ d \in Members[e]
  BY <1>2, AppendedLevels DEF fs
<1>12. StaleResident(t)
  BY <1>1, <1>2, <1>3, <1>10 DEF StaleResident, n
<1>13. BaseHolds(t)
  <2>1. \A i \in 1 .. n : fs[i] = es[i]
    BY <1>2, <1>3
  <2> QED
    BY <1>1, <1>10, <1>11, <2>1 DEF BaseHolds, n
<1>14. DroppedResolved(t)
  BY <1>1, <1>10, <1>11 DEF DroppedResolved, n
<1>15. Counted(t)
  <2>1. ASSUME NEW d \in Docs
        PROVE  d \in Routed(t) <=> d \in Routed(s) \/ d \in Members[e]
    <3>1. d \in Routed(s) <=>
           \/ HeldIn(es, n + 1, Len(es), d)
           \/ s.base[d] \in s.dropped /\ s.stale[d] # None
           \/ s.base[d] \notin s.dropped /\ s.base[d] # None
      BY <1>1, RoutedIff DEF n
    <3>2. d \in Routed(t) <=>
           \/ HeldIn(fs, n + 1, Len(fs), d)
           \/ s.base[d] \in s.dropped /\ s.stale[d] # None
           \/ s.base[d] \notin s.dropped /\ s.base[d] # None
      BY <1>9, <1>10, RoutedIff
    <3> QED
      BY <1>11, <3>1, <3>2
  <2>2. Routed(t) = Routed(s) \cup (Members[e] \ Routed(s))
    BY <1>6, <2>1 DEF Routed
  <2>3. Cardinality(Routed(t)) = Cardinality(Routed(s)) + Cardinality(Members[e] \ Routed(s))
    BY <1>7, <2>2, RoutedFinite, SumDisjoint
  <2> QED
    BY <1>1, <1>10, <2>3 DEF Counted, di
<1> QED
  BY <1>9, <1>12, <1>13, <1>14, <1>15 DEF Good, Levels

\* The snapshot of a replacement that does not flatten.
Replaced(s, kept, remove, published, di) ==
  LET fs == Append(kept, published)
      m  == keptBaseN(s, remove)
  IN  Snapshot(fs, s.base, m, dropIDs(s, remove, published),
               staleAfterReplace(s, remove,
                   residualMembers(s, remove, published), fs, m), di)

\* What the removal of entries and the publication of one do to the levels.
LEMMA ReplacedLevels ==
  ASSUME NEW s, Levels(s), NEW remove \in SUBSET Segs, NEW published \in Segs,
         NEW kept \in Kept(s.entries, remove), NEW di \in Nat
  PROVE  LET t        == Replaced(s, kept, remove, published, di)
             residual == residualMembers(s, remove, published)
         IN  /\ Levels(t)
             /\ t.distinct = di
             /\ residual \subseteq Routed(s)
             /\ Routed(t) \cup residual = Routed(s) \cup Members[published]
<1> DEFINE t == Replaced(s, kept, remove, published, di)
           residual == residualMembers(s, remove, published)
           es == s.entries
           n == s.baseN
           fs == Append(kept, published)
           m == keptBaseN(s, remove)
           drop == dropIDs(s, remove, published)
           st == staleAfterReplace(s, remove, residual, fs, m)
<1>1. /\ Shape(s) /\ StaleResident(s) /\ BaseHolds(s) /\ DroppedResolved(s)
  BY DEF Levels
<1>2. /\ es \in Seq(Segs) /\ n \in Nat /\ Len(es) \in Nat /\ n <= Len(es)
      /\ s.base \in [Docs -> Segs \cup {None}]
      /\ s.stale \in [Docs -> Segs \cup {None}]
      /\ s.dropped \subseteq Segs
  BY <1>1, ShapeFields
<1>3. None \notin Segs /\ None \notin remove /\ None # published
      /\ Members[published] \subseteq Docs
  BY RouteAssumption
<1>4. kept \in Seq(Segs) /\ m \in Nat /\ m <= Len(kept)
      /\ \E f : Moved(es, kept, n, m, remove, f)
  <2>1. n \in 0 .. Len(es)
    BY <1>2
  <2>2. m = Cardinality({i \in 1 .. n : es[i] \notin remove})
    BY DEF keptBaseN
  <2> HIDE DEF m, n, es
  <2>3. kept \in Kept(es, remove)
    BY DEF es
  <2> QED
    BY <1>2, <2>1, <2>2, <2>3, KeptMoved
<1>5. PICK f : Moved(es, kept, n, m, remove, f)
  BY <1>4
<1>6. /\ fs \in Seq(Segs) /\ Len(fs) = Len(kept) + 1 /\ Len(kept) \in Nat
      /\ m <= Len(fs) /\ \A i \in 1 .. Len(kept) : fs[i] = kept[i]
  BY <1>4
<1>7. t = Snapshot(fs, s.base, m, drop, st, di)
  BY DEF Replaced
<1>8. /\ t.entries = fs /\ t.base = s.base /\ t.baseN = m
      /\ t.dropped = drop /\ t.stale = st /\ t.distinct = di
  BY <1>7 DEF Snapshot
<1>9. drop \in SUBSET Segs
  BY <1>2 DEF dropIDs, Leaving
<1>10. \A d \in Docs :
         st[d] = IF d \in residual THEN NewestHolder(fs, 1, m, d)
                 ELSE IF s.stale[d] \in remove THEN None
                 ELSE s.stale[d]
  BY DEF staleAfterReplace
<1>11. \A b : b \in drop <=>
         /\ b # published
         /\ b \in s.dropped \/ (b \in remove /\ \E i \in 1 .. n : es[i] = b)
  BY DEF dropIDs, Leaving
<1>12. \A d : d \in residual <=>
         /\ d \notin Members[published]
         /\ \E i \in 1 .. Len(es) : es[i] \in remove /\ d \in Members[es[i]]
  <2>1. DOMAIN es = 1 .. Len(es)
    BY <1>2
  <2> DEFINE R == {es[i] : i \in 1 .. Len(es)} \cap remove
             X == UNION {Members[e] : e \in R}
  <2>2. residual = X \ Members[published]
    BY <2>1 DEF residualMembers
  <2> HIDE DEF residual
  <2>3. \A e : e \in R <=> e \in remove /\ \E i \in 1 .. Len(es) : es[i] = e
    OBVIOUS
  <2> HIDE DEF R
  <2>4. \A d : d \in X <=> \E e \in R : d \in Members[e]
    OBVIOUS
  <2> HIDE DEF X
  <2>5. \A d : d \in X <=> \E i \in 1 .. Len(es) : es[i] \in remove /\ d \in Members[es[i]]
    BY <2>3, <2>4, Zenon
  <2> QED
    BY <2>2, <2>5, Zenon
<1>13. residual \subseteq Docs
  <2>1. \A i \in 1 .. Len(es) : Members[es[i]] \subseteq Docs
    BY <1>2, RouteAssumption
  <2> QED
    BY <1>12, <2>1
<1>14. st \in [Docs -> Segs \cup {None}]
  <2>1. \A d \in Docs : NewestHolder(fs, 1, m, d) \in Segs \cup {None}
    <3>1. 1 \in Nat /\ 1 >= 1
      OBVIOUS
    <3> HIDE DEF fs, m
    <3> QED
      BY <1>4, <1>6, <3>1, NewestType
  <2> QED
    BY <1>2, <2>1 DEF staleAfterReplace
<1>15. Shape(t)
  <2> HIDE DEF fs, m, drop, st
  <2> QED
    BY <1>2, <1>4, <1>6, <1>7, <1>9, <1>14, SnapshotShape
<1> HIDE DEF t, fs, m, drop, st, residual
<1>16. ASSUME NEW d \in Docs
       PROVE  /\ HeldIn(fs, 1, m, d) <=> HeldIn(kept, 1, m, d)
              /\ NewestHolder(fs, 1, m, d) = NewestHolder(kept, 1, m, d)
              /\ HeldIn(fs, m + 1, Len(fs), d)
                   <=> HeldIn(kept, m + 1, Len(kept), d) \/ d \in Members[published]
  BY <1>4, AppendedLevels DEF fs
<1>17. n \in 0 .. Len(es) /\ m \in 0 .. Len(kept)
  BY <1>2, <1>4
\* A base record names a holder.
<1>18. \A d \in Docs : s.base[d] # None => d \in Members[s.base[d]]
  BY <1>1 DEF BaseHolds
<1> DEFINE Untouched(d) ==
             /\ d \notin Members[published]
             /\ \A i \in 1 .. Len(es) : d \in Members[es[i]] => es[i] \notin remove
<1>19. \A d \in Docs : d \in Members[published] \/ d \in residual \/ Untouched(d)
  BY <1>12
<1>20. ASSUME NEW d \in Docs, Untouched(d)
       PROVE  /\ s.base[d] \in drop <=> s.base[d] \in s.dropped
              /\ st[d] = s.stale[d]
              /\ d \notin residual
              /\ HeldIn(fs, m + 1, Len(fs), d) <=> HeldIn(es, n + 1, Len(es), d)
              /\ NewestHolder(fs, 1, m, d) = NewestHolder(es, 1, n, d)
  <2>1. d \notin residual
    BY <1>12, <1>20
  <2>2. s.base[d] # published
    BY <1>3, <1>18, <1>20
  <2>3. ~ (s.base[d] \in remove /\ \E i \in 1 .. n : es[i] = s.base[d])
    BY <1>2, <1>3, <1>18, <1>20
  <2>4. s.base[d] \in drop <=> s.base[d] \in s.dropped
    BY <1>11, <2>2, <2>3
  <2>5. s.stale[d] \notin remove
    <3>1. CASE s.stale[d] = None
      BY <1>3, <3>1
    <3>2. CASE s.stale[d] # None
      <4>1. d \in Members[s.stale[d]] /\ \E i \in 1 .. n : es[i] = s.stale[d]
        BY <1>1, <3>2 DEF StaleResident
      <4> QED
        BY <1>2, <1>20, <4>1
    <3> QED
      BY <3>1, <3>2
  <2>6. st[d] = s.stale[d]
    BY <1>10, <2>1, <2>5
  <2> HIDE DEF es, n
  <2>7. HeldIn(kept, m + 1, Len(kept), d) <=> HeldIn(es, n + 1, Len(es), d)
    BY <1>2, <1>4, <1>5, <1>17, <1>20, HoldersMoved
  <2>8. NewestHolder(es, 1, n, d) \notin remove
    <3>1. 1 \in Nat /\ 1 >= 1
      OBVIOUS
    <3>2. NewestHolder(es, 1, n, d) # None =>
            /\ \E i \in 1 .. n : es[i] = NewestHolder(es, 1, n, d)
            /\ d \in Members[NewestHolder(es, 1, n, d)]
      BY <1>2, <3>1, NewestType
    <3> QED
      BY <1>2, <1>3, <1>20, <3>2
  <2>9. NewestHolder(kept, 1, m, d) = NewestHolder(es, 1, n, d)
    BY <1>2, <1>4, <1>5, <1>17, <2>8, NewestMoved
  <2> QED
    BY <1>16, <1>20, <2>1, <2>4, <2>6, <2>7, <2>9
<1>21. StaleResident(t)
  <2> SUFFICES ASSUME NEW d \in Docs, st[d] # None
               PROVE  /\ \E i \in 1 .. m : fs[i] = st[d]
                      /\ d \in Members[st[d]]
    BY <1>8 DEF StaleResident
  <2>1. CASE d \in residual
    <3>1. st[d] = NewestHolder(fs, 1, m, d) /\ 1 \in Nat /\ 1 >= 1
      BY <1>10, <2>1
    <3> QED
      BY <1>4, <1>6, <3>1, NewestType
  <2>2. CASE d \notin residual
    <3>1. st[d] = s.stale[d] /\ s.stale[d] \notin remove /\ s.stale[d] # None
      BY <1>10, <2>2
    <3>2. d \in Members[s.stale[d]] /\ \E i \in 1 .. n : es[i] = s.stale[d]
      BY <1>1, <3>1 DEF StaleResident
    <3>3. PICK i \in 1 .. n : es[i] = s.stale[d]
      BY <3>2
    <3>4. i \in 1 .. Len(es) /\ es[i] \notin remove
      BY <1>2, <3>1, <3>3
    <3>5. PICK k \in 1 .. Len(kept) : f[k] = i
      BY <1>5, <3>4 DEF Moved
    <3>6. k \in 1 .. m /\ kept[k] = es[i] /\ fs[k] = kept[k]
      BY <1>2, <1>4, <1>5, <1>6, <3>3, <3>5 DEF Moved
    <3> QED
      BY <3>1, <3>2, <3>3, <3>6
  <2> QED
    BY <2>1, <2>2
<1>22. BaseHolds(t)
  <2> SUFFICES ASSUME NEW d \in Docs
               PROVE  /\ s.base[d] # None => d \in Members[s.base[d]]
                      /\ s.base[d] = None => ~ HeldIn(fs, 1, m, d)
                      /\ (\E i \in 1 .. m : fs[i] = s.base[d])
                           => NewestHolder(fs, 1, m, d) = s.base[d]
    BY <1>8 DEF BaseHolds
  <2>0. \A k \in 1 .. m : /\ k \in 1 .. Len(kept) /\ fs[k] = kept[k]
                          /\ kept[k] = es[f[k]] /\ f[k] \in 1 .. n
                          /\ es[f[k]] \notin remove
    BY <1>2, <1>4, <1>5, <1>6 DEF Moved
  <2>1. s.base[d] = None => ~ HeldIn(fs, 1, m, d)
    <3>1. s.base[d] = None => ~ HeldIn(es, 1, n, d)
      BY <1>1 DEF BaseHolds
    <3>2. HeldIn(fs, 1, m, d) => HeldIn(es, 1, n, d)
      <4> SUFFICES ASSUME NEW k \in 1 .. m, d \in Members[fs[k]]
                   PROVE  HeldIn(es, 1, n, d)
        BY DEF HeldIn
      <4>1. f[k] \in 1 .. n /\ d \in Members[es[f[k]]]
        BY <2>0
      <4> QED
        BY <4>1 DEF HeldIn
    <3> QED
      BY <3>1, <3>2
  <2>2. ASSUME NEW i \in 1 .. m, fs[i] = s.base[d]
        PROVE  NewestHolder(fs, 1, m, d) = s.base[d]
    <3>1. s.base[d] \notin remove /\ f[i] \in 1 .. n /\ es[f[i]] = s.base[d]
      BY <2>0, <2>2
    <3>2. NewestHolder(es, 1, n, d) = s.base[d]
      BY <1>1, <3>1 DEF BaseHolds
    <3> HIDE DEF es, n
    <3>3. NewestHolder(kept, 1, m, d) = NewestHolder(es, 1, n, d)
      BY <1>2, <1>4, <1>5, <1>17, <3>1, <3>2, NewestMoved
    <3> QED
      BY <1>16, <3>2, <3>3
  <2> QED
    BY <1>18, <2>1, <2>2
<1>23. DroppedResolved(t)
  <2> SUFFICES ASSUME NEW d \in Docs, s.base[d] \in drop
               PROVE  \/ HeldIn(fs, m + 1, Len(fs), d)
                      \/ st[d] = NewestHolder(fs, 1, m, d)
    BY <1>8 DEF DroppedResolved
  <2>1. CASE d \in Members[published]
    BY <1>16, <2>1
  <2>2. CASE d \in residual
    BY <1>10, <2>2
  <2>3. CASE Untouched(d)
    <3>1. \/ HeldIn(es, n + 1, Len(es), d)
          \/ s.stale[d] = NewestHolder(es, 1, n, d)
      BY <1>1, <1>20, <2>3 DEF DroppedResolved
    <3> QED
      BY <1>20, <2>3, <3>1
  <2> HIDE DEF Untouched
  <2> QED
    BY <1>19, <2>1, <2>2, <2>3
<1>24. residual \subseteq Routed(s)
  <2> SUFFICES ASSUME NEW d \in residual
               PROVE  d \in Routed(s)
    OBVIOUS
  <2>1. PICK i \in 1 .. Len(es) : d \in Members[es[i]]
    BY <1>12
  <2> QED
    BY <1>13, <2>1, HeldIsRouted
<1>25. Routed(t) \cup residual = Routed(s) \cup Members[published]
  <2>1. ASSUME NEW d \in Docs
        PROVE  d \in Routed(t) <=>
                 \/ HeldIn(fs, m + 1, Len(fs), d)
                 \/ s.base[d] \in drop /\ st[d] # None
                 \/ s.base[d] \notin drop /\ s.base[d] # None
    BY <1>8, <1>15, RoutedIff
  <2>2. ASSUME NEW d \in Docs
        PROVE  d \in Routed(s) <=>
                 \/ HeldIn(es, n + 1, Len(es), d)
                 \/ s.base[d] \in s.dropped /\ s.stale[d] # None
                 \/ s.base[d] \notin s.dropped /\ s.base[d] # None
    BY <1>1, RoutedIff
  <2>3. \A d \in Docs : d \in Members[published] => d \in Routed(t)
    BY <1>16, <2>1
  <2>4. ASSUME NEW d \in Docs, Untouched(d)
        PROVE  d \in Routed(t) <=> d \in Routed(s)
    BY <1>20, <2>1, <2>2, <2>4
  <2>5. Routed(t) \subseteq Docs /\ Routed(s) \subseteq Docs
    BY DEF Routed
  <2> HIDE DEF Untouched
  <2> QED
    BY <1>3, <1>13, <1>19, <1>24, <2>3, <2>4, <2>5
<1> QED
  BY <1>8, <1>15, <1>21, <1>22, <1>23, <1>24, <1>25 DEF Levels, t, residual

\* A consolidation: the residual ids that are not routed any more leave the
\* count, the ids of the output that were not routed enter it.
LEMMA ReplaceGood ==
  ASSUME NEW s, Good(s), NEW remove \in SUBSET Segs, NEW published \in Segs,
         NEW kept \in Kept(s.entries, remove)
  PROVE  Good(withReplaced(s, kept, remove, published))
<1> DEFINE residual == residualMembers(s, remove, published)
           t(di) == Replaced(s, kept, remove, published, di)
           began == Members[published] \ Routed(s)
           ended == residual \ Routed(t(0))
           di == (s.distinct + Cardinality(began)) - Cardinality(ended)
<1>1. Levels(s) /\ Shape(s) /\ s.distinct = Cardinality(Routed(s))
  BY DEF Good, Levels, Counted
<1>2. \/ withReplaced(s, kept, remove, published) = newSegmentSet(Append(kept, published))
      \/ withReplaced(s, kept, remove, published) = t(di)
  BY DEF withReplaced, Replaced
<1>3. Good(newSegmentSet(Append(kept, published)))
  <2>1. s.entries \in Seq(Segs) /\ 0 \in 0 .. Len(s.entries)
    BY <1>1, ShapeFields
  <2>2. kept \in Seq(Segs)
    BY <2>1, KeptMoved
  <2>3. Append(kept, published) \in Seq(Segs)
    BY <2>2
  <2> QED
    BY <2>3, FlatGood
<1>4. \A x \in Nat :
        /\ Levels(t(x)) /\ t(x).distinct = x
        /\ Routed(t(x)) \cup residual = Routed(s) \cup Members[published]
  <2> SUFFICES ASSUME NEW x \in Nat
               PROVE  /\ Levels(t(x)) /\ t(x).distinct = x
                      /\ Routed(t(x)) \cup residual = Routed(s) \cup Members[published]
    OBVIOUS
  <2>1. /\ Levels(Replaced(s, kept, remove, published, x))
        /\ Replaced(s, kept, remove, published, x).distinct = x
        /\ Routed(Replaced(s, kept, remove, published, x))
               \cup residualMembers(s, remove, published)
             = Routed(s) \cup Members[published]
    <3>1. Levels(s) /\ kept \in Kept(s.entries, remove)
      BY <1>1
    <3>2. Levels(Replaced(s, kept, remove, published, x))
      BY <3>1, ReplacedLevels
    <3>3. Replaced(s, kept, remove, published, x).distinct = x
      BY <3>1, ReplacedLevels
    <3>4. Routed(Replaced(s, kept, remove, published, x))
               \cup residualMembers(s, remove, published)
             = Routed(s) \cup Members[published]
      BY <3>1, ReplacedLevels
    <3> QED
      BY <3>2, <3>3, <3>4, Zenon
  <2> QED
    BY <2>1
<1>5. residual \subseteq Routed(s)
  BY <1>1, ReplacedLevels, 0 \in Nat
<1>6. \A x \in Nat : Routed(t(x)) = Routed(t(0))
  <2> SUFFICES ASSUME NEW x \in Nat
               PROVE  Routed(t(x)) = Routed(t(0))
    OBVIOUS
  <2>1. /\ t(x).entries = t(0).entries /\ t(x).base = t(0).base
        /\ t(x).baseN = t(0).baseN /\ t(x).dropped = t(0).dropped
        /\ t(x).stale = t(0).stale
    BY DEF Replaced, Snapshot
  <2>2. \A d : routeOf(t(x), d) = routeOf(t(0), d)
    <3> HIDE DEF t
    <3> QED
      BY <2>1 DEF routeOf, tailHolderOf
  <2> HIDE DEF t
  <2> QED
    BY <2>2 DEF Routed
<1> HIDE DEF t, residual
<1>7. /\ IsFiniteSet(Routed(s)) /\ IsFiniteSet(Routed(t(0)))
      /\ IsFiniteSet(began) /\ IsFiniteSet(ended)
  <2>1. IsFiniteSet(Members[published])
    BY RouteAssumption, FS_Subset
  <2>2. IsFiniteSet(residual)
    BY <1>5, RoutedFinite, FS_Subset
  <2> QED
    BY <2>1, <2>2, RoutedFinite, FS_Subset
<1>8. Routed(t(0)) \cup ended = Routed(s) \cup began
  BY <1>4
<1>9. Cardinality(Routed(t(0)) \cup ended)
        = Cardinality(Routed(t(0))) + Cardinality(ended)
  BY <1>7, SumDisjoint
<1>10. Cardinality(Routed(s) \cup began) = Cardinality(Routed(s)) + Cardinality(began)
  BY <1>7, SumDisjoint
<1>11. /\ Cardinality(Routed(s)) \in Nat /\ Cardinality(Routed(t(0))) \in Nat
       /\ Cardinality(began) \in Nat /\ Cardinality(ended) \in Nat
  BY <1>7, FS_CardinalityType
<1>12. di = Cardinality(Routed(t(0)))
  <2>1. Cardinality(Routed(t(0))) + Cardinality(ended)
          = Cardinality(Routed(s)) + Cardinality(began)
    BY <1>8, <1>9, <1>10
  <2> HIDE DEF began, ended
  <2> QED
    BY <1>1, <1>11, <2>1
<1> HIDE DEF di, began, ended
<1>13. di \in Nat
  BY <1>11, <1>12
<1>14. Levels(t(di)) /\ t(di).distinct = di /\ Routed(t(di)) = Routed(t(0))
  BY <1>4, <1>6, <1>13
<1>15. Good(t(di))
  BY <1>12, <1>14 DEF Good, Counted
<1> QED
  BY <1>2, <1>3, <1>15

-----------------------------------------------------------------------------
(* The publishes of the engine.                                             *)

\* A good snapshot stays good as the value of the next state.
LEMMA GoodNext ==
  ASSUME NEW s, Good(s), Current' = s
  PROVE  Good(Current)'
<1>1. Shape(Current)'
  BY DEF Good, Levels, Shape
<1>2. StaleResident(Current)'
  BY DEF Good, Levels, StaleResident
<1>3. BaseHolds(Current)'
  <2>1. BaseHolds(s)
    BY DEF Good, Levels
  <2>2. \A d \in Docs : /\ NewestHolder(Current.entries, 1, Current.baseN, d)'
                             = NewestHolder(s.entries, 1, s.baseN, d)
                        /\ HeldIn(Current.entries, 1, Current.baseN, d)'
                             <=> HeldIn(s.entries, 1, s.baseN, d)
    BY DEF NewestHolder, HeldIn
  <2> QED
    BY <2>1, <2>2 DEF BaseHolds
<1>4. DroppedResolved(Current)'
  BY DEF Good, Levels, DroppedResolved, HeldIn, NewestHolder
<1>5. Counted(Current)'
  BY DEF Good, Counted, Routed, routeOf, tailHolderOf, NewestHolder
<1> QED
  BY <1>1, <1>2, <1>3, <1>4, <1>5 DEF Good, Levels

\* What is published is the next snapshot.
LEMMA Published ==
  ASSUME NEW s, Good(s), Publish(s)
  PROVE  Good(Current)'
<1>1. s = Snapshot(s.entries, s.base, s.baseN, s.dropped, s.stale, s.distinct)
  BY DEF Good, Levels, Shape, Snapshot
<1>2. Current' = Snapshot(entries', base', baseN', dropped', stale', distinct')
  BY DEF Current
<1>3. Current' = s
  BY <1>1, <1>2 DEF Publish
<1> QED
  BY <1>3, GoodNext

\* The current snapshot read by a publish.
LEMMA CurrentFields ==
  ASSUME Inv
  PROVE  /\ Good(Current) /\ Shape(Current)
         /\ Current.entries = entries
         /\ entries \in Seq(Segs)
         /\ Resident \subseteq Segs
<1>1. Good(Current) /\ Shape(Current) /\ Current.entries = entries
  BY DEF Inv, Good, Levels, Current, Snapshot
<1>2. entries \in Seq(Segs)
  BY <1>1, ShapeFields
<1> QED
  BY <1>1, <1>2 DEF Resident

\* What is left of the entries after a removal.
LEMMA KeptType ==
  ASSUME NEW es \in Seq(Segs), NEW remove, NEW kept \in Kept(es, remove)
  PROVE  kept \in Seq(Segs)
<1>1. 0 \in 0 .. Len(es)
  OBVIOUS
<1> QED
  BY <1>1, KeptMoved

\* An empty index is good.
LEMMA InitGood == Init => Inv
<1> SUFFICES ASSUME Init
             PROVE  Inv
  OBVIOUS
<1>1. <<>> \in Seq(Segs) /\ Len(<<>>) = 0
  OBVIOUS
<1>2. flatRoute(<<>>) = [d \in Docs |-> None]
  <2>1. \A d \in Docs : NewestHolder(<<>>, 1, 0, d) = None
    <3>1. \A d \in Docs : {i \in 1 .. 0 : d \in Members[<<>>[i]]} = {}
      OBVIOUS
    <3> QED
      BY <3>1 DEF NewestHolder
  <2> QED
    BY <1>1, <2>1 DEF flatRoute
<1>3. Distinct(flatRoute(<<>>)) = 0
  <2>1. {d \in Docs : flatRoute(<<>>)[d] # None} = {}
    BY <1>2
  <2> QED
    BY <2>1, FS_EmptySet DEF Distinct
<1>4. Current = newSegmentSet(<<>>)
  BY <1>1, <1>2, <1>3 DEF Init, Current, newSegmentSet
<1>5. Good(Current)
  BY <1>1, <1>4, FlatGood
<1> QED
  BY <1>5 DEF Init, Inv

\* Every publish installs a good snapshot.
LEMMA NextGood == Inv /\ [Next]_vars => Inv'
<1> SUFFICES ASSUME Inv, [Next]_vars
             PROVE  Inv'
  OBVIOUS
<1>0. /\ Good(Current) /\ Current.entries = entries /\ entries \in Seq(Segs)
      /\ Resident \subseteq Segs /\ resolved \in [Swappers -> SUBSET Segs]
  BY CurrentFields DEF Inv
<1>1. ASSUME NEW e \in Segs, publishAppend(e)
      PROVE  Inv'
  <2>1. Good(Current)'
    BY <1>0, <1>1, AppendGood, Published DEF publishAppend
  <2> QED
    BY <1>0, <1>1, <2>1 DEF Inv, publishAppend
<1>2. ASSUME NEW w \in Swappers, ResolveSwap(w)
      PROVE  Inv'
  <2>1. Good(Current)'
    <3>1. Current' = Current
      BY <1>2 DEF ResolveSwap, Current
    <3> QED
      BY <1>0, <3>1, GoodNext
  <2>2. resolved' \in [Swappers -> SUBSET Segs]
    BY <1>0, <1>2 DEF ResolveSwap
  <2> QED
    BY <2>1, <2>2 DEF Inv
<1>3. ASSUME NEW w \in Swappers, NEW e \in Segs, ReplaceBucket(w, e)
      PROVE  Inv'
  <2>1. PICK kept \in Kept(entries, resolved[w]) :
          Publish(withReplaced(Current, kept, resolved[w], e))
    BY <1>3 DEF ReplaceBucket
  <2>2. resolved[w] \in SUBSET Segs /\ kept \in Kept(Current.entries, resolved[w])
    BY <1>0, <2>1
  <2>3. Good(withReplaced(Current, kept, resolved[w], e))
    BY <1>0, <2>2, ReplaceGood
  <2>4. Good(Current)'
    BY <2>1, <2>3, Published
  <2>5. resolved' \in [Swappers -> SUBSET Segs]
    BY <1>0, <1>3 DEF ReplaceBucket
  <2> QED
    BY <2>4, <2>5 DEF Inv
<1>4. ASSUME NEW R \in SUBSET Resident, NEW o \in Outputs, ReplaceBucketGroup(R, o)
      PROVE  Inv'
  <2>1. PICK kept \in Kept(entries, R) : Publish(newSegmentSet(kept \o o))
    BY <1>4 DEF ReplaceBucketGroup, withReplacedGroup
  <2>2. kept \in Seq(Segs)
    BY <1>0, <2>1, KeptType
  <2>3. o \in Seq(Segs)
    <3>1. CASE o \in {<<e>> : e \in Segs}
      <4>1. PICK e \in Segs : o = <<e>>
        BY <3>1
      <4> QED
        BY <4>1
    <3>2. CASE o \in Segs \X Segs
      <4>1. PICK e \in Segs : \E g \in Segs : o = <<e, g>>
        BY <3>2
      <4>2. PICK g \in Segs : o = <<e, g>>
        BY <4>1
      <4> QED
        BY <4>2
    <3> QED
      BY <3>1, <3>2 DEF Outputs
  <2>4. kept \o o \in Seq(Segs)
    BY <2>2, <2>3
  <2>5. Good(Current)'
    BY <2>1, <2>4, FlatGood, Published
  <2> QED
    BY <1>0, <1>4, <2>5 DEF Inv, ReplaceBucketGroup
<1>5. ASSUME NEW e \in Segs, publishImport(e)
      PROVE  Inv'
  <2>1. Append(entries, e) \in Seq(Segs)
    BY <1>0
  <2>2. Good(Current)'
    BY <1>5, <2>1, FlatGood, Published DEF publishImport
  <2> QED
    BY <1>0, <1>5, <2>2 DEF Inv, publishImport
<1>6. ASSUME NEW R \in SUBSET Resident, Unload(R)
      PROVE  Inv'
  <2>1. PICK kept \in Kept(entries, R) : Publish(newSegmentSet(kept))
    BY <1>6 DEF Unload
  <2>2. kept \in Seq(Segs)
    BY <1>0, <2>1, KeptType
  <2>3. Good(Current)'
    BY <2>1, <2>2, FlatGood, Published
  <2> QED
    BY <1>0, <1>6, <2>3 DEF Inv, Unload
<1>7. ASSUME UNCHANGED vars
      PROVE  Inv'
  <2>1. Good(Current)'
    <3>1. Current' = Current
      BY <1>7 DEF vars, Current
    <3> QED
      BY <1>0, <3>1, GoodNext
  <2> QED
    BY <1>0, <1>7, <2>1 DEF Inv, vars
<1> QED
  BY <1>1, <1>2, <1>3, <1>4, <1>5, <1>6, <1>7, Zenon DEF Next

-----------------------------------------------------------------------------
(* The theorems.                                                            *)

\* The inductive invariant: in every published snapshot the stale index names
\* resident holders, the shared base map is right about what is still
\* flattened, every dropped record is answered by the tail or by the stale
\* index, and the count is the number of routed documents (withAppended,
\* withReplaced, withReplacedGroup, newSegmentSet).
THEOREM RouteInvariant == Spec => []Inv
  BY InitGood, NextGood, PTL DEF Spec

\* Type correctness: the flattened level is a prefix of the entries, the stale
\* index names only segments resident in it, and the count never exceeds the
\* documents (segmentSet).
THEOREM RouteTypeOK == Spec => []TypeOK
<1>1. Inv => TypeOK
  <2> SUFFICES ASSUME Inv
               PROVE  TypeOK
    OBVIOUS
  <2>1. /\ Shape(Current) /\ StaleResident(Current) /\ Counted(Current)
        /\ resolved \in [Swappers -> SUBSET Segs]
    BY DEF Inv, Good, Levels
  <2>2. /\ Current.entries = entries /\ Current.base = base
        /\ Current.baseN = baseN /\ Current.dropped = dropped
        /\ Current.stale = stale /\ Current.distinct = distinct
    BY DEF Current, Snapshot
  <2>3. /\ entries \in Seq(Segs) /\ base \in [Docs -> Segs \cup {None}]
        /\ baseN \in 0 .. Len(entries) /\ dropped \subseteq Segs
        /\ stale \in [Docs -> Segs \cup {None}]
    BY <2>1, <2>2, ShapeFields
  <2>4. stale \in [Docs -> {entries[i] : i \in 1 .. baseN} \cup {None}]
    <3>1. \A d \in Docs : stale[d] # None =>
             stale[d] \in {entries[i] : i \in 1 .. baseN}
      BY <2>1, <2>2 DEF StaleResident
    <3> QED
      BY <2>3, <3>1
  <2>5. distinct \in 0 .. Cardinality(Docs)
    <3>1. IsFiniteSet(Docs) /\ Routed(Current) \subseteq Docs
      BY RouteAssumption DEF Routed
    <3>2. Cardinality(Routed(Current)) <= Cardinality(Docs)
      BY <3>1, FS_Subset
    <3>3. Cardinality(Docs) \in Nat /\ Cardinality(Routed(Current)) \in Nat
      BY <3>1, RoutedFinite, FS_CardinalityType
    <3> QED
      BY <2>1, <2>2, <3>2, <3>3 DEF Counted
  <2> QED
    BY <2>1, <2>3, <2>4, <2>5 DEF TypeOK
<1> QED
  BY <1>1, RouteInvariant, PTL

\* A lookup that names a resident segment names the newest one holding the
\* document, and one that finds nothing is right, for every corpus, every tail
\* and drop limit and any number of racing consolidations (routeOf).
THEOREM RouteAnswersAreNewest == Spec => []AnswersAreNewest
<1>1. Inv => AnswersAreNewest
  <2> SUFFICES ASSUME Inv, NEW d \in Docs,
                      routeOf(Current, d) \in Resident \cup {None}
               PROVE  routeOf(Current, d) = flatRoute(entries)[d]
    BY DEF AnswersAreNewest
  <2>1. Levels(Current) /\ Current.entries = entries
    BY CurrentFields DEF Good
  <2>2. routeOf(Current, d) \in
          {Current.entries[i] : i \in DOMAIN Current.entries} \cup {None}
    BY <2>1 DEF Resident
  <2>3. routeOf(Current, d)
          = NewestHolder(Current.entries, 1, Len(Current.entries), d)
    BY <2>1, <2>2, NewestAnswer
  <2> QED
    BY <2>1, <2>3 DEF flatRoute
<1> QED
  BY <1>1, RouteInvariant, PTL

\* The count kept by deltas is the number a flatten installs, unless the route
\* names a segment that has left (beganResidency, endedResidency).
THEOREM RouteDistinctAgrees == Spec => []DistinctAgrees
<1>1. Inv => DistinctAgrees
  <2> SUFFICES ASSUME Inv, \A d \in Docs : routeOf(Current, d) \in Resident \cup {None}
               PROVE  distinct = Distinct(flatRoute(entries))
    BY DEF DistinctAgrees
  <2>1. distinct = Cardinality(Routed(Current))
    BY DEF Inv, Good, Counted, Current, Snapshot
  <2>2. Levels(Current) /\ Current.entries = entries
    BY CurrentFields DEF Good
  <2>3. \A d \in Docs : routeOf(Current, d) = flatRoute(entries)[d]
    <3> SUFFICES ASSUME NEW d \in Docs
                 PROVE  routeOf(Current, d) = flatRoute(entries)[d]
      OBVIOUS
    <3>1. routeOf(Current, d) \in
            {Current.entries[i] : i \in DOMAIN Current.entries} \cup {None}
      BY <2>2 DEF Resident
    <3>2. routeOf(Current, d)
            = NewestHolder(Current.entries, 1, Len(Current.entries), d)
      BY <2>2, <3>1, NewestAnswer
    <3> QED
      BY <2>2, <3>2 DEF flatRoute
  <2>4. Routed(Current) = {d \in Docs : flatRoute(entries)[d] # None}
    BY <2>3 DEF Routed
  <2> QED
    BY <2>1, <2>4 DEF Distinct
<1> QED
  BY <1>1, RouteInvariant, PTL
=============================================================================
