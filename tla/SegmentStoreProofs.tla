------------------------- MODULE SegmentStoreProofs -------------------------
(***************************************************************************)
(* A document that is not deleted has a searchable copy, and once its      *)
(* writes have come to rest the only version that answers is the last one  *)
(* written; for every corpus, every partitioning, any number of writes and *)
(* deletes, and every interleaving of them with the steps of drains that   *)
(* take turns.  Drains may fail: a group abandoned at any moment before    *)
(* its publish, after its kills too, a segment not stored, the tombstone   *)
(* record not read or not saved.  Out of reach of the claims, as the runs  *)
(* of the refuted comments show, are two drains at once, a failed merge    *)
(* reclaim, a corrupt segment and the end of the process.                  *)
(*                                                                         *)
(* The invariant says, for each step of the drain, which copy of a         *)
(* document is the one that carries it over the group's swap and the       *)
(* unload of the tails.                                                    *)
(***************************************************************************)
EXTENDS SegmentStore, SequenceTheorems, FiniteSetTheorems, TLAPS

Segs    == SUBSET (Docs \X Nat)
Records == [sup : SUBSET Segs, coh : SUBSET Segs]
Entries == [seg : Segs, dead : SUBSET Docs, rec : Records]
Writers == [at : {"idle", "seal", "supersede", "record"}, seq : Nat, seg : Segs,
            victim : SUBSET Segs, tail : BOOLEAN]
Deletes == [at : {"idle", "load", "save", "kill", "done"}, read : SUBSET Docs]
Queued  == [seq : Nat, pair : Docs \X Nat]
Sealed  == [seq : Nat, seg : Segs]
Drains  == [at : {"idle", "mask", "offer", "group", "resolve", "harvest", "swap",
                  "put", "remove", "cover", "unload", "export", "write", "trim",
                  "save", "clear"},
            pending : SUBSET Queued, tails : SUBSET Sealed, mask : SUBSET Docs,
            docs : Segs, deferred : SUBSET Docs, work : SUBSET Nat,
            union : SUBSET Segs, out : Seq(Segs), retire : SUBSET Segs,
            diff : SUBSET Entries, read : SUBSET Docs]

\* Steps of the drain: its group is fixed and not published; its kills are
\* still to come; it is published and the tails are still there; the tails are
\* gone.
Before == {"resolve", "harvest", "swap"}
Early  == {"idle", "mask", "offer", "group", "resolve"}
After  == {"put", "remove", "cover", "unload"}
Late   == {"export", "write", "trim", "save", "clear"}

Shapes ==
  /\ set \in Seq(Entries)
  /\ writer \in [Docs -> Writers]
  /\ del \in [Docs -> Deletes]
  /\ latest \in [Docs -> Nat]
  /\ seq \in Nat
  /\ pending \subseteq Queued
  /\ tails \subseteq Sealed
  /\ drain \in Drains
  /\ mask \subseteq Docs
  /\ reclaim = {}
  /\ owed = {}

Idle(d) == writer[d].at = "idle"

\* Whatever holds a masked id, its document is deleted.
Masks ==
  /\ \A d \in mask \cup drain.mask \cup drain.deferred \cup drain.read : Deleted(d)
  /\ \A d \in Docs : \A e \in del[d].read : Deleted(e)

\* A write in flight carries the version last written of its document and has
\* captured a segment that holds the document.
InHand ==
  \A d \in Docs :
     /\ Idle(d) => writer[d].seg = {}
     /\ ~ Idle(d) => /\ writer[d].seg = {<<d, latest[d]>>}
                     /\ writer[d].seq \in 1 .. seq
     /\ \A s \in writer[d].victim : d \in DocsOf(s)

\* A resident segment holds no version that was not written, and not the one
\* about to be sealed.  It is not empty, and its live bits are its members'.
Resident ==
  \A i \in DOMAIN set :
     /\ set[i].seg # {}
     /\ set[i].dead \subseteq DocsOf(set[i].seg)
     /\ \A p \in set[i].seg :
          /\ p[2] <= latest[p[1]]
          /\ writer[p[1]].at = "seal" => p[2] < latest[p[1]]

\* The queue: no version newer than the last, none of the write in flight, and
\* the sequence numbers of a document rise with its versions.
Backlog ==
  \A q \in pending \cup drain.pending :
     /\ q.seq \in 1 .. seq
     /\ q.pair[2] <= latest[q.pair[1]]
     /\ ~ Idle(q.pair[1]) => /\ q.pair[2] < latest[q.pair[1]]
                             /\ q.seq < writer[q.pair[1]].seq
     /\ \A r \in pending \cup drain.pending :
          r.pair[1] = q.pair[1] => (q.pair[2] < r.pair[2] <=> q.seq < r.seq)

\* A document with nothing in flight has its last version in the queue, if the
\* queue has any of it.
LastIsQueued ==
  \A q \in pending : ~ Deleted(q.pair[1]) /\ Idle(q.pair[1]) =>
     \E r \in pending : r.pair = <<q.pair[1], latest[q.pair[1]]>>

\* The drain's snapshot of the queue: only deletes took from the queue since,
\* and what came since is newer.
Snapshot ==
  \A q \in drain.pending :
     /\ q \in pending \/ Deleted(q.pair[1])
     /\ \A r \in pending \ drain.pending :
          r.pair[1] = q.pair[1] => q.seq < r.seq

\* A sealed segment in the backlog is one document's, and its document is in
\* the queue with it; both are in the snapshot, or neither.
Tails ==
  /\ drain.tails \subseteq tails
  /\ \A t \in tails :
       /\ t.seq \in 1 .. seq
       /\ \E p \in t.seg :
            /\ t.seg = {p}
            /\ p[2] <= latest[p[1]]
            /\ ~ Idle(p[1]) => p[2] < latest[p[1]]
            /\ Deleted(p[1]) \/ \E q \in pending : q.pair = p
            /\ t \in drain.tails => Deleted(p[1]) \/ \E q \in drain.pending : q.pair = p
  /\ \A t \in tails : \A q \in drain.pending : t.seg = {q.pair} => t \in drain.tails

\* No write of the document since the snapshot.
Quiet(d) ==
  /\ ~ Deleted(d) /\ Idle(d)
  /\ \A q \in pending : q.pair[1] = d => q \in drain.pending

\* The drain supplies documents of its snapshot, all that are not deleted,
\* and of a quiet one the last version.
Supply ==
  /\ \A p \in drain.docs : \E q \in drain.pending : q.pair = p
  /\ drain.at \notin {"idle", "mask"} =>
       /\ \A q \in drain.pending : Deleted(q.pair[1]) \/ q.pair[1] \in Supplied
       /\ \A p \in drain.docs : Quiet(p[1]) => p[2] = latest[p[1]]

\* The group: closed under the partitions of what it consumes, and every
\* resident holder in its partitions is consumed, a tail, or newer than it.
Grouped ==
  drain.at \in Before =>
    /\ drain.union \subseteq IdsOf(set)
    /\ drain.work \subseteq Parts
    /\ \A s \in drain.union : s \notin TailIds /\ PartsOf(s) \subseteq drain.work
    /\ \A d \in Supplied : PartOf(d) \in drain.work
    /\ \A i \in DOMAIN set : \A p \in set[i].seg :
         PartOf(p[1]) \in drain.work /\ set[i].seg \notin drain.union =>
           \/ set[i].seg \in TailIds
           \/ /\ writer[p[1]].seg \notin drain.union
              /\ ~ Quiet(p[1])
              /\ p \notin drain.docs

\* No version is resident twice, but for a supplied one between the publish of
\* its rebuilt copy and the unload of its tail.
Disjoint ==
  \A i, j \in DOMAIN set : \A p \in set[i].seg :
     p \in set[j].seg /\ i # j =>
       /\ drain.at \in After
       /\ p[1] \in Supplied
       /\ \/ set[i].seg \in TailIds \ Outs /\ set[j].seg \in Outs
          \/ set[j].seg \in TailIds \ Outs /\ set[i].seg \in Outs

Resting(d) == ~ Deleted(d) /\ Idle(d) /\ \A q \in pending : q.pair[1] # d

\* An output is one partition's: what the queue supplies of it, and what was
\* harvested of documents the queue does not supply.
Built ==
  drain.at = "swap" =>
    /\ \A k \in DOMAIN drain.out :
         /\ drain.out[k] # {}
         /\ \A l \in DOMAIN drain.out : \A p \in drain.out[k], r \in drain.out[l] :
              PartOf(p[1]) = PartOf(r[1]) => k = l
         /\ \A p \in drain.out[k] :
              /\ PartOf(p[1]) \in drain.work
              /\ Fresh(PartOf(p[1])) \subseteq drain.out[k]
              /\ \/ p \in drain.docs
                 \/ p[1] \notin Supplied /\ \E s \in drain.union : p \in s
              /\ Resting(p[1]) => p[2] = latest[p[1]]
    /\ \A d \in Supplied : \E s \in Outs : d \in DocsOf(s)

\* A live copy of d outside the segments X.
Alive(d, X) ==
  \E i \in DOMAIN set : set[i].seg \notin X /\ d \in DocsOf(LivePairs(set[i]))

\* An abandoned group may have killed the document: it is queued, and a drain
\* that runs will supply it.
Blanked(d) ==
  /\ "abandon" \in upsets /\ drain.at \in Early
  /\ \E q \in pending : q.pair[1] = d /\ (drain.at = "idle" \/ q \in drain.pending)

\* Every document has a live copy, but the supplied ones while their group is
\* being built, and the ones left by an abandoned group.
Live ==
  \A d \in Docs :
     \/ Deleted(d)
     \/ Blanked(d)
     \/ drain.at \in {"harvest", "swap"} /\ d \in Supplied
     \/ Alive(d, {})

\* What carries a document over the swap: an output, or a copy that stays and
\* that no write is about to kill for one that goes.
Carried ==
  drain.at = "swap" => \A d \in Docs :
     \/ Deleted(d)
     \/ \E s \in Outs : d \in DocsOf(s)
     \/ /\ Alive(d, drain.union \cup Freshes)
        /\ writer[d].at = "supersede" => writer[d].seg \notin drain.union

\* What carries a supplied document over the unload: a copy that is no tail.
Rebuilt ==
  drain.at \in After => \A d \in Supplied : Deleted(d) \/ Alive(d, TailIds \ Outs)

\* The tails of supplied documents are retired.
Retiring ==
  drain.at = "unload" =>
    /\ drain.retire \subseteq TailIds \ Outs
    /\ \A s \in TailIds \ Outs : DocsOf(s) \subseteq Supplied => s \in drain.retire

\* Only the last version of a document at rest is live; of a supplied and
\* quiet one, outside the tails while they are there.
Exact ==
  \A i \in DOMAIN set : \A p \in LivePairs(set[i]) :
     \/ p[2] = latest[p[1]]
     \/ /\ ~ Resting(p[1])
        /\ drain.at \in After /\ Quiet(p[1]) /\ p[1] \in Supplied =>
             set[i].seg \in TailIds \ Outs
        /\ drain.at \in Late => ~ (Quiet(p[1]) /\ p[1] \in Supplied)

Inv ==
  /\ Shapes /\ Masks /\ InHand /\ Resident /\ Backlog /\ LastIsQueued /\ Snapshot
  /\ Tails /\ Supply /\ Grouped /\ Disjoint /\ Built /\ Live /\ Carried /\ Rebuilt
  /\ Retiring /\ Exact

\* The bounds hold throughout, the rest until something is not withstood.
Bounds ==
  /\ layout \in Layouts
  /\ faults \in 0 .. layout.faults
  /\ crashes \in 0 .. layout.crashes

StoreInv == Bounds /\ (Withstood => Inv /\ gone = {})
-----------------------------------------------------------------------------
(* Sequences of entries: what is left of them, and what a publish makes.    *)

\* The elements picked at a finite set of positions are each there once.
Places(s, D, es, n, f) ==
  /\ n \in Nat /\ f \in [1 .. n -> D]
  /\ es = [k \in 1 .. n |-> s[f[k]]]
  /\ \A j, k \in 1 .. n : f[j] = f[k] => j = k
  /\ \A i \in D : \E k \in 1 .. n : f[k] = i

LEMMA PickedIs ==
  ASSUME NEW s, NEW D, IsFiniteSet(D), D \subseteq Nat, NEW es \in Picked(s, D)
  PROVE  \E n, f : Places(s, D, es, n, f)
<1> DEFINE c == Cardinality(D)
<1>1. c \in Nat
  BY FS_CardinalityType
<1>2. PICK f \in [1 .. c -> D] :
         /\ \A a, b \in 1 .. c : a < b => f[a] < f[b]
         /\ es = [k \in 1 .. c |-> s[f[k]]]
  BY DEF Picked
<1> HIDE DEF c
<1>3. \A k \in 1 .. c : f[k] \in D /\ f[k] \in Nat
  BY <1>2
<1>4. \A a, b \in 1 .. c : f[a] = f[b] => a = b
  BY <1>1, <1>2, <1>3
<1>5. f \in Injection(1 .. c, D)
  BY <1>2, <1>4 DEF Injection, IsInjective
<1>6. Cardinality(1 .. c) = c
  BY <1>1, FS_Interval
<1>7. f \in Surjection(1 .. c, D)
  BY <1>5, <1>6, FS_Injection DEF c
<1>8. \A i \in D : \E k \in 1 .. c : f[k] = i
  BY <1>7 DEF Surjection
<1> QED
  BY <1>1, <1>2, <1>4, <1>8 DEF Places

\* What an unload leaves: the entries of the other ids, each at one position.
Remains(es, ids, left, f) ==
  /\ f \in [DOMAIN left -> DOMAIN es]
  /\ \A k \in DOMAIN left : left[k] = es[f[k]] /\ es[f[k]].seg \notin ids
  /\ \A j, k \in DOMAIN left : f[j] = f[k] => j = k
  /\ \A i \in DOMAIN es : es[i].seg \notin ids => \E k \in DOMAIN left : f[k] = i

LEMMA UnloadedIs ==
  ASSUME NEW S, NEW es \in Seq(S), NEW ids, NEW left \in Unloaded(es, ids)
  PROVE  /\ left \in Seq(S)
         /\ \E f : Remains(es, ids, left, f)
<1> DEFINE D == {i \in DOMAIN es : es[i].seg \notin ids}
<1>1. DOMAIN es = 1 .. Len(es) /\ Len(es) \in Nat
  OBVIOUS
<1>2. D \subseteq 1 .. Len(es) /\ D \subseteq Nat
  BY <1>1
<1>3. IsFiniteSet(D)
  <2>1. IsFiniteSet(1 .. Len(es))
    BY <1>1, FS_Interval
  <2> QED
    BY <1>2, <2>1, FS_Subset
<1>4. left \in Picked(es, D)
  BY DEF Unloaded
<1>5. \A i \in D : i \in DOMAIN es /\ es[i] \in S /\ es[i].seg \notin ids
  BY <1>1
<1>6. \A i \in DOMAIN es : es[i].seg \notin ids => i \in D
  OBVIOUS
<1> HIDE DEF D
<1>7. PICK n, f : Places(es, D, left, n, f)
  BY <1>2, <1>3, <1>4, PickedIs
<1>8. /\ n \in Nat /\ f \in [1 .. n -> D]
      /\ left = [k \in 1 .. n |-> es[f[k]]]
      /\ \A j, k \in 1 .. n : f[j] = f[k] => j = k
      /\ \A i \in D : \E k \in 1 .. n : f[k] = i
  BY <1>7 DEF Places
<1>9. left \in [1 .. n -> S] /\ DOMAIN left = 1 .. n
  BY <1>5, <1>8
<1>10. left \in Seq(S)
  BY <1>8, <1>9
<1>11. f \in [DOMAIN left -> DOMAIN es]
  BY <1>5, <1>8, <1>9
<1>12. \A k \in DOMAIN left : left[k] = es[f[k]] /\ es[f[k]].seg \notin ids
  BY <1>5, <1>8, <1>9
<1>13. \A i \in DOMAIN es : es[i].seg \notin ids => \E k \in DOMAIN left : f[k] = i
  BY <1>6, <1>8, <1>9
<1>14. Remains(es, ids, left, f)
  BY <1>8, <1>9, <1>11, <1>12, <1>13 DEF Remains
<1> QED
  BY <1>10, <1>14

\* What a group's publish leaves: the entries of the other ids, each at one
\* position, and after them what it adds.
Replaced(es, remove, added, next, n, f) ==
  /\ n \in Nat /\ Len(next) = n + Len(added)
  /\ f \in [1 .. n -> DOMAIN es]
  /\ \A k \in 1 .. n : next[k] = es[f[k]] /\ es[f[k]].seg \notin remove
  /\ \A j, k \in 1 .. n : f[j] = f[k] => j = k
  /\ \A i \in DOMAIN es : es[i].seg \notin remove => \E k \in 1 .. n : f[k] = i
  /\ \A j \in 1 .. Len(added) : next[n + j] = added[j]

LEMMA ReplacedIs ==
  ASSUME NEW S, NEW es \in Seq(S), NEW remove, NEW added \in Seq(S),
         NEW next \in withReplacedGroup(es, remove, added)
  PROVE  /\ next \in Seq(S)
         /\ \E n, f : Replaced(es, remove, added, next, n, f)
<1>1. PICK kept \in Unloaded(es, remove) : next = kept \o added
  BY DEF withReplacedGroup
<1>2. kept \in Seq(S)
  BY UnloadedIs
<1>3. PICK f : Remains(es, remove, kept, f)
  BY UnloadedIs
<1>4. DOMAIN kept = 1 .. Len(kept) /\ Len(kept) \in Nat /\ Len(added) \in Nat
  BY <1>2
<1>5. next \in Seq(S) /\ Len(next) = Len(kept) + Len(added)
  BY <1>1, <1>2, ConcatProperties
<1>6. \A k \in 1 .. Len(kept) : next[k] = kept[k]
  BY <1>1, <1>2, ConcatProperties
<1>7. \A j \in 1 .. Len(added) : next[Len(kept) + j] = added[j]
  BY <1>1, <1>2, <1>4, ConcatProperties
<1>8. Replaced(es, remove, added, next, Len(kept), f)
  BY <1>3, <1>4, <1>5, <1>6, <1>7 DEF Replaced, Remains
<1> QED
  BY <1>5, <1>8

\* A set of numbers that is not empty has a greatest, below a bound.
LEMMA Greatest ==
  ASSUME NEW n \in Nat, NEW A \in SUBSET (1 .. n), A # {}
  PROVE  \E m \in A : \A k \in A : k <= m
<1> DEFINE U == {k \in 1 .. n : \E j \in A : k <= j}
           m == Cardinality(U)
<1>1. IsFiniteSet(1 .. n) /\ U \subseteq 1 .. n
  BY FS_Interval
<1>2. IsFiniteSet(U) /\ m \in Nat
  BY <1>1, FS_Subset, FS_CardinalityType
<1>3. ASSUME NEW k \in U
      PROVE  k \in 1 .. m
  <2>1. k \in Nat /\ k >= 1 /\ 1 .. k \subseteq U
    OBVIOUS
  <2> HIDE DEF U
  <2>2. Cardinality(1 .. k) = k
    BY <2>1, FS_Interval
  <2>3. Cardinality(1 .. k) <= m
    BY <1>2, <2>1, FS_Subset
  <2> HIDE DEF m
  <2> QED
    BY <1>2, <2>1, <2>2, <2>3
<1> HIDE DEF U
<1>4. IsFiniteSet(1 .. m) /\ Cardinality(1 .. m) = m /\ U \subseteq 1 .. m
  <2>1. U \subseteq 1 .. m
    BY <1>3
  <2> HIDE DEF m
  <2> QED
    BY <1>2, <2>1, FS_Interval
<1>5. U = 1 .. m
  BY <1>2, <1>4, FS_Subset
<1> HIDE DEF m
<1>6. A \subseteq U
  BY DEF U
<1>7. m \in U
  <2>1. PICK a \in A : a \in 1 .. m
    BY <1>5, <1>6
  <2> QED
    BY <1>2, <1>5, <2>1
<1>8. PICK j \in A : m <= j
  BY <1>7 DEF U
<1>9. j <= m
  BY <1>5, <1>6
<1> QED
  BY <1>2, <1>5, <1>6, <1>8, <1>9
-----------------------------------------------------------------------------
(* What a step leaves alone.                                                *)

LEMMA PartType ==
  ASSUME layout \in Layouts
  PROVE  layout.part \in [Docs -> Nat]
BY StoreAssumption

LEMMA EntryTypes ==
  ASSUME set \in Seq(Entries)
  PROVE  /\ Len(set) \in Nat /\ DOMAIN set = 1 .. Len(set)
         /\ \A i \in DOMAIN set : set[i] \in Entries /\ set[i].seg \in Segs
         /\ IdsOf(set) \subseteq Segs
         /\ \A i \in DOMAIN set : \A p \in set[i].seg : p[1] \in Docs /\ p[2] \in Nat
<1>1. \A i \in DOMAIN set : set[i] \in Entries
  OBVIOUS
<1>2. \A i \in DOMAIN set : set[i].seg \in Segs
  BY <1>1 DEF Entries
<1>3. \A i \in DOMAIN set : \A p \in set[i].seg : p[1] \in Docs /\ p[2] \in Nat
  BY <1>2 DEF Segs
<1>4. IdsOf(set) \subseteq Segs
  BY <1>2 DEF IdsOf
<1> QED
  BY <1>1, <1>2, <1>3, <1>4

\* The documents and numbers in the backlog and in the drain's copies of it.
LEMMA BacklogTypes ==
  ASSUME Shapes
  PROVE  /\ \A q \in pending \cup drain.pending :
              q.pair[1] \in Docs /\ q.pair[2] \in Nat /\ q.seq \in Nat
         /\ \A t \in tails \cup drain.tails :
              t.seq \in Nat /\ t.seg \in Segs /\ \A p \in t.seg : p[1] \in Docs /\ p[2] \in Nat
         /\ \A p \in drain.docs : p[1] \in Docs /\ p[2] \in Nat
         /\ \A k \in DOMAIN drain.out : drain.out[k] \in Segs
         /\ \A k \in DOMAIN drain.out : \A p \in drain.out[k] : p[1] \in Docs /\ p[2] \in Nat
<1>1. /\ pending \subseteq Queued /\ drain.pending \subseteq Queued
      /\ tails \subseteq Sealed /\ drain.tails \subseteq Sealed
      /\ drain.docs \in Segs /\ drain.out \in Seq(Segs)
  BY DEF Shapes, Drains
<1>2. \A q \in pending \cup drain.pending :
         q.pair[1] \in Docs /\ q.pair[2] \in Nat /\ q.seq \in Nat
  BY <1>1 DEF Queued
<1>3. \A t \in tails \cup drain.tails : t.seq \in Nat /\ t.seg \in Segs
  BY <1>1 DEF Sealed
<1>4. \A k \in DOMAIN drain.out : drain.out[k] \in Segs
  BY <1>1
<1>5. \A s \in Segs : \A p \in s : p[1] \in Docs /\ p[2] \in Nat
  BY DEF Segs
<1> QED
  BY <1>1, <1>2, <1>3, <1>4, <1>5

\* A step that leaves the backlog and the drain's snapshot of it alone: at
\* most a write begins, with a version and a number of its own.
SameBacklog ==
  /\ pending' = pending /\ tails' = tails
  /\ drain'.pending = drain.pending /\ drain'.tails = drain.tails
  /\ seq \in Nat /\ seq' \in Nat /\ seq <= seq'
  /\ \A e \in Docs :
       /\ Deleted(e) => Deleted(e)'
       /\ Idle(e)' => Idle(e) /\ latest'[e] = latest[e]
       /\ ~ Idle(e)' =>
            \/ ~ Idle(e) /\ latest'[e] = latest[e] /\ writer'[e].seq = writer[e].seq
            \/ latest'[e] = latest[e] + 1 /\ writer'[e].seq = seq + 1

LEMMA BacklogKept ==
  ASSUME Inv, SameBacklog
  PROVE  Backlog' /\ LastIsQueued' /\ Snapshot' /\ Tails'
<1> USE DEF SameBacklog
<1>1. \A e \in Docs : latest[e] \in Nat
  BY DEF Inv, Shapes
<1>2. \A q \in pending \cup drain.pending :
         q.pair[1] \in Docs /\ q.pair[2] \in Nat /\ q.seq \in Nat
  BY BacklogTypes DEF Inv
<1>3. \A t \in tails : \A p \in t.seg : p[1] \in Docs /\ p[2] \in Nat
  BY BacklogTypes DEF Inv
<1>4. Backlog'
  <2> SUFFICES ASSUME NEW q \in pending \cup drain.pending
               PROVE  /\ q.seq \in 1 .. seq'
                      /\ q.pair[2] <= latest'[q.pair[1]]
                      /\ ~ Idle(q.pair[1])' => /\ q.pair[2] < latest'[q.pair[1]]
                                               /\ q.seq < writer'[q.pair[1]].seq
    BY DEF Inv, Backlog
  <2>1. /\ q.seq \in 1 .. seq /\ q.pair[2] <= latest[q.pair[1]]
        /\ ~ Idle(q.pair[1]) => /\ q.pair[2] < latest[q.pair[1]]
                                /\ q.seq < writer[q.pair[1]].seq
    BY DEF Inv, Backlog
  <2> QED
    BY <1>1, <1>2, <2>1
<1>5. LastIsQueued'
  <2> SUFFICES ASSUME NEW q \in pending, ~ Deleted(q.pair[1])', Idle(q.pair[1])'
               PROVE  \E r \in pending : r.pair = <<q.pair[1], latest'[q.pair[1]]>>
    BY DEF LastIsQueued
  <2>1. q.pair[1] \in Docs
    BY <1>2
  <2>2. ~ Deleted(q.pair[1]) /\ Idle(q.pair[1]) /\ latest'[q.pair[1]] = latest[q.pair[1]]
    BY <2>1
  <2>3. PICK r \in pending : r.pair = <<q.pair[1], latest[q.pair[1]]>>
    BY <2>2 DEF Inv, LastIsQueued
  <2> QED
    BY <2>2, <2>3
<1>6. Snapshot'
  BY <1>2 DEF Inv, Snapshot
<1>7. Tails'
  <2>1. drain'.tails \subseteq tails'
        /\ \A t \in tails' : \A q \in drain'.pending : t.seg = {q.pair} => t \in drain'.tails
    BY DEF Inv, Tails
  <2> SUFFICES ASSUME NEW t \in tails
               PROVE  /\ t.seq \in 1 .. seq'
                      /\ \E p \in t.seg :
                           /\ t.seg = {p}
                           /\ p[2] <= latest'[p[1]]
                           /\ ~ Idle(p[1])' => p[2] < latest'[p[1]]
                           /\ Deleted(p[1])' \/ \E q \in pending : q.pair = p
                           /\ t \in drain.tails =>
                                Deleted(p[1])' \/ \E q \in drain.pending : q.pair = p
    BY <2>1 DEF Tails
  <2>2. t.seq \in 1 .. seq
    BY DEF Inv, Tails
  <2>3. PICK p \in t.seg :
           /\ t.seg = {p}
           /\ p[2] <= latest[p[1]]
           /\ ~ Idle(p[1]) => p[2] < latest[p[1]]
           /\ Deleted(p[1]) \/ \E q \in pending : q.pair = p
           /\ t \in drain.tails => Deleted(p[1]) \/ \E q \in drain.pending : q.pair = p
    BY DEF Inv, Tails
  <2>4. p[1] \in Docs /\ p[2] \in Nat
    BY <1>3
  <2>5. p[2] <= latest'[p[1]] /\ (~ Idle(p[1])' => p[2] < latest'[p[1]])
    BY <1>1, <2>3, <2>4
  <2>6. t.seq \in 1 .. seq'
    BY <2>2
  <2> QED
    BY <2>3, <2>4, <2>5, <2>6
<1> QED
  BY <1>4, <1>5, <1>6, <1>7

\* A client's step: it only takes documents from those that are quiet or at
\* rest, and writes no version of the ones that stay.  A blanked one stays
\* queued.
ClientStep ==
  /\ drain' = drain /\ layout' = layout
  /\ \A e \in Docs :
       /\ Deleted(e) => Deleted(e)'
       /\ Quiet(e)' => Quiet(e) /\ latest'[e] = latest[e]
       /\ Resting(e)' => Resting(e) /\ latest'[e] = latest[e]
       /\ Blanked(e) => Blanked(e)' \/ Deleted(e)'

\* At most live bits change.
SameSegs ==
  /\ DOMAIN set' = DOMAIN set
  /\ \A i \in DOMAIN set : set'[i].seg = set[i].seg

LEMMA SupplyKept ==
  ASSUME Inv, ClientStep
  PROVE  Supply'
<1>1. \A p \in drain.docs : p[1] \in Docs
  BY BacklogTypes DEF Inv
<1>2. \A q \in drain.pending : q.pair[1] \in Docs
  BY BacklogTypes DEF Inv
<1>3. Supplied' = Supplied
  BY DEF ClientStep, Supplied
<1> QED
  BY <1>1, <1>2, <1>3 DEF Inv, Supply, ClientStep

\* What the drain derives from its own record and the layout.
DrainDerived ==
  /\ Supplied' = Supplied /\ TailIds' = TailIds /\ Outs' = Outs /\ Freshes' = Freshes
  /\ Parts' = Parts
  /\ \A d : PartOf(d)' = PartOf(d)
  /\ \A s : PartsOf(s)' = PartsOf(s)
  /\ \A p : Fresh(p)' = Fresh(p)

LEMMA DrainDerivedKept ==
  ASSUME drain' = drain, layout' = layout
  PROVE  DrainDerived
BY DEF DrainDerived, Supplied, TailIds, Outs, Freshes, Fresh, Parts, PartOf, PartsOf

LEMMA BuiltKept ==
  ASSUME Inv, ClientStep
  PROVE  Built' /\ Retiring'
<1>1. drain' = drain /\ DrainDerived
  BY DrainDerivedKept DEF ClientStep
<1>2. Built'
  <2>1. \A k \in DOMAIN drain.out : \A p \in drain.out[k] : p[1] \in Docs
    BY BacklogTypes DEF Inv
  <2>2. \A e \in Docs : Resting(e)' => Resting(e) /\ latest'[e] = latest[e]
    BY DEF ClientStep
  <2>3. drain.at = "swap" => Built
    BY DEF Inv
  <2> QED
    BY <1>1, <2>1, <2>2, <2>3 DEF Built, DrainDerived
<1>3. Retiring'
  BY <1>1 DEF Inv, Retiring, DrainDerived
<1> QED
  BY <1>2, <1>3

LEMMA StructureKept ==
  ASSUME Inv, ClientStep, SameSegs,
         \A e \in Docs : drain.at \in Before /\ writer[e].seg \notin drain.union =>
            writer'[e].seg \notin drain.union
  PROVE  Grouped' /\ Disjoint'
<1>1. drain' = drain /\ DrainDerived
  BY DrainDerivedKept DEF ClientStep
<1>2. IdsOf(set') = IdsOf(set)
  BY DEF SameSegs, IdsOf
<1>3. \A i \in DOMAIN set : \A p \in set[i].seg : p[1] \in Docs /\ p[2] \in Nat
  BY EntryTypes DEF Inv, Shapes
<1>4. Grouped'
  <2> SUFFICES ASSUME drain.at \in Before
               PROVE  \A i \in DOMAIN set : \A p \in set[i].seg :
                        PartOf(p[1]) \in drain.work /\ set[i].seg \notin drain.union =>
                          \/ set[i].seg \in TailIds
                          \/ /\ writer'[p[1]].seg \notin drain.union
                             /\ ~ Quiet(p[1])'
                             /\ p \notin drain.docs
    BY <1>1, <1>2 DEF Inv, Grouped, DrainDerived, SameSegs
  <2> QED
    BY <1>3 DEF Inv, Grouped, ClientStep
<1>5. Disjoint'
  BY <1>1 DEF Inv, Disjoint, SameSegs, DrainDerived
<1> QED
  BY <1>4, <1>5

LEMMA LiveKept ==
  ASSUME Inv, ClientStep, set' = set,
         \A e \in Docs : writer'[e].at = "supersede" => writer'[e] = writer[e]
  PROVE  Live' /\ Carried' /\ Rebuilt' /\ Exact'
<1>1. drain' = drain /\ DrainDerived
  BY DrainDerivedKept DEF ClientStep
<1>2. \A d, X : Alive(d, X)' <=> Alive(d, X)
  BY DEF Alive, LivePairs, DocsOf
<1>3. Live'
  BY <1>1, <1>2 DEF Inv, Live, DrainDerived, ClientStep
<1>4. Carried'
  BY <1>1, <1>2 DEF Inv, Carried, DrainDerived, ClientStep
<1>5. \A p \in drain.docs : p[1] \in Docs
  BY BacklogTypes DEF Inv
<1>6. Supplied \subseteq Docs
  BY <1>5 DEF Supplied
<1>7. Rebuilt'
  BY <1>1, <1>2, <1>6 DEF Inv, Rebuilt, DrainDerived, ClientStep
<1>8. \A i \in DOMAIN set : \A p \in LivePairs(set[i]) : p[1] \in Docs
  BY EntryTypes DEF Inv, Shapes, LivePairs
<1>9. Exact'
  BY <1>1, <1>8 DEF Inv, Exact, DrainDerived, ClientStep
<1> QED
  BY <1>3, <1>4, <1>7, <1>9
-----------------------------------------------------------------------------
(* Writes.                                                                  *)

LEMMA BeginWriteStep ==
  ASSUME Inv, layout \in Layouts, NEW d \in Docs, BeginWrite(d)
  PROVE  Inv'
<1> DEFINE s == {<<d, latest[d] + 1>>}
<1> USE DEF Inv, Shapes
<1>1. /\ seq' = seq + 1 /\ seq \in Nat
      /\ latest' = [latest EXCEPT ![d] = @ + 1]
      /\ latest' \in [Docs -> Nat]
      /\ latest'[d] = latest[d] + 1 /\ latest[d] \in Nat
      /\ \A e \in Docs \ {d} : latest'[e] = latest[e]
  BY DEF BeginWrite
<1>2. /\ Idle(d) /\ ~ Deleted(d)
      /\ UNCHANGED <<set, mask, reclaim, pending, tails, del, drain, layout, owed, upsets>>
  BY DEF BeginWrite, Idle, Deleted, At, store, backlog, env
<1>3. /\ writer' = [writer EXCEPT ![d] =
           [at |-> "seal", seq |-> seq + 1, seg |-> s,
            victim |-> {set[i].seg : i \in Newest(set, d)}, tail |-> FALSE]]
      /\ \A i \in Newest(set, d) : i \in DOMAIN set /\ d \in DocsOf(set[i].seg)
  BY <1>1 DEF BeginWrite, Newest, Holders
<1>4. {set[i].seg : i \in Newest(set, d)} \subseteq Segs
  BY <1>3, EntryTypes
<1>5. s \in Segs
  BY <1>1 DEF Segs
<1>6. /\ writer' \in [Docs -> Writers]
      /\ \A e \in Docs \ {d} : writer'[e] = writer[e]
      /\ writer'[d].at = "seal" /\ writer'[d].seg = s /\ writer'[d].seq = seq + 1
      /\ writer'[d].victim = {set[i].seg : i \in Newest(set, d)}
  BY <1>3, <1>4, <1>5 DEF Writers
<1>7. Shapes'
  <2>1. seq' \in Nat
    BY <1>1
  <2>2. set' \in Seq(Entries) /\ mask' \subseteq Docs /\ reclaim' = {} /\ owed' = {}
    BY <1>2
  <2>3. pending' \subseteq Queued /\ tails' \subseteq Sealed
    BY <1>2
  <2>4. drain' \in Drains /\ del' \in [Docs -> Deletes]
    BY <1>2
  <2> QED
    BY <1>1, <1>6, <2>1, <2>2, <2>3, <2>4
<1>8. /\ \A e : Deleted(e)' <=> Deleted(e)
      /\ \A e \in Docs : Idle(e)' => Idle(e) /\ e # d
      /\ \A e \in Docs \ {d} : Idle(e) => Idle(e)'
      /\ ~ Idle(d)'
  BY <1>2, <1>6 DEF Deleted, Idle, At
<1>9. Masks'
  BY <1>2, <1>8 DEF Masks
<1>10. InHand'
  <2> SUFFICES ASSUME NEW e \in Docs
               PROVE  /\ Idle(e)' => writer'[e].seg = {}
                      /\ ~ Idle(e)' => /\ writer'[e].seg = {<<e, latest'[e]>>}
                                       /\ writer'[e].seq \in 1 .. seq'
                      /\ \A t \in writer'[e].victim : e \in DocsOf(t)
    BY DEF InHand
  <2>1. CASE e = d
    BY <1>1, <1>3, <1>6, <1>8, <2>1
  <2>2. CASE e # d
    BY <1>1, <1>6, <1>8, <2>2 DEF InHand, Writers
  <2> QED
    BY <2>1, <2>2
<1>11. \A i \in DOMAIN set : \A p \in set[i].seg : p[1] \in Docs /\ p[2] \in Nat
  BY EntryTypes
<1>12. Resident'
  BY <1>1, <1>2, <1>6, <1>11 DEF Resident
<1>13. Backlog' /\ LastIsQueued' /\ Snapshot' /\ Tails'
  <2>1. SameBacklog
    BY <1>1, <1>2, <1>6, <1>8 DEF SameBacklog
  <2> QED
    BY <2>1, BacklogKept
<1>14. ClientStep
  <2>1. /\ \A e \in Docs : Quiet(e)' => Quiet(e) /\ e # d
        /\ \A e \in Docs : Resting(e)' => Resting(e) /\ e # d
    BY <1>2, <1>8 DEF Quiet, Resting
  <2> QED
    BY <1>1, <1>2, <1>8, <2>1 DEF ClientStep, Blanked
<1>15. Supply'
  BY <1>14, SupplyKept
<1>16. SameSegs
  BY <1>2 DEF SameSegs
<1>17. drain.at \in Before => s \notin drain.union
  <2>1. \A i \in DOMAIN set : <<d, latest[d] + 1>> \notin set[i].seg
    BY <1>1, <1>11 DEF Resident
  <2> QED
    BY <2>1 DEF IdsOf, Grouped
<1>18. Grouped' /\ Disjoint' /\ Built' /\ Retiring'
  BY <1>6, <1>14, <1>16, <1>17, StructureKept, BuiltKept
<1>19. Live' /\ Carried' /\ Rebuilt' /\ Exact'
  <2>1. set' = set
    BY <1>2
  <2>2. \A e \in Docs : writer'[e].at = "supersede" => writer'[e] = writer[e]
    BY <1>6
  <2> QED
    BY <1>14, <2>1, <2>2, LiveKept
<1> QED
  BY <1>7, <1>9, <1>10, <1>12, <1>13, <1>15, <1>18, <1>19

LEMMA SealStep ==
  ASSUME Inv, layout \in Layouts, NEW d \in Docs, Seal(d)
  PROVE  Inv'
<1> DEFINE s == {<<d, latest[d]>>}
           n == Len(set) + 1
<1> USE DEF Inv, Shapes
<1>1. /\ writer[d].at = "seal" /\ writer[d].seg = s /\ latest[d] \in Nat
      /\ UNCHANGED <<mask, reclaim, pending, tails, del, seq, latest, drain, layout, owed, upsets>>
  BY DEF Seal, At, InHand, Idle, store, backlog, env
<1>2. /\ Len(set) \in Nat /\ DOMAIN set = 1 .. Len(set)
      /\ \A i \in DOMAIN set : \A p \in set[i].seg : p[1] \in Docs /\ p[2] \in Nat
  BY EntryTypes
<1>3. \A i \in DOMAIN set : <<d, latest[d]>> \notin set[i].seg
  BY <1>1, <1>2 DEF Resident
<1>4. s \notin IdsOf(set)
  BY <1>3 DEF IdsOf
<1>5. Entry(s, {}, NoRecord) \in Entries
  BY <1>1 DEF Entry, NoRecord, Entries, Records, Segs
<1>6. /\ set' \in Seq(Entries) /\ DOMAIN set' = 1 .. n
      /\ \A i \in DOMAIN set : set'[i] = set[i] /\ i \in DOMAIN set' /\ i # n
      /\ \A i \in DOMAIN set' : i # n => i \in DOMAIN set
      /\ set'[n] = Entry(s, {}, NoRecord) /\ n \in DOMAIN set'
  <2>1. set' = Append(set, Entry(s, {}, NoRecord))
    BY <1>1, <1>4 DEF Seal
  <2> HIDE DEF s
  <2> QED
    BY <1>2, <1>5, <2>1, AppendProperties
<1>7. set'[n].seg = s /\ set'[n].dead = {} /\ LivePairs(set'[n]) = s
  BY <1>6 DEF Entry, LivePairs
<1>8. writer' = [writer EXCEPT ![d].at = "supersede", ![d].tail = (s \notin IdsOf(set))]
  BY <1>1 DEF Seal
<1>9. /\ writer' \in [Docs -> Writers]
      /\ \A e \in Docs \ {d} : writer'[e] = writer[e]
      /\ writer'[d].at = "supersede" /\ writer'[d].seg = s
      /\ writer'[d].seq = writer[d].seq /\ writer'[d].victim = writer[d].victim
  BY <1>1, <1>8 DEF Writers
<1>10. Shapes'
  <2>1. mask' \subseteq Docs /\ reclaim' = {} /\ owed' = {} /\ seq' \in Nat
    BY <1>1
  <2>2. pending' \subseteq Queued /\ tails' \subseteq Sealed /\ latest' \in [Docs -> Nat]
    BY <1>1
  <2>3. drain' \in Drains /\ del' \in [Docs -> Deletes]
    BY <1>1
  <2> QED
    BY <1>6, <1>9, <2>1, <2>2, <2>3
<1>11. /\ \A e : Deleted(e)' <=> Deleted(e)
       /\ \A e \in Docs : Idle(e)' <=> Idle(e)
       /\ ~ Idle(d)
  BY <1>1, <1>9 DEF Deleted, Idle, At
<1>12. Masks'
  BY <1>1, <1>11 DEF Masks
<1>13. InHand'
  BY <1>1, <1>9, <1>11 DEF InHand
<1>14. Resident'
  <2> SUFFICES ASSUME NEW i \in DOMAIN set'
               PROVE  /\ set'[i].seg # {}
                      /\ set'[i].dead \subseteq DocsOf(set'[i].seg)
                      /\ \A p \in set'[i].seg :
                           /\ p[2] <= latest'[p[1]]
                           /\ writer'[p[1]].at = "seal" => p[2] < latest'[p[1]]
    BY DEF Resident
  <2>1. CASE i = n
    <3>1. \A p \in s : p[1] = d /\ p[2] = latest[d]
      OBVIOUS
    <3>2. set'[i].seg = s /\ set'[i].dead = {} /\ latest'[d] = latest[d] /\ s # {}
      BY <1>1, <1>7, <2>1
    <3> HIDE DEF s
    <3> QED
      BY <1>1, <1>9, <3>1, <3>2
  <2>2. CASE i # n
    BY <1>1, <1>2, <1>6, <1>9, <2>2 DEF Resident
  <2> QED
    BY <2>1, <2>2
<1>15. Backlog' /\ LastIsQueued' /\ Snapshot' /\ Tails'
  <2>1. SameBacklog
    BY <1>1, <1>9, <1>11 DEF SameBacklog
  <2> QED
    BY <2>1, BacklogKept
<1>16. ClientStep
  <2>1. \A e \in Docs : (Quiet(e)' => Quiet(e)) /\ (Resting(e)' => Resting(e))
    BY <1>1, <1>11 DEF Quiet, Resting
  <2> QED
    BY <1>1, <1>11, <2>1 DEF ClientStep, Blanked
<1>17. Supply' /\ Built' /\ Retiring'
  BY <1>16, SupplyKept, BuiltKept
<1>18. drain' = drain /\ DrainDerived
  BY <1>1, DrainDerivedKept
<1>19. <<d, latest[d]>> \notin drain.docs
  <2>1. \A q \in drain.pending : q.pair # <<d, latest[d]>>
    BY <1>1, <1>11, BacklogTypes DEF Backlog
  <2> QED
    BY <2>1 DEF Supply
<1>20. drain.at \in Before => s \notin drain.union
  BY <1>4 DEF Grouped
<1>21. Grouped'
  <2> SUFFICES ASSUME drain.at \in Before
               PROVE  /\ drain.union \subseteq IdsOf(set')
                      /\ \A i \in DOMAIN set' : \A p \in set'[i].seg :
                           PartOf(p[1]) \in drain.work /\ set'[i].seg \notin drain.union =>
                             \/ set'[i].seg \in TailIds
                             \/ /\ writer'[p[1]].seg \notin drain.union
                                /\ ~ Quiet(p[1])'
                                /\ p \notin drain.docs
    BY <1>18 DEF Grouped, DrainDerived
  <2>1. drain.union \subseteq IdsOf(set')
    <3>1. IdsOf(set) \subseteq IdsOf(set')
      BY <1>6 DEF IdsOf
    <3> QED
      BY <3>1 DEF Grouped
  <2> SUFFICES ASSUME NEW i \in DOMAIN set', NEW p \in set'[i].seg,
                      PartOf(p[1]) \in drain.work, set'[i].seg \notin drain.union
               PROVE  \/ set'[i].seg \in TailIds
                      \/ /\ writer'[p[1]].seg \notin drain.union
                         /\ ~ Quiet(p[1])'
                         /\ p \notin drain.docs
    BY <2>1
  <2>2. CASE i = n
    <3>1. p = <<d, latest[d]>> /\ p[1] = d
      BY <1>7, <2>2
    <3>2. ~ Quiet(d)'
      BY <1>11 DEF Quiet
    <3> QED
      BY <1>9, <1>19, <1>20, <3>1, <3>2
  <2>3. CASE i # n
    <3>1. i \in DOMAIN set /\ p \in set[i].seg /\ set[i].seg = set'[i].seg
      BY <1>6, <2>3
    <3>2. p[1] \in Docs /\ writer'[p[1]].seg = writer[p[1]].seg
      BY <1>1, <1>2, <1>9, <3>1
    <3> QED
      BY <1>16, <3>1, <3>2 DEF Grouped, ClientStep
  <2> QED
    BY <2>2, <2>3
<1>22. Disjoint'
  <2> SUFFICES ASSUME NEW i \in DOMAIN set', NEW j \in DOMAIN set', NEW p \in set'[i].seg,
                      p \in set'[j].seg, i # j
               PROVE  /\ drain.at \in After
                      /\ p[1] \in Supplied
                      /\ \/ set'[i].seg \in TailIds \ Outs /\ set'[j].seg \in Outs
                         \/ set'[j].seg \in TailIds \ Outs /\ set'[i].seg \in Outs
    BY <1>18 DEF Disjoint, DrainDerived
  <2>1. i # n /\ j # n
    <3>1. \A r \in set'[n].seg : r = <<d, latest[d]>>
      BY <1>7
    <3>2. CASE i = n
      <4>1. j \in DOMAIN set /\ set'[j] = set[j] /\ p = <<d, latest[d]>>
        BY <1>6, <3>1, <3>2
      <4> QED
        BY <1>3, <4>1
    <3>3. CASE j = n
      <4>1. i \in DOMAIN set /\ set'[i] = set[i] /\ p = <<d, latest[d]>>
        BY <1>6, <3>1, <3>3
      <4> QED
        BY <1>3, <4>1
    <3> QED
      BY <3>2, <3>3
  <2>2. i \in DOMAIN set /\ j \in DOMAIN set /\ set'[i] = set[i] /\ set'[j] = set[j]
    BY <1>6, <2>1
  <2> QED
    BY <2>2 DEF Disjoint
<1>23. \A e, X : Alive(e, X) => Alive(e, X)'
  BY <1>6 DEF Alive
<1>24. Live'
  BY <1>16, <1>18, <1>23 DEF Live, DrainDerived, ClientStep
<1>25. Carried'
  BY <1>9, <1>16, <1>18, <1>20, <1>23 DEF Carried, DrainDerived, ClientStep, Before
<1>26. Rebuilt'
  <2>1. Supplied \subseteq Docs
    BY BacklogTypes DEF Supplied
  <2> QED
    BY <1>16, <1>18, <1>23, <2>1 DEF Rebuilt, DrainDerived, ClientStep
<1>27. Exact'
  <2> SUFFICES ASSUME NEW i \in DOMAIN set', NEW p \in LivePairs(set'[i])
               PROVE  \/ p[2] = latest'[p[1]]
                      \/ /\ ~ Resting(p[1])'
                         /\ drain.at \in After /\ Quiet(p[1])' /\ p[1] \in Supplied =>
                              set'[i].seg \in TailIds \ Outs
                         /\ drain.at \in Late => ~ (Quiet(p[1])' /\ p[1] \in Supplied)
    BY <1>18 DEF Exact, DrainDerived
  <2>1. CASE i = n
    BY <1>1, <1>7, <2>1
  <2>2. CASE i # n
    <3>1. i \in DOMAIN set /\ set'[i] = set[i] /\ p \in LivePairs(set[i]) /\ p \in set[i].seg
      BY <1>6, <2>2 DEF LivePairs
    <3>2. p[1] \in Docs
      BY <1>2, <3>1
    <3> QED
      BY <1>1, <1>16, <3>1, <3>2 DEF Exact, ClientStep
  <2> QED
    BY <2>1, <2>2
<1> QED
  BY <1>10, <1>12, <1>13, <1>14, <1>15, <1>17, <1>21, <1>22, <1>24, <1>25, <1>26, <1>27

\* At most the live bits of one document change, and they are its holders'.
OneDocument(d) ==
  /\ SameSegs
  /\ set' \in Seq(Entries)
  /\ \A i \in DOMAIN set :
       /\ set'[i].dead \subseteq DocsOf(set[i].seg)
       /\ \A e \in Docs \ {d} : e \in set'[i].dead <=> e \in set[i].dead

LEMMA OthersKept ==
  ASSUME Inv, NEW d \in Docs, OneDocument(d)
  PROVE  /\ \A e \in Docs \ {d} : \A X : Alive(e, X)' <=> Alive(e, X)
         /\ \A i \in DOMAIN set : \A p \in LivePairs(set'[i]) :
              p[1] # d => p \in LivePairs(set[i])
<1>1. \A i \in DOMAIN set : \A p \in set[i].seg : p[1] \in Docs /\ p[2] \in Nat
  BY EntryTypes DEF Inv, Shapes
<1>2. \A i \in DOMAIN set : \A p : p[1] # d =>
         (p \in LivePairs(set'[i]) <=> p \in LivePairs(set[i]))
  BY <1>1 DEF OneDocument, SameSegs, LivePairs
<1>3. \A i \in DOMAIN set : \A e \in Docs \ {d} :
         e \in DocsOf(LivePairs(set'[i])) <=> e \in DocsOf(LivePairs(set[i]))
  BY <1>2 DEF DocsOf
<1>4. \A e \in Docs \ {d} : \A X : Alive(e, X)' <=> Alive(e, X)
  BY <1>3 DEF Alive, OneDocument, SameSegs
<1> QED
  BY <1>2, <1>4

LEMMA SupersedeBits ==
  ASSUME Inv, NEW d \in Docs, Supersede(d)
  PROVE  /\ OneDocument(d)
         /\ \A i \in DOMAIN set :
              set[i].seg = writer[d].seg => d \in DocsOf(LivePairs(set'[i]))
         /\ writer[d].seg \notin IdsOf(set) => set' = set
<1> DEFINE s == writer[d].seg
           v == writer[d].victim \ {s}
           es == SetLive(set, s, d)
<1> USE DEF Inv, Shapes
<1>1. /\ DOMAIN set = 1 .. Len(set) /\ Len(set) \in Nat
      /\ \A i \in DOMAIN set : set[i] \in Entries
  BY EntryTypes
<1>2. /\ writer[d].at = "supersede" /\ latest[d] \in Nat
      /\ s = {<<d, latest[d]>>} /\ d \in DocsOf(s)
      /\ \A t \in v : d \in DocsOf(t)
  <2>1. writer[d].at = "supersede" /\ latest[d] \in Nat /\ s = {<<d, latest[d]>>}
    BY DEF Supersede, At, InHand, Idle
  <2>2. d \in DocsOf({<<d, latest[d]>>})
    BY DEF DocsOf
  <2> QED
    BY <2>1, <2>2 DEF InHand
<1> HIDE DEF s, v
<1>3. CASE s \notin IdsOf(set)
  <2>1. set' = set
    BY <1>3 DEF Supersede, s
  <2>2. OneDocument(d)
    BY <2>1 DEF OneDocument, SameSegs, Resident
  <2>3. \A i \in DOMAIN set : set[i].seg # s
    BY <1>3 DEF IdsOf
  <2> QED
    BY <2>1, <2>2, <2>3 DEF s
<1>4. CASE s \in IdsOf(set)
  <2>1. set' = SetDead(es, v, d)
    BY <1>4 DEF Supersede, s, v
  <2>2. /\ DOMAIN es = DOMAIN set
        /\ \A i \in DOMAIN set :
             /\ es[i].seg = set[i].seg /\ es[i].rec = set[i].rec
             /\ es[i].dead = IF set[i].seg = s THEN set[i].dead \ {d} ELSE set[i].dead
    BY DEF SetLive, WithDead, Entry
  <2> HIDE DEF es
  <2>3. /\ DOMAIN set' = DOMAIN set
        /\ \A i \in DOMAIN set : set'[i] = IF es[i].seg \in v
                                           THEN WithDead(es[i], es[i].dead \cup {d}) ELSE es[i]
    BY <2>1, <2>2 DEF SetDead
  <2>4. \A i \in DOMAIN set : es[i] \in Entries
    BY <1>1, <2>2 DEF Entries, es, SetLive, WithDead, Entry
  <2>5. ASSUME NEW i \in DOMAIN set
        PROVE  /\ set'[i].seg = set[i].seg
               /\ set'[i].dead = IF set[i].seg \in v THEN es[i].dead \cup {d} ELSE es[i].dead
               /\ set'[i] \in Entries
    <3>1. CASE es[i].seg \in v
      <4>1. set'[i] = [seg |-> es[i].seg, dead |-> es[i].dead \cup {d}, rec |-> es[i].rec]
        BY <2>3, <3>1 DEF WithDead, Entry
      <4>2. es[i].seg \in Segs /\ es[i].dead \subseteq Docs /\ es[i].rec \in Records
        BY <2>4 DEF Entries
      <4>3. set'[i] \in Entries
        BY <4>1, <4>2 DEF Entries
      <4>4. set'[i].seg = es[i].seg /\ set'[i].dead = es[i].dead \cup {d}
        BY <4>1
      <4> QED
        BY <2>2, <3>1, <4>3, <4>4
    <3>2. CASE es[i].seg \notin v
      <4>1. set'[i] = es[i]
        BY <2>3, <3>2
      <4> QED
        BY <2>2, <2>4, <3>2, <4>1
    <3> QED
      BY <3>1, <3>2
  <2>6. \A i \in DOMAIN set : set'[i] \in Entries
    BY <2>5
  <2>7. set' \in Seq(Entries)
    <3>1. set' = [i \in 1 .. Len(set) |-> set'[i]]
      BY <1>1, <2>1, <2>2 DEF SetDead
    <3>2. set' \in [1 .. Len(set) -> Entries]
      BY <1>1, <2>6, <3>1
    <3> QED
      BY <1>1, <3>2
  <2>8. \A i \in DOMAIN set : set[i].dead \subseteq DocsOf(set[i].seg)
    BY DEF Resident
  <2>9. OneDocument(d)
    <3>1. SameSegs
      BY <2>3, <2>5 DEF SameSegs
    <3>2. \A i \in DOMAIN set : set'[i].dead \subseteq DocsOf(set[i].seg)
      BY <1>2, <2>2, <2>5, <2>8
    <3>3. \A i \in DOMAIN set : \A e \in Docs \ {d} : e \in set'[i].dead <=> e \in set[i].dead
      BY <2>2, <2>5
    <3> QED
      BY <2>7, <3>1, <3>2, <3>3 DEF OneDocument
  <2>10. ASSUME NEW i \in DOMAIN set, set[i].seg = s
         PROVE  d \in DocsOf(LivePairs(set'[i]))
    <3>1. d \notin set'[i].dead
      BY <2>2, <2>5, <2>10 DEF v
    <3>2. <<d, latest[d]>> \in set'[i].seg
      BY <1>2, <2>5, <2>10
    <3>3. <<d, latest[d]>> \in LivePairs(set'[i])
      BY <3>1, <3>2 DEF LivePairs
    <3> QED
      BY <3>3 DEF DocsOf
  <2> QED
    BY <1>4, <2>9, <2>10 DEF s
<1> QED
  BY <1>3, <1>4

LEMMA SupersedeStep ==
  ASSUME Inv, layout \in Layouts, NEW d \in Docs, Supersede(d)
  PROVE  Inv'
<1> DEFINE s == {<<d, latest[d]>>}
<1> USE DEF Inv, Shapes
<1>1. /\ writer[d].at = "supersede" /\ writer[d].seg = s /\ latest[d] \in Nat
      /\ UNCHANGED <<mask, reclaim, pending, tails, del, seq, latest, drain, layout, owed, upsets>>
  BY DEF Supersede, At, InHand, Idle, store, backlog, env
<1>2. /\ OneDocument(d)
      /\ \A i \in DOMAIN set : set[i].seg = s => d \in DocsOf(LivePairs(set'[i]))
      /\ s \notin IdsOf(set) => set' = set
  BY <1>1, SupersedeBits
<1>3. SameSegs /\ set' \in Seq(Entries)
  BY <1>2 DEF OneDocument
<1>4. /\ writer' = [writer EXCEPT ![d].at = "record"]
      /\ writer' \in [Docs -> Writers]
      /\ \A e \in Docs \ {d} : writer'[e] = writer[e]
      /\ writer'[d].at = "record" /\ writer'[d].seg = s
      /\ writer'[d].seq = writer[d].seq /\ writer'[d].victim = writer[d].victim
  BY <1>1 DEF Supersede, Writers
<1>5. Shapes'
  <2>1. mask' \subseteq Docs /\ reclaim' = {} /\ owed' = {} /\ seq' \in Nat
    BY <1>1
  <2>2. pending' \subseteq Queued /\ tails' \subseteq Sealed /\ latest' \in [Docs -> Nat]
    BY <1>1
  <2>3. drain' \in Drains /\ del' \in [Docs -> Deletes]
    BY <1>1
  <2> QED
    BY <1>3, <1>4, <2>1, <2>2, <2>3
<1>6. /\ \A e : Deleted(e)' <=> Deleted(e)
      /\ \A e \in Docs : Idle(e)' <=> Idle(e)
      /\ ~ Idle(d)
  BY <1>1, <1>4 DEF Deleted, Idle, At
<1>7. Masks'
  BY <1>1, <1>6 DEF Masks
<1>8. InHand'
  BY <1>1, <1>4, <1>6 DEF InHand
<1>9. \A i \in DOMAIN set : \A p \in set[i].seg : p[1] \in Docs /\ p[2] \in Nat
  BY EntryTypes
<1>10. Resident'
  <2>1. \A e \in Docs : writer'[e].at = "seal" => writer[e].at = "seal"
    BY <1>4
  <2> QED
    BY <1>1, <1>2, <1>9, <2>1 DEF Resident, OneDocument, SameSegs
<1>11. Backlog' /\ LastIsQueued' /\ Snapshot' /\ Tails'
  <2>1. SameBacklog
    BY <1>1, <1>4, <1>6 DEF SameBacklog
  <2> QED
    BY <2>1, BacklogKept
<1>12. ClientStep
  <2>1. \A e \in Docs : (Quiet(e)' => Quiet(e)) /\ (Resting(e)' => Resting(e))
    BY <1>1, <1>6 DEF Quiet, Resting
  <2> QED
    BY <1>1, <1>6, <2>1 DEF ClientStep, Blanked
<1>13. Supply' /\ Built' /\ Retiring'
  BY <1>12, SupplyKept, BuiltKept
<1>14. Grouped' /\ Disjoint'
  BY <1>1, <1>3, <1>4, <1>12, StructureKept
<1>15. drain' = drain /\ DrainDerived
  BY <1>1, DrainDerivedKept
<1>16. \A e \in Docs \ {d} : \A X : Alive(e, X)' <=> Alive(e, X)
  BY <1>2, OthersKept
<1>17. \A X : (s \in X => s \notin IdsOf(set)) /\ Alive(d, X) => Alive(d, X)'
  <2> SUFFICES ASSUME NEW X, s \in X => s \notin IdsOf(set), Alive(d, X)
               PROVE  Alive(d, X)'
    OBVIOUS
  <2>1. CASE s \notin IdsOf(set)
    <3>1. set' = set
      BY <1>2, <2>1
    <3> QED
      BY <3>1 DEF Alive
  <2>2. CASE s \in IdsOf(set)
    <3>1. PICK i \in DOMAIN set : set[i].seg = s
      BY <2>2 DEF IdsOf
    <3>2. i \in DOMAIN set' /\ set'[i].seg \notin X /\ d \in DocsOf(LivePairs(set'[i]))
      BY <1>2, <1>3, <2>2, <3>1 DEF SameSegs
    <3> QED
      BY <3>2 DEF Alive
  <2> QED
    BY <2>1, <2>2
<1>18. Live'
  BY <1>12, <1>15, <1>16, <1>17 DEF Live, DrainDerived, ClientStep
<1>19. \A q \in drain.pending : q.pair # <<d, latest[d]>>
  BY <1>1, <1>6, BacklogTypes DEF Backlog
<1>20. s \notin Freshes
  <2>1. <<d, latest[d]>> \notin drain.docs
    BY <1>19 DEF Supply
  <2> QED
    BY <2>1 DEF Freshes, Fresh
<1>21. s \notin TailIds
  <2> SUFFICES ASSUME NEW t \in drain.tails, t.seg = s
               PROVE  FALSE
    BY DEF TailIds
  <2>1. PICK p \in t.seg : t.seg = {p} /\ (~ Idle(p[1]) => p[2] < latest[p[1]])
    BY DEF Tails
  <2>2. p = <<d, latest[d]>>
    BY <2>1
  <2> QED
    BY <1>1, <1>6, <2>1, <2>2
<1>22. Carried'
  <2> SUFFICES ASSUME drain.at = "swap", NEW e \in Docs, ~ Deleted(e),
                      ~ \E t \in Outs : e \in DocsOf(t)
               PROVE  /\ Alive(e, drain.union \cup Freshes)'
                      /\ writer'[e].at = "supersede" => writer'[e].seg \notin drain.union
    BY <1>6, <1>15 DEF Carried, DrainDerived
  <2>1. /\ Alive(e, drain.union \cup Freshes)
        /\ writer[e].at = "supersede" => writer[e].seg \notin drain.union
    BY DEF Carried
  <2>2. CASE e = d
    <3>1. s \notin drain.union \cup Freshes
      BY <1>1, <1>20, <2>1, <2>2
    <3>2. Alive(d, drain.union \cup Freshes)
      BY <2>1, <2>2
    <3>3. \A X : s \notin X /\ Alive(d, X) => Alive(d, X)'
      BY <1>17
    <3>4. drain'.union = drain.union /\ Freshes' = Freshes
      BY <1>15 DEF DrainDerived
    <3>5. \E i \in DOMAIN set' : /\ set'[i].seg \notin drain.union \cup Freshes
                                 /\ d \in DocsOf(LivePairs(set'[i]))
      BY <3>1, <3>2, <3>3 DEF Alive
    <3> QED
      BY <1>4, <2>2, <3>4, <3>5 DEF Alive
  <2>3. CASE e # d
    <3>1. drain'.union = drain.union /\ Freshes' = Freshes
      BY <1>15 DEF DrainDerived
    <3>2. \A X : Alive(e, X) => Alive(e, X)'
      BY <1>16, <2>3
    <3>3. \E i \in DOMAIN set' : /\ set'[i].seg \notin drain.union \cup Freshes
                                 /\ e \in DocsOf(LivePairs(set'[i]))
      BY <2>1, <3>2 DEF Alive
    <3> QED
      BY <1>4, <2>1, <2>3, <3>1, <3>3 DEF Alive
  <2> QED
    BY <2>2, <2>3
<1>23. Rebuilt'
  <2>1. Supplied \subseteq Docs
    BY BacklogTypes DEF Supplied
  <2>2. \A e \in Docs : \A X : s \notin X /\ Alive(e, X) => Alive(e, X)'
    BY <1>16, <1>17
  <2>3. s \notin TailIds \ Outs
    BY <1>21
  <2> QED
    BY <1>12, <1>15, <2>1, <2>2, <2>3 DEF Rebuilt, DrainDerived, ClientStep
<1>24. Exact'
  <2> SUFFICES ASSUME NEW i \in DOMAIN set', NEW p \in LivePairs(set'[i])
               PROVE  \/ p[2] = latest'[p[1]]
                      \/ /\ ~ Resting(p[1])'
                         /\ drain.at \in After /\ Quiet(p[1])' /\ p[1] \in Supplied =>
                              set'[i].seg \in TailIds \ Outs
                         /\ drain.at \in Late => ~ (Quiet(p[1])' /\ p[1] \in Supplied)
    BY <1>15 DEF Exact, DrainDerived
  <2>1. CASE p[1] = d
    BY <1>6, <2>1 DEF Resting, Quiet
  <2>2. CASE p[1] # d
    <3>1. i \in DOMAIN set /\ set'[i].seg = set[i].seg
      BY <1>3 DEF SameSegs
    <3>2. p \in LivePairs(set[i])
      BY <1>2, <2>2, <3>1, OthersKept
    <3>3. p[1] \in Docs
      BY <1>9, <3>1, <3>2 DEF LivePairs
    <3> QED
      BY <1>1, <1>12, <3>1, <3>2, <3>3 DEF Exact, ClientStep
  <2> QED
    BY <2>1, <2>2
<1> QED
  BY <1>5, <1>7, <1>8, <1>10, <1>11, <1>13, <1>14, <1>18, <1>22, <1>23, <1>24

LEMMA RecordStep ==
  ASSUME Inv, layout \in Layouts, NEW d \in Docs, recordDirty(d)
  PROVE  Inv'
<1>x. PICK x : x = <<d, latest[d]>>
  OBVIOUS
<1>q. PICK q0 : q0 = [seq |-> writer[d].seq, pair |-> x]
  OBVIOUS
<1>t. PICK t0 : t0 = [seq |-> writer[d].seq, seg |-> {x}]
  OBVIOUS
<1> USE DEF Inv, Shapes
<1>1. /\ writer[d].at = "record" /\ writer[d].seg = {x} /\ latest[d] \in Nat
      /\ writer[d].seq \in 1 .. seq /\ seq \in Nat /\ ~ Idle(d)
      /\ UNCHANGED <<set, mask, reclaim, del, seq, latest, drain, layout, owed, upsets>>
  BY <1>x DEF recordDirty, At, InHand, Idle, store, env
<1>2. pending' = pending \cup {q0}
  <2>1. pending' = pending \cup {[seq |-> writer[d].seq, pair |-> p] : p \in {x}}
    BY <1>1 DEF recordDirty
  <2> QED
    BY <1>q, <2>1
<1>3. tails \subseteq tails' /\ tails' \subseteq tails \cup {t0}
  <2>1. tails' = tails \cup {[seq |-> writer[d].seq, seg |-> t] :
                              t \in {u \in {{x}} : writer[d].tail}}
    BY <1>1 DEF recordDirty
  <2> QED
    BY <1>t, <2>1
<1>4. /\ writer' \in [Docs -> Writers]
      /\ \A e \in Docs \ {d} : writer'[e] = writer[e]
      /\ writer'[d].at = "idle" /\ writer'[d].seg = {} /\ writer'[d].victim = {}
  <2>1. NoWrite \in Writers
    BY DEF NoWrite, Writers, Segs
  <2>2. writer' = [writer EXCEPT ![d] = NoWrite]
    BY DEF recordDirty
  <2> QED
    BY <2>1, <2>2 DEF NoWrite
<1>5. x \in Docs \X Nat /\ x[1] = d /\ x[2] = latest[d]
  BY <1>1, <1>x
<1>6. q0 \in Queued /\ t0 \in Sealed
  BY <1>1, <1>5, <1>q, <1>t DEF Queued, Sealed, Segs
<1>7. q0.seq = writer[d].seq /\ q0.pair = x /\ t0.seq = writer[d].seq /\ t0.seg = {x}
  BY <1>q, <1>t
<1>8. Shapes'
  <2>1. mask' \subseteq Docs /\ reclaim' = {} /\ owed' = {} /\ seq' \in Nat
    BY <1>1
  <2>2. pending' \subseteq Queued /\ tails' \subseteq Sealed
    BY <1>2, <1>3, <1>6
  <2>3. drain' \in Drains /\ del' \in [Docs -> Deletes] /\ latest' \in [Docs -> Nat]
    BY <1>1
  <2>4. set' \in Seq(Entries)
    BY <1>1
  <2> QED
    BY <1>4, <2>1, <2>2, <2>3, <2>4
<1>9. /\ \A e : Deleted(e)' <=> Deleted(e)
      /\ \A e \in Docs \ {d} : Idle(e)' <=> Idle(e)
      /\ Idle(d)'
  BY <1>1, <1>4 DEF Deleted, Idle, At
<1>10. Masks'
  BY <1>1, <1>9 DEF Masks
<1>11. InHand'
  <2> SUFFICES ASSUME NEW e \in Docs
               PROVE  /\ Idle(e)' => writer'[e].seg = {}
                      /\ ~ Idle(e)' => /\ writer'[e].seg = {<<e, latest'[e]>>}
                                       /\ writer'[e].seq \in 1 .. seq'
                      /\ \A t \in writer'[e].victim : e \in DocsOf(t)
    BY DEF InHand
  <2>1. CASE e = d
    BY <1>4, <1>9, <2>1
  <2>2. CASE e # d
    BY <1>1, <1>4, <1>9, <2>2 DEF InHand
  <2> QED
    BY <2>1, <2>2
<1>12. \A i \in DOMAIN set : \A p \in set[i].seg : p[1] \in Docs /\ p[2] \in Nat
  BY EntryTypes
<1>13. Resident'
  <2>1. \A e \in Docs : writer'[e].at = "seal" => writer[e].at = "seal"
    BY <1>4
  <2> QED
    BY <1>1, <1>12, <2>1 DEF Resident
<1>14. \A q \in pending \cup drain.pending :
          q.pair[1] \in Docs /\ q.pair[2] \in Nat /\ q.seq \in Nat
  BY BacklogTypes
<1>15. \A q \in pending \cup drain.pending :
          q.pair[1] = d => q.pair[2] < latest[d] /\ q.seq < writer[d].seq
  BY <1>1 DEF Backlog
<1>16. \A q \in drain.pending : q.pair # x
  BY <1>1, <1>5, <1>14, <1>15
<1>17. Backlog'
  <2>1. pending' \cup drain'.pending = (pending \cup drain.pending) \cup {q0}
    BY <1>1, <1>2
  <2>2. ASSUME NEW q \in pending \cup drain.pending
        PROVE  /\ q.seq \in 1 .. seq'
               /\ q.pair[2] <= latest'[q.pair[1]]
               /\ ~ Idle(q.pair[1])' => /\ q.pair[2] < latest'[q.pair[1]]
                                        /\ q.seq < writer'[q.pair[1]].seq
               /\ \A r \in pending \cup drain.pending :
                    r.pair[1] = q.pair[1] => (q.pair[2] < r.pair[2] <=> q.seq < r.seq)
               /\ q.pair[1] = q0.pair[1] =>
                    /\ q.pair[2] < q0.pair[2] /\ q.seq < q0.seq
                    /\ ~ (q0.pair[2] < q.pair[2]) /\ ~ (q0.seq < q.seq)
    <3>1. /\ q.seq \in 1 .. seq
          /\ q.pair[2] <= latest[q.pair[1]]
          /\ ~ Idle(q.pair[1]) => /\ q.pair[2] < latest[q.pair[1]]
                                  /\ q.seq < writer[q.pair[1]].seq
          /\ \A r \in pending \cup drain.pending :
               r.pair[1] = q.pair[1] => (q.pair[2] < r.pair[2] <=> q.seq < r.seq)
      BY DEF Backlog
    <3>2. q.pair[1] \in Docs /\ q.pair[2] \in Nat /\ q.seq \in Nat
      BY <1>14
    <3>3. ~ Idle(q.pair[1])' => q.pair[1] # d /\ ~ Idle(q.pair[1])
      BY <1>9, <3>2
    <3>4. q.pair[1] = q0.pair[1] =>
             /\ q.pair[2] < q0.pair[2] /\ q.seq < q0.seq
             /\ ~ (q0.pair[2] < q.pair[2]) /\ ~ (q0.seq < q.seq)
      BY <1>1, <1>5, <1>7, <1>15, <3>2
    <3> QED
      BY <1>1, <1>4, <3>1, <3>2, <3>3, <3>4
  <2>3. /\ q0.seq \in 1 .. seq'
        /\ q0.pair[2] <= latest'[q0.pair[1]]
        /\ Idle(q0.pair[1])'
        /\ ~ (q0.pair[2] < q0.pair[2]) /\ ~ (q0.seq < q0.seq)
    BY <1>1, <1>5, <1>7, <1>9
  <2> QED
    BY <2>1, <2>2, <2>3 DEF Backlog
<1>18. LastIsQueued'
  <2> SUFFICES ASSUME NEW q \in pending', ~ Deleted(q.pair[1])', Idle(q.pair[1])'
               PROVE  \E r \in pending' : r.pair = <<q.pair[1], latest'[q.pair[1]]>>
    BY DEF LastIsQueued
  <2>1. CASE q.pair[1] = d
    <3>1. q0 \in pending' /\ q0.pair = <<q.pair[1], latest'[q.pair[1]]>>
      BY <1>1, <1>2, <1>7, <1>x, <2>1
    <3> QED
      BY <3>1
  <2>2. CASE q.pair[1] # d
    <3>1. q \in pending /\ q.pair[1] \in Docs
      BY <1>2, <1>5, <1>7, <1>14, <2>2
    <3>2. ~ Deleted(q.pair[1]) /\ Idle(q.pair[1])
      BY <1>9, <2>2, <3>1
    <3>3. PICK r \in pending : r.pair = <<q.pair[1], latest[q.pair[1]]>>
      BY <3>1, <3>2 DEF LastIsQueued
    <3> QED
      BY <1>1, <1>2, <3>3
  <2> QED
    BY <2>1, <2>2
<1>19. Snapshot'
  <2> SUFFICES ASSUME NEW q \in drain.pending
               PROVE  /\ q \in pending' \/ Deleted(q.pair[1])'
                      /\ \A r \in pending' \ drain.pending :
                           r.pair[1] = q.pair[1] => q.seq < r.seq
    BY <1>1 DEF Snapshot
  <2>1. q \in pending' \/ Deleted(q.pair[1])'
    BY <1>2, <1>9 DEF Snapshot
  <2>2. \A r \in pending \ drain.pending : r.pair[1] = q.pair[1] => q.seq < r.seq
    BY DEF Snapshot
  <2>3. q0.pair[1] = q.pair[1] => q.seq < q0.seq
    BY <1>5, <1>7, <1>15
  <2> QED
    BY <1>2, <2>1, <2>2, <2>3
<1>20. Tails'
  <2>1. drain.tails \subseteq tails'
    BY <1>3 DEF Tails
  <2>2. t0 \notin drain.tails
    <3> SUFFICES ASSUME t0 \in drain.tails
                 PROVE  FALSE
      OBVIOUS
    <3>1. PICK p \in t0.seg : t0.seg = {p} /\ (~ Idle(p[1]) => p[2] < latest[p[1]])
      BY DEF Tails
    <3>2. p = x
      BY <1>7, <3>1
    <3> QED
      BY <1>1, <1>5, <3>1, <3>2
  <2>3. \A t \in tails' : \A q \in drain.pending : t.seg = {q.pair} => t \in drain.tails
    <3>1. \A q \in drain.pending : t0.seg # {q.pair}
      BY <1>7, <1>16
    <3> QED
      BY <1>3, <3>1 DEF Tails
  <2>4. ASSUME NEW t \in tails'
        PROVE  /\ t.seq \in 1 .. seq'
               /\ \E p \in t.seg :
                    /\ t.seg = {p}
                    /\ p[2] <= latest'[p[1]]
                    /\ ~ Idle(p[1])' => p[2] < latest'[p[1]]
                    /\ Deleted(p[1])' \/ \E q \in pending' : q.pair = p
                    /\ t \in drain.tails =>
                         Deleted(p[1])' \/ \E q \in drain.pending : q.pair = p
    <3>1. CASE t = t0
      <4>1. x \in t.seg /\ t.seg = {x} /\ t.seq \in 1 .. seq'
        BY <1>1, <1>7, <3>1
      <4>2. x[2] <= latest'[x[1]] /\ Idle(x[1])'
        BY <1>1, <1>5, <1>9
      <4>3. \E q \in pending' : q.pair = x
        BY <1>2, <1>7
      <4> QED
        BY <2>2, <3>1, <4>1, <4>2, <4>3
    <3>2. CASE t # t0
      <4>1. t \in tails
        BY <1>3, <3>2
      <4>2. PICK p \in t.seg :
              /\ t.seg = {p}
              /\ p[2] <= latest[p[1]]
              /\ ~ Idle(p[1]) => p[2] < latest[p[1]]
              /\ Deleted(p[1]) \/ \E q \in pending : q.pair = p
              /\ t \in drain.tails => Deleted(p[1]) \/ \E q \in drain.pending : q.pair = p
        BY <4>1 DEF Tails
      <4>3. p[1] \in Docs
        BY <4>1, BacklogTypes
      <4>4. ~ Idle(p[1])' => ~ Idle(p[1])
        BY <1>9, <4>3
      <4>5. t.seq \in 1 .. seq'
        BY <1>1, <4>1 DEF Tails
      <4>6. Deleted(p[1])' \/ \E q \in pending' : q.pair = p
        BY <1>2, <1>9, <4>2
      <4> QED
        BY <1>1, <1>9, <4>2, <4>4, <4>5, <4>6
    <3> QED
      BY <3>1, <3>2
  <2> QED
    BY <1>1, <2>1, <2>3, <2>4 DEF Tails
<1>21. ClientStep
  <2>1. ~ Resting(d)'
    BY <1>2, <1>5, <1>7 DEF Resting
  <2>2. ~ Quiet(d)'
    <3>1. q0 \notin drain'.pending /\ q0 \in pending'
      BY <1>1, <1>2, <1>7, <1>16
    <3> QED
      BY <1>5, <1>7, <3>1 DEF Quiet
  <2>3. \A e \in Docs \ {d} : (Quiet(e)' => Quiet(e)) /\ (Resting(e)' => Resting(e))
    BY <1>1, <1>2, <1>9 DEF Quiet, Resting
  <2>4. \A e \in Docs : Blanked(e) => Blanked(e)'
    BY <1>1, <1>2 DEF Blanked
  <2> QED
    BY <1>1, <1>9, <2>1, <2>2, <2>3, <2>4 DEF ClientStep
<1>22. Supply' /\ Built' /\ Retiring'
  BY <1>21, SupplyKept, BuiltKept
<1>23. SameSegs
  BY <1>1 DEF SameSegs
<1>24. drain.at \in Before => {} \notin drain.union
  BY DEF Grouped, IdsOf, Resident
<1>25. Grouped' /\ Disjoint'
  BY <1>4, <1>21, <1>23, <1>24, StructureKept
<1>26. Live' /\ Carried' /\ Rebuilt' /\ Exact'
  <2>1. set' = set
    BY <1>1
  <2>2. \A e \in Docs : writer'[e].at = "supersede" => writer'[e] = writer[e]
    BY <1>4
  <2> QED
    BY <1>21, <2>1, <2>2, LiveKept
<1> QED
  BY <1>8, <1>10, <1>11, <1>13, <1>17, <1>18, <1>19, <1>20, <1>22, <1>25, <1>26
-----------------------------------------------------------------------------
(* Deletes.                                                                 *)

\* killSuperseded clears live bits of holders, of the given documents only.
LEMMA KillBits ==
  ASSUME Inv, NEW ids, ids \subseteq Docs, set' = killSuperseded(set, ids)
  PROVE  /\ SameSegs /\ set' \in Seq(Entries)
         /\ \A i \in DOMAIN set :
              /\ set[i].dead \subseteq set'[i].dead
              /\ set'[i].dead \subseteq DocsOf(set[i].seg)
              /\ set'[i].dead \subseteq set[i].dead \cup ids
<1> USE DEF Inv, Shapes
<1>1. /\ DOMAIN set = 1 .. Len(set) /\ Len(set) \in Nat
      /\ \A i \in DOMAIN set : set[i] \in Entries
  BY EntryTypes
<1>2. /\ set' = [i \in DOMAIN set |-> WithDead(set[i],
                   set[i].dead \cup {d \in ids : i \in Newest(set, d)})]
      /\ DOMAIN set' = DOMAIN set
  BY DEF killSuperseded
<1>3. ASSUME NEW i \in DOMAIN set
      PROVE  /\ set'[i].seg = set[i].seg
             /\ set'[i].dead = set[i].dead \cup {d \in ids : i \in Newest(set, d)}
             /\ set'[i] \in Entries
  <2>1. set'[i] = [seg |-> set[i].seg, rec |-> set[i].rec,
                   dead |-> set[i].dead \cup {d \in ids : i \in Newest(set, d)}]
    BY <1>2 DEF WithDead, Entry
  <2>2. set[i].seg \in Segs /\ set[i].dead \subseteq Docs /\ set[i].rec \in Records
    BY <1>1 DEF Entries
  <2>3. set'[i] \in Entries
    BY <2>1, <2>2 DEF Entries
  <2> QED
    BY <2>1, <2>3
<1>4. set' \in Seq(Entries)
  <2>1. set' \in [1 .. Len(set) -> Entries]
    BY <1>1, <1>2, <1>3
  <2> QED
    BY <1>1, <2>1
<1>5. SameSegs
  BY <1>2, <1>3 DEF SameSegs
<1>6. \A i \in DOMAIN set : {d \in ids : i \in Newest(set, d)} \subseteq DocsOf(set[i].seg)
  BY DEF Newest, Holders
<1> QED
  BY <1>3, <1>4, <1>5, <1>6 DEF Resident

LEMMA PurgeStep ==
  ASSUME Inv, layout \in Layouts, NEW d \in Docs, Purge(d)
  PROVE  Inv'
<1> USE DEF Inv, Shapes
<1>1. /\ pending' = {q \in pending : q.pair[1] # d}
      /\ del' = [del EXCEPT ![d] = [at |-> "load", read |-> {}]]
      /\ UNCHANGED <<set, mask, reclaim, tails, writer, seq, latest, drain, layout, owed, upsets>>
  BY DEF Purge, store, env
<1>2. /\ del' \in [Docs -> Deletes] /\ del'[d].at = "load" /\ del'[d].read = {}
      /\ \A e \in Docs \ {d} : del'[e] = del[e]
  BY <1>1 DEF Deletes
<1>3. Shapes'
  <2>1. mask' \subseteq Docs /\ reclaim' = {} /\ owed' = {} /\ seq' \in Nat
    BY <1>1
  <2>2. pending' \subseteq Queued /\ tails' \subseteq Sealed /\ latest' \in [Docs -> Nat]
    BY <1>1
  <2>3. drain' \in Drains /\ writer' \in [Docs -> Writers] /\ set' \in Seq(Entries)
    BY <1>1
  <2> QED
    BY <1>2, <2>1, <2>2, <2>3
<1>4. /\ \A e \in Docs : Deleted(e) => Deleted(e)'
      /\ Deleted(d)'
      /\ \A e \in Docs : ~ Deleted(e)' => ~ Deleted(e) /\ e # d
      /\ \A e : Idle(e)' <=> Idle(e)
  BY <1>1, <1>2 DEF Deleted, Idle, At
<1>5. /\ mask \cup drain.mask \cup drain.deferred \cup drain.read \subseteq Docs
      /\ \A e \in Docs : del[e].read \subseteq Docs
  BY DEF Drains, Deletes
<1>6. Masks'
  BY <1>1, <1>2, <1>4, <1>5 DEF Masks
<1>7. InHand'
  BY <1>1, <1>4 DEF InHand
<1>8. Resident'
  BY <1>1 DEF Resident
<1>9. \A q \in pending \cup drain.pending :
          q.pair[1] \in Docs /\ q.pair[2] \in Nat /\ q.seq \in Nat
  BY BacklogTypes
<1>10. pending' \subseteq pending
  BY <1>1
<1>11. Backlog'
  <2>1. pending' \cup drain'.pending \subseteq pending \cup drain.pending
    BY <1>1, <1>10
  <2> QED
    BY <1>1, <1>4, <2>1 DEF Backlog
<1>12. LastIsQueued'
  <2> SUFFICES ASSUME NEW q \in pending', ~ Deleted(q.pair[1])', Idle(q.pair[1])'
               PROVE  \E r \in pending' : r.pair = <<q.pair[1], latest'[q.pair[1]]>>
    BY DEF LastIsQueued
  <2>1. q \in pending /\ q.pair[1] \in Docs /\ q.pair[1] # d
    BY <1>1, <1>9
  <2>2. ~ Deleted(q.pair[1]) /\ Idle(q.pair[1])
    BY <1>4, <2>1
  <2>3. PICK r \in pending : r.pair = <<q.pair[1], latest[q.pair[1]]>>
    BY <2>1, <2>2 DEF LastIsQueued
  <2>4. r \in pending'
    BY <1>1, <2>1, <2>3
  <2> QED
    BY <1>1, <2>3, <2>4
<1>13. Snapshot'
  <2>1. \A q \in drain.pending : q \in pending' \/ Deleted(q.pair[1])'
    BY <1>1, <1>4, <1>9 DEF Snapshot
  <2> QED
    BY <1>1, <1>10, <2>1 DEF Snapshot
<1>14. Tails'
  <2>1. ASSUME NEW t \in tails
        PROVE  \E p \in t.seg :
                 /\ t.seg = {p}
                 /\ p[2] <= latest'[p[1]]
                 /\ ~ Idle(p[1])' => p[2] < latest'[p[1]]
                 /\ Deleted(p[1])' \/ \E q \in pending' : q.pair = p
                 /\ t \in drain.tails =>
                      Deleted(p[1])' \/ \E q \in drain.pending : q.pair = p
    <3>1. PICK p \in t.seg :
            /\ t.seg = {p}
            /\ p[2] <= latest[p[1]]
            /\ ~ Idle(p[1]) => p[2] < latest[p[1]]
            /\ Deleted(p[1]) \/ \E q \in pending : q.pair = p
            /\ t \in drain.tails => Deleted(p[1]) \/ \E q \in drain.pending : q.pair = p
      BY DEF Tails
    <3>2. p[1] \in Docs
      BY BacklogTypes
    <3>3. Deleted(p[1])' \/ \E q \in pending' : q.pair = p
      <4>1. CASE p[1] = d
        BY <1>4, <4>1
      <4>2. CASE p[1] # d
        BY <1>1, <1>4, <3>1, <3>2, <4>2
      <4> QED
        BY <4>1, <4>2
    <3> QED
      BY <1>1, <1>4, <3>1, <3>2, <3>3
  <2> QED
    BY <1>1, <2>1 DEF Tails
<1>15. ClientStep
  <2>1. \A e \in Docs : (Quiet(e)' => Quiet(e)) /\ (Resting(e)' => Resting(e))
    <3> SUFFICES ASSUME NEW e \in Docs, ~ Deleted(e)'
                 PROVE  (Quiet(e)' => Quiet(e)) /\ (Resting(e)' => Resting(e))
      BY DEF Quiet, Resting
    <3>1. ~ Deleted(e) /\ e # d
      BY <1>4
    <3>2. \A q \in pending : q.pair[1] = e => q \in pending'
      BY <1>1, <3>1
    <3> QED
      BY <1>1, <1>4, <3>1, <3>2 DEF Quiet, Resting
  <2>2. \A e \in Docs : Blanked(e) => Blanked(e)' \/ Deleted(e)'
    BY <1>1, <1>4 DEF Blanked
  <2> QED
    BY <1>1, <1>4, <2>1, <2>2 DEF ClientStep
<1>16. Supply' /\ Built' /\ Retiring'
  BY <1>15, SupplyKept, BuiltKept
<1>17. SameSegs /\ set' = set
  BY <1>1 DEF SameSegs
<1>18. Grouped' /\ Disjoint'
  BY <1>1, <1>15, <1>17, StructureKept
<1>19. Live' /\ Carried' /\ Rebuilt' /\ Exact'
  BY <1>1, <1>15, <1>17, LiveKept
<1> QED
  BY <1>3, <1>6, <1>7, <1>8, <1>11, <1>12, <1>13, <1>14, <1>16, <1>18, <1>19

\* The later steps of a delete leave the backlog and the set alone, but for
\* the live bits of the document itself, which is deleted by then.
LEMMA DeleteStep ==
  ASSUME Inv, layout \in Layouts, NEW d \in Docs, Deleted(d), OneDocument(d),
         del' \in [Docs -> Deletes], mask' \subseteq Docs,
         del'[d].at # "idle", \A e \in Docs \ {d} : del'[e] = del[e],
         del'[d].read \subseteq mask, mask' \subseteq mask \cup del[d].read \cup {d},
         UNCHANGED <<reclaim, pending, tails, writer, seq, latest, drain, layout, owed>>,
         upsets \subseteq upsets'
  PROVE  Inv'
<1> USE DEF Inv, Shapes
<1>1. /\ reclaim' = reclaim /\ pending' = pending /\ tails' = tails /\ writer' = writer
      /\ seq' = seq /\ latest' = latest /\ drain' = drain /\ layout' = layout /\ owed' = owed
  OBVIOUS
<1>2. SameSegs /\ set' \in Seq(Entries)
  BY DEF OneDocument
<1>3. Shapes'
  <2>1. reclaim' = {} /\ owed' = {} /\ seq' \in Nat
    BY <1>1
  <2>2. pending' \subseteq Queued /\ tails' \subseteq Sealed /\ latest' \in [Docs -> Nat]
    BY <1>1
  <2>3. drain' \in Drains /\ writer' \in [Docs -> Writers]
    BY <1>1
  <2> QED
    BY <1>2, <2>1, <2>2, <2>3
<1>4. /\ \A e \in Docs : Deleted(e)' <=> Deleted(e)
      /\ \A e : Idle(e)' <=> Idle(e)
  BY <1>1 DEF Deleted, Idle, At
<1>5. Masks'
  <2>1. drain.mask \cup drain.deferred \cup drain.read \subseteq Docs
    BY DEF Drains
  <2>2. \A e \in Docs : del'[e].read \subseteq Docs
    BY DEF Deletes
  <2>3. \A e \in mask' : Deleted(e)'
    BY <1>4 DEF Masks
  <2>4. \A e \in Docs : \A f \in del'[e].read : Deleted(f)'
    BY <1>4, <2>2 DEF Masks
  <2> QED
    BY <1>1, <1>4, <2>1, <2>3, <2>4 DEF Masks
<1>6. InHand'
  BY <1>1, <1>4 DEF InHand
<1>7. Resident'
  BY <1>1 DEF Resident, OneDocument, SameSegs
<1>8. Backlog' /\ LastIsQueued' /\ Snapshot' /\ Tails'
  <2>1. SameBacklog
    BY <1>1, <1>4 DEF SameBacklog
  <2> QED
    BY <2>1, BacklogKept
<1>9. ClientStep
  <2>1. \A e \in Docs : (Quiet(e)' => Quiet(e)) /\ (Resting(e)' => Resting(e))
    BY <1>1, <1>4 DEF Quiet, Resting
  <2>2. \A e \in Docs : Blanked(e) => Blanked(e)'
    BY <1>1 DEF Blanked
  <2> QED
    BY <1>1, <1>4, <2>1, <2>2 DEF ClientStep
<1>10. Supply' /\ Built' /\ Retiring'
  BY <1>9, SupplyKept, BuiltKept
<1>11. Grouped' /\ Disjoint'
  BY <1>1, <1>2, <1>9, StructureKept
<1>12. drain' = drain /\ DrainDerived
  BY <1>1, DrainDerivedKept
<1>13. \A e \in Docs : \A X : ~ Deleted(e) => (Alive(e, X)' <=> Alive(e, X))
  BY OthersKept
<1>14. Live'
  BY <1>4, <1>9, <1>12, <1>13 DEF Live, DrainDerived, ClientStep
<1>15. Carried'
  BY <1>1, <1>4, <1>12, <1>13 DEF Carried, DrainDerived
<1>16. Rebuilt'
  <2>1. Supplied \subseteq Docs
    BY BacklogTypes DEF Supplied
  <2> QED
    BY <1>4, <1>12, <1>13, <2>1 DEF Rebuilt, DrainDerived
<1>17. Exact'
  <2> SUFFICES ASSUME NEW i \in DOMAIN set', NEW p \in LivePairs(set'[i])
               PROVE  \/ p[2] = latest'[p[1]]
                      \/ /\ ~ Resting(p[1])'
                         /\ drain.at \in After /\ Quiet(p[1])' /\ p[1] \in Supplied =>
                              set'[i].seg \in TailIds \ Outs
                         /\ drain.at \in Late => ~ (Quiet(p[1])' /\ p[1] \in Supplied)
    BY <1>12 DEF Exact, DrainDerived
  <2>1. CASE p[1] = d
    BY <1>4, <2>1 DEF Resting, Quiet
  <2>2. CASE p[1] # d
    <3>1. i \in DOMAIN set /\ set'[i].seg = set[i].seg
      BY <1>2 DEF SameSegs
    <3>2. p \in LivePairs(set[i])
      BY <2>2, <3>1, OthersKept
    <3>3. p[1] \in Docs
      BY <3>1, <3>2, EntryTypes DEF LivePairs
    <3> QED
      BY <1>1, <1>9, <3>1, <3>2, <3>3 DEF Exact, ClientStep
  <2> QED
    BY <2>1, <2>2
<1> QED
  BY <1>3, <1>5, <1>6, <1>7, <1>8, <1>10, <1>11, <1>14, <1>15, <1>16, <1>17

LEMMA SealDeleteStep ==
  ASSUME Inv, layout \in Layouts, NEW d \in Docs,
         SealLoad(d) \/ SealSave(d) \/ SealFails(d) \/ KillSuperseded(d)
  PROVE  Inv'
<1> USE DEF Inv, Shapes
<1>1. UNCHANGED <<reclaim, pending, tails, writer, seq, latest, drain, layout, owed>>
  BY DEF SealLoad, SealSave, SealFails, KillSuperseded, store, backlog, env
<1>2. Deleted(d)
  BY DEF SealLoad, SealSave, SealFails, KillSuperseded, Deleted, At
<1>u. upsets \subseteq upsets'
  BY DEF SealLoad, SealSave, SealFails, KillSuperseded, NoteLostUpdate, Fails, env
<1>3. set' = set => OneDocument(d)
  BY DEF OneDocument, SameSegs, Resident
<1>4. CASE SealLoad(d)
  <2>1. del' = [del EXCEPT ![d] = [at |-> "save", read |-> mask]] /\ mask' = mask /\ set' = set
    BY <1>4 DEF SealLoad, store
  <2>2. /\ del' \in [Docs -> Deletes] /\ del'[d].at # "idle" /\ del'[d].read = mask
        /\ \A e \in Docs \ {d} : del'[e] = del[e]
    BY <2>1 DEF Deletes
  <2> QED
    BY <1>1, <1>2, <1>3, <1>u, <2>1, <2>2, DeleteStep
<1>5. CASE SealSave(d)
  <2>1. /\ del' = [del EXCEPT ![d] = [at |-> "kill", read |-> {}]]
        /\ mask' = del[d].read \cup {d} /\ set' = set
    BY <1>5 DEF SealSave
  <2>2. /\ del' \in [Docs -> Deletes] /\ del'[d].at # "idle" /\ del'[d].read = {}
        /\ \A e \in Docs \ {d} : del'[e] = del[e] /\ mask' \subseteq Docs
    BY <2>1 DEF Deletes
  <2>3. mask' \subseteq Docs
    BY <2>1 DEF Deletes
  <2> QED
    BY <1>1, <1>2, <1>3, <1>u, <2>1, <2>2, <2>3, DeleteStep
<1>6. CASE KillSuperseded(d)
  <2>1. /\ del' = [del EXCEPT ![d] = [at |-> "done", read |-> {}]]
        /\ mask' = mask /\ set' = killSuperseded(set, {d})
    BY <1>6 DEF KillSuperseded, store
  <2>2. /\ del' \in [Docs -> Deletes] /\ del'[d].at # "idle" /\ del'[d].read = {}
        /\ \A e \in Docs \ {d} : del'[e] = del[e]
    BY <2>1 DEF Deletes
  <2>3. /\ SameSegs /\ set' \in Seq(Entries)
        /\ \A i \in DOMAIN set :
             /\ set[i].dead \subseteq set'[i].dead
             /\ set'[i].dead \subseteq DocsOf(set[i].seg)
             /\ set'[i].dead \subseteq set[i].dead \cup {d}
    BY <2>1, KillBits
  <2>4. OneDocument(d)
    BY <2>3 DEF OneDocument
  <2> QED
    BY <1>1, <1>2, <1>u, <2>1, <2>2, <2>4, DeleteStep
<1>7. CASE SealFails(d)
  <2>1. /\ del' = [del EXCEPT ![d] = [at |-> "kill", read |-> {}]]
        /\ mask' = mask /\ set' = set
    BY <1>7 DEF SealFails, store
  <2>2. /\ del' \in [Docs -> Deletes] /\ del'[d].at # "idle" /\ del'[d].read = {}
        /\ \A e \in Docs \ {d} : del'[e] = del[e]
    BY <2>1 DEF Deletes
  <2> QED
    BY <1>1, <1>2, <1>3, <1>u, <2>1, <2>2, DeleteStep
<1> QED
  BY <1>4, <1>5, <1>6, <1>7
-----------------------------------------------------------------------------
(* The drain.                                                               *)

\* What a step of the drain leaves alone, from its snapshot to the end: the
\* backlog and its copy of it, and of the writers all but their victims.
DrainStep ==
  /\ reclaim' = reclaim /\ pending' = pending /\ tails' = tails /\ del' = del
  /\ seq' = seq /\ latest' = latest /\ layout' = layout /\ owed' = owed
  /\ set' \in Seq(Entries) /\ drain' \in Drains /\ mask' \subseteq Docs
  /\ drain'.pending = drain.pending /\ drain'.tails = drain.tails
  /\ mask' \cup drain'.mask \cup drain'.deferred \cup drain'.read
       \subseteq mask \cup drain.mask \cup drain.deferred \cup drain.read
  /\ writer' = writer \/ \E ids : writer' = Forget(ids)

\* What is known of the documents' clients stays known.
SameDocs ==
  \A e \in Docs : /\ Deleted(e)' <=> Deleted(e)
                  /\ Idle(e)' <=> Idle(e)
                  /\ Quiet(e)' <=> Quiet(e)
                  /\ Resting(e)' <=> Resting(e)

LEMMA ForgetTypes ==
  ASSUME writer \in [Docs -> Writers],
         writer' = writer \/ \E ids : writer' = Forget(ids)
  PROVE  /\ writer' \in [Docs -> Writers]
         /\ \A e \in Docs : /\ writer'[e].at = writer[e].at
                            /\ writer'[e].seq = writer[e].seq
                            /\ writer'[e].seg = writer[e].seg
                            /\ writer'[e].victim \subseteq writer[e].victim
<1>1. CASE writer' = writer
  BY <1>1
<1>2. CASE \E ids : writer' = Forget(ids)
  <2>1. PICK ids : writer' = Forget(ids)
    BY <1>2
  <2>2. \A e \in Docs : writer'[e] = [writer[e] EXCEPT !.victim = @ \ ids]
    BY <2>1 DEF Forget
  <2>3. ASSUME NEW e \in Docs
        PROVE  /\ writer'[e] \in Writers
               /\ writer'[e].at = writer[e].at
               /\ writer'[e].seq = writer[e].seq
               /\ writer'[e].seg = writer[e].seg
               /\ writer'[e].victim \subseteq writer[e].victim
    <3>1. PICK w : w = writer[e]
      OBVIOUS
    <3>2. w \in Writers /\ writer'[e] = [w EXCEPT !.victim = @ \ ids]
      BY <2>2, <3>1
    <3>3. /\ [w EXCEPT !.victim = @ \ ids].at = w.at
          /\ [w EXCEPT !.victim = @ \ ids].seq = w.seq
          /\ [w EXCEPT !.victim = @ \ ids].seg = w.seg
          /\ [w EXCEPT !.victim = @ \ ids].victim = w.victim \ ids
      BY <3>2 DEF Writers
    <3>4. [w EXCEPT !.victim = @ \ ids] \in Writers
      BY <3>2 DEF Writers
    <3> QED
      BY <3>1, <3>2, <3>3, <3>4
  <2> QED
    BY <2>1, <2>3 DEF Forget
<1> QED
  BY <1>1, <1>2

LEMMA DrainStepKept ==
  ASSUME Inv, DrainStep
  PROVE  /\ Shapes' /\ Masks' /\ InHand' /\ Backlog' /\ LastIsQueued' /\ Snapshot' /\ Tails'
         /\ SameDocs
         /\ \A e \in Docs : writer'[e].at = writer[e].at /\ writer'[e].seg = writer[e].seg
<1> USE DEF Inv, Shapes
<1>1. /\ reclaim' = reclaim /\ pending' = pending /\ tails' = tails /\ del' = del
      /\ seq' = seq /\ latest' = latest /\ layout' = layout /\ owed' = owed
      /\ drain'.pending = drain.pending /\ drain'.tails = drain.tails
  BY DEF DrainStep
<1>2. /\ writer' \in [Docs -> Writers]
      /\ \A e \in Docs : /\ writer'[e].at = writer[e].at
                         /\ writer'[e].seq = writer[e].seq
                         /\ writer'[e].seg = writer[e].seg
                         /\ writer'[e].victim \subseteq writer[e].victim
  BY ForgetTypes DEF DrainStep
<1>3. Shapes'
  <2>1. reclaim' = {} /\ owed' = {} /\ seq' \in Nat
    BY <1>1
  <2>2. pending' \subseteq Queued /\ tails' \subseteq Sealed /\ latest' \in [Docs -> Nat]
    BY <1>1
  <2>3. del' \in [Docs -> Deletes]
    BY <1>1
  <2>4. set' \in Seq(Entries) /\ drain' \in Drains /\ mask' \subseteq Docs
    BY DEF DrainStep
  <2> QED
    BY <1>2, <2>1, <2>2, <2>3, <2>4
<1>4. /\ \A e : Deleted(e)' <=> Deleted(e)
      /\ \A e \in Docs : Idle(e)' <=> Idle(e)
  BY <1>1, <1>2 DEF Deleted, Idle, At
<1>5. SameDocs
  BY <1>1, <1>4 DEF SameDocs, Quiet, Resting
<1>6. Masks'
  <2>1. \A e \in mask' \cup drain'.mask \cup drain'.deferred \cup drain'.read : Deleted(e)
    BY DEF DrainStep, Masks
  <2> QED
    BY <1>1, <1>4, <2>1 DEF Masks
<1>7. InHand'
  <2> SUFFICES ASSUME NEW e \in Docs
               PROVE  /\ Idle(e)' => writer'[e].seg = {}
                      /\ ~ Idle(e)' => /\ writer'[e].seg = {<<e, latest'[e]>>}
                                       /\ writer'[e].seq \in 1 .. seq'
                      /\ \A t \in writer'[e].victim : e \in DocsOf(t)
    BY DEF InHand
  <2> QED
    BY <1>1, <1>2, <1>4 DEF InHand
<1>8. Backlog' /\ LastIsQueued' /\ Snapshot' /\ Tails'
  <2>1. SameBacklog
    BY <1>1, <1>2, <1>4 DEF SameBacklog
  <2> QED
    BY <2>1, BacklogKept
<1> QED
  BY <1>2, <1>3, <1>5, <1>6, <1>7, <1>8

\* What the drain supplies stays true of it.
LEMMA SupplyOn ==
  ASSUME Inv, DrainStep, drain.at \notin {"idle", "mask"}, drain'.docs = drain.docs
  PROVE  Supply' /\ Supplied' = Supplied /\ Supplied \subseteq Docs
<1>1. SameDocs /\ latest' = latest /\ drain'.pending = drain.pending
  BY DrainStepKept DEF DrainStep
<1>2. \A p \in drain.docs : p[1] \in Docs
  BY BacklogTypes DEF Inv
<1>3. \A q \in drain.pending : q.pair[1] \in Docs
  BY BacklogTypes DEF Inv
<1>4. Supplied' = Supplied /\ Supplied \subseteq Docs
  BY <1>2 DEF Supplied
<1> QED
  BY <1>1, <1>2, <1>3, <1>4 DEF Inv, Supply, SameDocs

\* A step of the drain before its group is fixed.
LEMMA EarlyStep ==
  ASSUME Inv, drain.at \in {"idle", "mask", "offer", "group"},
         drain'.at \in {"mask", "offer", "group", "resolve"},
         UNCHANGED <<set, writer, latest, pending, upsets>>,
         drain'.pending = IF drain.at = "idle" THEN pending ELSE drain.pending,
         \A e \in Docs : (Deleted(e)' <=> Deleted(e)) /\ (Resting(e)' => Resting(e))
  PROVE  /\ Resident' /\ Disjoint' /\ Built' /\ Live' /\ Carried' /\ Rebuilt'
         /\ Retiring' /\ Exact'
         /\ drain'.at # "resolve" => Grouped'
<1> USE DEF Inv
<1>1. set' = set /\ writer' = writer /\ latest' = latest
  OBVIOUS
<1>2. Resident'
  BY <1>1 DEF Resident
<1>3. Disjoint'
  BY <1>1 DEF Disjoint, After
<1>4. \A d \in Docs : Alive(d, {})' <=> Alive(d, {})
  BY <1>1 DEF Alive
<1>5. Live'
  <2>1. \A d \in Docs : Blanked(d) => Blanked(d)'
    BY DEF Blanked, Early
  <2> QED
    BY <1>4, <2>1 DEF Live
<1>6. \A i \in DOMAIN set : \A p \in LivePairs(set[i]) : p[1] \in Docs
  BY EntryTypes DEF Shapes, LivePairs
<1>7. Exact'
  BY <1>1, <1>6 DEF Exact, After, Late
<1>8. /\ Built' /\ Carried' /\ Rebuilt' /\ Retiring'
      /\ drain'.at # "resolve" => Grouped'
  BY DEF Grouped, Built, Carried, Rebuilt, Retiring, Before, After
<1> QED
  BY <1>2, <1>3, <1>5, <1>7, <1>8

LEMMA SnapshotStep ==
  ASSUME Inv, layout \in Layouts, snapshotDirty
  PROVE  Inv'
<1> USE DEF Inv, Shapes
<1>1. /\ drain.at = "idle"
      /\ drain' = [NoDrain EXCEPT !.at = "mask", !.pending = pending, !.tails = tails]
      /\ UNCHANGED <<set, mask, reclaim, pending, tails, writer, del, seq, latest, layout, owed, upsets>>
  BY DEF snapshotDirty, At, store, backlog, clients, env
<1>2. /\ drain'.at = "mask" /\ drain'.pending = pending /\ drain'.tails = tails
      /\ drain'.mask = {} /\ drain'.deferred = {} /\ drain'.read = {} /\ drain'.docs = {}
  BY <1>1 DEF NoDrain
<1>3. drain' \in Drains
  <2>1. << >> \in Seq(Segs)
    OBVIOUS
  <2> QED
    BY <1>1, <2>1 DEF NoDrain, Drains, Segs
<1>4. Shapes'
  <2>1. mask' \subseteq Docs /\ reclaim' = {} /\ owed' = {} /\ seq' \in Nat
    BY <1>1
  <2>2. pending' \subseteq Queued /\ tails' \subseteq Sealed /\ latest' \in [Docs -> Nat]
    BY <1>1
  <2>3. del' \in [Docs -> Deletes] /\ writer' \in [Docs -> Writers] /\ set' \in Seq(Entries)
    BY <1>1
  <2> QED
    BY <1>3, <2>1, <2>2, <2>3
<1>5. /\ \A e : Deleted(e)' <=> Deleted(e)
      /\ \A e : Idle(e)' <=> Idle(e)
      /\ \A e : Resting(e)' <=> Resting(e)
  BY <1>1 DEF Deleted, Idle, At, Resting
<1>6. Masks'
  BY <1>1, <1>2, <1>5 DEF Masks
<1>7. InHand'
  BY <1>1, <1>5 DEF InHand
<1>8. Backlog'
  <2>1. pending' \cup drain'.pending \subseteq pending \cup drain.pending
    BY <1>1, <1>2
  <2> QED
    BY <1>1, <1>5, <2>1 DEF Backlog
<1>9. LastIsQueued'
  BY <1>1, <1>5 DEF LastIsQueued
<1>10. Snapshot'
  BY <1>1, <1>2 DEF Snapshot
<1>11. Tails'
  <2>1. ASSUME NEW t \in tails
        PROVE  /\ t.seq \in 1 .. seq
               /\ \E p \in t.seg :
                 /\ t.seg = {p}
                 /\ p[2] <= latest[p[1]]
                 /\ ~ Idle(p[1]) => p[2] < latest[p[1]]
                 /\ Deleted(p[1]) \/ \E q \in pending : q.pair = p
    BY DEF Tails
  <2> QED
    BY <1>1, <1>2, <1>5, <2>1 DEF Tails
<1>12. Supply'
  BY <1>2 DEF Supply
<1>13. /\ Resident' /\ Grouped' /\ Disjoint' /\ Built' /\ Live' /\ Carried' /\ Rebuilt'
       /\ Retiring' /\ Exact'
  BY <1>1, <1>2, <1>5, EarlyStep
<1> QED
  BY <1>4, <1>6, <1>7, <1>8, <1>9, <1>10, <1>11, <1>12, <1>13

\* The last queued copies: one of every queued document.
LEMMA LastQueuedIs ==
  ASSUME Inv, NEW Q, Q \subseteq drain.pending
  PROVE  /\ LastQueued(Q) \in Segs
         /\ \A p \in LastQueued(Q) : \E q \in Q :
              q.pair = p /\ \A r \in Q : r.pair[1] = q.pair[1] => r.seq <= q.seq
         /\ \A q \in Q : \E p \in LastQueued(Q) : p[1] = q.pair[1]
<1> USE DEF Inv, Shapes
<1>1. \A q \in Q : q.seq \in 1 .. seq /\ q.pair \in Docs \X Nat
  BY DEF Backlog, Drains, Queued
<1>2. \A p \in LastQueued(Q) : \E q \in Q :
         q.pair = p /\ \A r \in Q : r.pair[1] = q.pair[1] => r.seq <= q.seq
  BY DEF LastQueued
<1>3. LastQueued(Q) \in Segs
  BY <1>1, <1>2 DEF Segs
<1>4. ASSUME NEW q \in Q
      PROVE  \E p \in LastQueued(Q) : p[1] = q.pair[1]
  <2> DEFINE A == {r.seq : r \in {t \in Q : t.pair[1] = q.pair[1]}}
  <2>1. A \in SUBSET (1 .. seq) /\ A # {}
    BY <1>1
  <2>2. PICK m \in A : \A k \in A : k <= m
    BY <2>1, Greatest
  <2>3. PICK r \in Q : r.pair[1] = q.pair[1] /\ r.seq = m
    OBVIOUS
  <2>4. \A t \in Q : t.pair[1] = r.pair[1] => t.seq <= r.seq
    BY <2>2, <2>3
  <2>5. r.pair \in LastQueued(Q)
    BY <2>4 DEF LastQueued
  <2> QED
    BY <2>3, <2>5
<1> QED
  BY <1>2, <1>3, <1>4

LEMMA DrainMaskStep ==
  ASSUME Inv, layout \in Layouts, DrainMask
  PROVE  Inv'
<1> DEFINE Q == {q \in drain.pending : q.pair[1] \notin mask}
<1> USE DEF Inv, Shapes
<1>1. /\ drain.at = "mask"
      /\ drain' = [drain EXCEPT !.at = "offer", !.mask = mask, !.docs = LastQueued(Q)]
      /\ UNCHANGED <<set, mask, reclaim, pending, tails, writer, del, seq, latest, layout, owed, upsets>>
  BY DEF DrainMask, At, store, backlog, clients, env
<1>2. Q \subseteq drain.pending
  OBVIOUS
<1>3. /\ LastQueued(Q) \in Segs
      /\ \A p \in LastQueued(Q) : \E q \in Q :
              q.pair = p /\ \A r \in Q : r.pair[1] = q.pair[1] => r.seq <= q.seq
      /\ \A q \in Q : \E p \in LastQueued(Q) : p[1] = q.pair[1]
  BY <1>2, LastQueuedIs
<1> HIDE DEF Q
<1>4. /\ drain' \in Drains /\ drain'.at = "offer" /\ drain'.docs = LastQueued(Q)
      /\ drain'.pending = drain.pending /\ drain'.tails = drain.tails
      /\ drain'.mask = mask /\ drain'.deferred = drain.deferred /\ drain'.read = drain.read
  BY <1>1, <1>3 DEF Drains
<1>5. DrainStep
  BY <1>1, <1>4 DEF DrainStep
<1>6. /\ Shapes' /\ Masks' /\ InHand' /\ Backlog' /\ LastIsQueued' /\ Snapshot' /\ Tails'
      /\ SameDocs
  BY <1>5, DrainStepKept
<1>7. /\ Resident' /\ Grouped' /\ Disjoint' /\ Built' /\ Live' /\ Carried' /\ Rebuilt'
      /\ Retiring' /\ Exact'
  <2>1. \A e \in Docs : (Deleted(e)' <=> Deleted(e)) /\ (Resting(e)' => Resting(e))
    BY <1>6 DEF SameDocs
  <2> QED
    BY <1>1, <1>4, <2>1, EarlyStep
<1>8. \A q \in drain.pending \cup pending : q.pair[1] \in Docs /\ q.pair[2] \in Nat /\ q.seq \in Nat
  BY BacklogTypes
<1>9. Supply'
  <2>1. \A p \in LastQueued(Q) : \E q \in drain.pending : q.pair = p
    BY <1>2, <1>3
  <2>2. ASSUME NEW q \in drain.pending, ~ Deleted(q.pair[1])'
        PROVE  q.pair[1] \in Supplied'
    <3>1. q.pair[1] \notin mask
      BY <1>6, <1>8, <2>2 DEF Masks, SameDocs
    <3>2. q \in Q
      BY <3>1 DEF Q
    <3> QED
      BY <1>3, <1>4, <3>2 DEF Supplied
  <2>3. ASSUME NEW p \in LastQueued(Q), Quiet(p[1])'
        PROVE  p[2] = latest[p[1]]
    <3>1. PICK q \in Q : q.pair = p /\ \A r \in Q : r.pair[1] = q.pair[1] => r.seq <= q.seq
      BY <1>3
    <3>2. p[1] \in Docs /\ p[2] \in Nat /\ latest[p[1]] \in Nat /\ q \in drain.pending
      BY <1>2, <1>8, <3>1
    <3>3. Quiet(p[1])
      BY <1>6, <2>3, <3>2 DEF SameDocs
    <3>4. q \in pending
      BY <3>1, <3>2, <3>3 DEF Snapshot, Quiet
    <3>5. PICK r \in pending : r.pair = <<p[1], latest[p[1]]>>
      BY <3>1, <3>3, <3>4 DEF LastIsQueued, Quiet
    <3>6. r \in drain.pending /\ r.pair[1] = p[1] /\ r.pair[2] = latest[p[1]]
      BY <3>3, <3>5 DEF Quiet
    <3>7. r \in Q
      BY <3>1, <3>6 DEF Q
    <3>8. ~ (q.seq < r.seq)
      BY <1>8, <3>1, <3>2, <3>6, <3>7
    <3>9. ~ (q.pair[2] < r.pair[2]) /\ q.pair[2] <= latest[p[1]]
      BY <3>1, <3>2, <3>4, <3>5, <3>6, <3>8 DEF Backlog
    <3> QED
      BY <3>1, <3>2, <3>6, <3>9
  <2> QED
    BY <1>1, <1>4, <2>1, <2>2, <2>3 DEF Supply
<1> QED
  BY <1>6, <1>7, <1>9

LEMMA DeferredStep ==
  ASSUME Inv, layout \in Layouts, deferredReEmitIDs
  PROVE  Inv'
<1> USE DEF Inv, Shapes
<1>1. /\ drain.at = "offer"
      /\ drain' = [drain EXCEPT !.at = "group", !.deferred = mask]
      /\ UNCHANGED <<set, mask, reclaim, pending, tails, writer, del, seq, latest, layout, owed, upsets>>
  BY DEF deferredReEmitIDs, At, store, backlog, clients, env
<1>2. /\ drain' \in Drains /\ drain'.at = "group" /\ drain'.docs = drain.docs
      /\ drain'.pending = drain.pending /\ drain'.tails = drain.tails
      /\ drain'.mask = drain.mask /\ drain'.deferred = mask /\ drain'.read = drain.read
  BY <1>1 DEF Drains
<1>3. DrainStep
  BY <1>1, <1>2 DEF DrainStep
<1>4. /\ Shapes' /\ Masks' /\ InHand' /\ Backlog' /\ LastIsQueued' /\ Snapshot' /\ Tails'
      /\ SameDocs
  BY <1>3, DrainStepKept
<1>5. /\ Resident' /\ Grouped' /\ Disjoint' /\ Built' /\ Live' /\ Carried' /\ Rebuilt'
      /\ Retiring' /\ Exact'
  <2>1. \A e \in Docs : (Deleted(e)' <=> Deleted(e)) /\ (Resting(e)' => Resting(e))
    BY <1>4 DEF SameDocs
  <2> QED
    BY <1>1, <1>2, <2>1, EarlyStep
<1>6. Supply'
  BY <1>1, <1>2, <1>3, <1>4, SupplyOn
<1> QED
  BY <1>4, <1>5, <1>6

\* A step of the drain between the publish and the unload, or after it: it
\* writes the disk and the mask, or picks the tails to unload.
LEMMA QuietStep ==
  ASSUME Inv, DrainStep, UNCHANGED <<set, writer>>, Retiring',
         \/ /\ drain.at \in {"put", "remove", "cover"}
            /\ drain'.at \in {"remove", "cover", "unload"}
         \/ drain.at \in Late /\ drain'.at \in Late,
         drain'.docs = drain.docs, drain'.out = drain.out
  PROVE  Inv'
<1> USE DEF Inv
<1>1. set' = set /\ writer' = writer /\ latest' = latest /\ drain'.tails = drain.tails
  BY DEF DrainStep
<1>2. /\ Shapes' /\ Masks' /\ InHand' /\ Backlog' /\ LastIsQueued' /\ Snapshot' /\ Tails'
      /\ SameDocs
  BY DrainStepKept
<1>3. Supply' /\ Supplied' = Supplied /\ Supplied \subseteq Docs
  BY SupplyOn DEF Late
<1>4. TailIds' = TailIds /\ Outs' = Outs
  BY <1>1 DEF TailIds, Outs
<1>5. /\ drain.at \in After <=> drain'.at \in After
      /\ drain.at \in Late <=> drain'.at \in Late
      /\ drain.at \notin {"harvest", "swap"} \cup Early
  BY DEF After, Late, Early
<1>6. Resident'
  BY <1>1 DEF Resident
<1>7. Grouped' /\ Built' /\ Carried'
  BY DEF Grouped, Built, Carried, Before, Late
<1>8. Disjoint'
  BY <1>1, <1>3, <1>4, <1>5 DEF Disjoint
<1>9. \A d, X : Alive(d, X)' <=> Alive(d, X)
  BY <1>1 DEF Alive
<1>10. Live'
  BY <1>2, <1>5, <1>9 DEF Live, SameDocs, Blanked
<1>11. Rebuilt'
  BY <1>2, <1>3, <1>4, <1>5, <1>9 DEF Rebuilt, SameDocs
<1>12. \A i \in DOMAIN set : \A p \in LivePairs(set[i]) : p[1] \in Docs
  BY EntryTypes DEF Shapes, LivePairs
<1>13. Exact'
  <2> SUFFICES ASSUME NEW i \in DOMAIN set, NEW p \in LivePairs(set[i])
               PROVE  \/ p[2] = latest[p[1]]
                      \/ /\ ~ Resting(p[1])'
                         /\ drain'.at \in After /\ Quiet(p[1])' /\ p[1] \in Supplied =>
                              set[i].seg \in TailIds \ Outs
                         /\ drain'.at \in Late => ~ (Quiet(p[1])' /\ p[1] \in Supplied)
    BY <1>1, <1>3, <1>4 DEF Exact
  <2> QED
    BY <1>2, <1>5, <1>12 DEF Exact, SameDocs
<1> QED
  BY <1>2, <1>3, <1>6, <1>7, <1>8, <1>10, <1>11, <1>13

LEMMA DiskStep ==
  ASSUME Inv, layout \in Layouts,
         HookPut \/ HookRemove \/ Export \/ Write \/ TrimLoad \/ TrimSave
  PROVE  Inv'
<1> USE DEF Inv, Shapes
<1>1. UNCHANGED <<set, reclaim, pending, tails, writer, del, seq, latest, layout, owed>>
  BY DEF HookPut, HookRemove, Export, Write, TrimLoad, TrimSave, store, backlog, clients, env
<1>2. /\ drain \in Drains /\ mask \subseteq Docs
      /\ drain.read \subseteq Docs /\ drain.diff \subseteq Entries
  BY DEF Drains
<1>3. CASE HookPut \/ HookRemove
  <2>1. mask' = mask /\ drain.at \in {"put", "remove"}
    BY <1>3 DEF HookPut, HookRemove, At
  <2>2. drain' = drain \/ \E a \in {"remove", "cover"} : drain' = [drain EXCEPT !.at = a]
    BY <1>3 DEF HookPut, HookRemove
  <2>3. drain' = drain => drain.at = "remove"
    BY <1>3 DEF HookPut, HookRemove, At, Drains
  <2>4. /\ drain' \in Drains /\ drain'.at \in {"remove", "cover"}
        /\ drain'.docs = drain.docs /\ drain'.out = drain.out
        /\ drain'.pending = drain.pending /\ drain'.tails = drain.tails
        /\ drain'.mask = drain.mask /\ drain'.deferred = drain.deferred
        /\ drain'.read = drain.read
    BY <1>2, <2>2, <2>3 DEF Drains
  <2>5. DrainStep
    BY <1>1, <2>1, <2>4 DEF DrainStep
  <2>6. Retiring'
    BY <2>4 DEF Retiring, Late
  <2> QED
    BY <1>1, <2>1, <2>4, <2>5, <2>6, QuietStep
<1>4. CASE Export \/ Write
  <2>1. mask' = mask /\ drain.at \in Late
    BY <1>4 DEF Export, Write, At, store, Late
  <2>2. \E a \in Late, X \in SUBSET Entries : drain' = [drain EXCEPT !.at = a, !.diff = X]
    <3>1. CASE Export
      <4>1. {set[i] : i \in {j \in DOMAIN set : set[j].seg \notin DOMAIN disk}} \subseteq Entries
        BY EntryTypes
      <4> QED
        BY <3>1, <4>1 DEF Export, Late
    <3>2. CASE Write
      <4>1. CASE \E e \in drain.diff : drain' = [drain EXCEPT !.diff = @ \ {e}]
        <5>1. PICK e \in drain.diff : drain' = [drain EXCEPT !.diff = @ \ {e}]
          BY <4>1
        <5>2. drain' = [drain EXCEPT !.at = drain.at, !.diff = drain.diff \ {e}]
          BY <1>2, <5>1 DEF Drains
        <5> QED
          BY <1>2, <2>1, <5>2
      <4>2. CASE drain' = [drain EXCEPT !.at = "trim"]
        <5>1. drain' = [drain EXCEPT !.at = "trim", !.diff = drain.diff]
          BY <1>2, <4>2 DEF Drains
        <5> QED
          BY <1>2, <5>1 DEF Late
      <4> QED
        BY <3>2, <4>1, <4>2 DEF Write
    <3> QED
      BY <1>4, <3>1, <3>2
  <2>3. PICK a \in Late, X \in SUBSET Entries : drain' = [drain EXCEPT !.at = a, !.diff = X]
    BY <2>2
  <2>4. /\ drain' \in Drains /\ drain'.at \in Late
        /\ drain'.docs = drain.docs /\ drain'.out = drain.out
        /\ drain'.pending = drain.pending /\ drain'.tails = drain.tails
        /\ drain'.mask = drain.mask /\ drain'.deferred = drain.deferred
        /\ drain'.read = drain.read
    BY <1>2, <2>3 DEF Drains, Late
  <2>5. DrainStep
    BY <1>1, <2>1, <2>4 DEF DrainStep
  <2>6. Retiring'
    BY <2>4 DEF Retiring, Late
  <2> QED
    BY <1>1, <2>1, <2>4, <2>5, <2>6, QuietStep
<1>5. CASE TrimLoad \/ TrimSave
  <2>1. mask' \subseteq mask \cup drain.read /\ drain.at \in Late
    BY <1>5 DEF TrimLoad, TrimSave, At, store, Late
  <2>2. \E a \in Late, X \in SUBSET (mask \cup drain.read) :
           drain' = [drain EXCEPT !.at = a, !.read = X]
    <3>1. CASE drain' = [drain EXCEPT !.at = "clear"]
      <4>1. drain' = [drain EXCEPT !.at = "clear", !.read = drain.read]
        BY <1>2, <3>1 DEF Drains
      <4> QED
        BY <4>1 DEF Late
    <3>2. CASE drain' = [drain EXCEPT !.at = "save", !.read = mask]
      BY <3>2 DEF Late
    <3> QED
      BY <1>5, <3>1, <3>2 DEF TrimLoad, TrimSave
  <2>3. PICK a \in Late, X \in SUBSET (mask \cup drain.read) :
           drain' = [drain EXCEPT !.at = a, !.read = X]
    BY <2>2
  <2>4. /\ drain' \in Drains /\ drain'.at \in Late
        /\ drain'.docs = drain.docs /\ drain'.out = drain.out
        /\ drain'.pending = drain.pending /\ drain'.tails = drain.tails
        /\ drain'.mask = drain.mask /\ drain'.deferred = drain.deferred
        /\ drain'.read = X
    BY <1>2, <2>3 DEF Drains, Late
  <2>5. DrainStep
    BY <1>1, <1>2, <2>1, <2>4 DEF DrainStep
  <2>6. Retiring'
    BY <2>4 DEF Retiring, Late
  <2> QED
    BY <1>1, <2>1, <2>4, <2>5, <2>6, QuietStep
<1> QED
  BY <1>3, <1>4, <1>5

LEMMA CoverStep ==
  ASSUME Inv, layout \in Layouts, Cover
  PROVE  Inv'
<1> DEFINE R == {s \in TailIds \ Outs : \A i \in DOMAIN set : set[i].seg = s =>
                     DocsOf(LivePairs(set[i])) \subseteq Superseded \cup drain.mask}
<1> USE DEF Inv, Shapes
<1>1. /\ drain.at = "cover" /\ drain \in Drains
      /\ drain' = [drain EXCEPT !.at = "unload", !.retire = R]
      /\ UNCHANGED <<set, mask, reclaim, pending, tails, writer, del, seq, latest, layout, owed, upsets>>
  BY DEF Cover, At, store, backlog, clients, env
<1>2. R \subseteq TailIds \ Outs /\ TailIds \subseteq Segs
  BY BacklogTypes DEF TailIds
<1>3. ASSUME NEW s \in TailIds \ Outs, DocsOf(s) \subseteq Supplied
      PROVE  s \in R
  BY <1>3 DEF DocsOf, LivePairs, Superseded
<1> HIDE DEF R
<1>4. /\ drain' \in Drains /\ drain'.at = "unload" /\ drain'.retire = R
      /\ drain'.docs = drain.docs /\ drain'.out = drain.out
      /\ drain'.pending = drain.pending /\ drain'.tails = drain.tails
      /\ drain'.mask = drain.mask /\ drain'.deferred = drain.deferred
      /\ drain'.read = drain.read
  BY <1>1, <1>2 DEF Drains
<1>5. DrainStep
  BY <1>1, <1>4 DEF DrainStep
<1>6. Retiring'
  <2>1. Supplied' = Supplied /\ TailIds' = TailIds /\ Outs' = Outs
    BY <1>4 DEF Supplied, TailIds, Outs
  <2> QED
    BY <1>2, <1>3, <1>4, <2>1 DEF Retiring
<1> QED
  BY <1>1, <1>4, <1>5, <1>6, QuietStep

\* The partitions of a group: in range, with the dirty ones, and closed.
LEMMA ClosedGroup ==
  ASSUME set \in Seq(Entries), NEW dirty, dirty \subseteq Parts
  PROVE  /\ closeOverConstituency(dirty) \subseteq Parts
         /\ dirty \subseteq closeOverConstituency(dirty)
         /\ \A s \in Constituents :
              PartsOf(s) \cap closeOverConstituency(dirty) # {} =>
                PartsOf(s) \subseteq closeOverConstituency(dirty)
<1> DEFINE Closed(S) == \A s \in Constituents :
                          PartsOf(s) \cap S # {} => PartsOf(s) \subseteq S
<1>1. closeOverConstituency(dirty) =
         {p \in Parts : \A S \in SUBSET Parts : dirty \subseteq S /\ Closed(S) => p \in S}
  BY DEF closeOverConstituency
<1>2. closeOverConstituency(dirty) \subseteq Parts /\ dirty \subseteq closeOverConstituency(dirty)
  BY <1>1
<1>3. ASSUME NEW s \in Constituents, PartsOf(s) \cap closeOverConstituency(dirty) # {}
      PROVE  PartsOf(s) \subseteq closeOverConstituency(dirty)
  <2>1. PartsOf(s) \subseteq Parts
    <3>1. s \in Segs
      BY EntryTypes DEF Constituents
    <3>2. DocsOf(s) \subseteq Docs
      BY <3>1 DEF DocsOf, Segs
    <3> QED
      BY <3>2 DEF PartsOf, Parts
  <2>2. PICK x \in PartsOf(s) : x \in closeOverConstituency(dirty)
    BY <1>3
  <2>3. ASSUME NEW S \in SUBSET Parts, dirty \subseteq S, Closed(S)
        PROVE  PartsOf(s) \subseteq S
    <3>1. x \in S
      BY <1>1, <2>2, <2>3
    <3> QED
      BY <2>2, <2>3, <3>1
  <2> QED
    BY <1>1, <2>1, <2>3
<1> QED
  BY <1>2, <1>3

LEMMA GroupStep ==
  ASSUME Inv, layout \in Layouts, Group
  PROVE  Inv'
<1> DEFINE w == closeOverConstituency({PartOf(d) : d \in Superseded})
           u == {s \in Constituents : PartsOf(s) \cap w # {}}
<1> USE DEF Inv, Shapes
<1>1. /\ drain.at = "group" /\ drain \in Drains
      /\ drain' = [drain EXCEPT !.at = "resolve", !.work = w, !.union = u]
      /\ UNCHANGED <<set, mask, reclaim, pending, tails, writer, del, seq, latest, layout, owed, upsets>>
  BY DEF Group, At, store, backlog, clients, env
<1>2. Superseded \subseteq Docs /\ Supplied \subseteq Superseded
  BY BacklogTypes DEF Superseded, Supplied, Drains
<1>3. {PartOf(d) : d \in Superseded} \subseteq Parts
  BY <1>2 DEF Parts
<1>4. /\ w \subseteq Parts
      /\ {PartOf(d) : d \in Superseded} \subseteq w
      /\ \A s \in Constituents : PartsOf(s) \cap w # {} => PartsOf(s) \subseteq w
  BY <1>3, ClosedGroup
<1> HIDE DEF w
<1>5. /\ u \subseteq IdsOf(set) /\ \A s \in u : s \notin TailIds /\ PartsOf(s) \subseteq w
      /\ \A s \in IdsOf(set) \ TailIds : PartsOf(s) \cap w # {} => s \in u
  BY <1>4 DEF Constituents
<1> HIDE DEF u
<1>6. u \subseteq Segs /\ w \subseteq Nat
  <2>1. Parts \subseteq Nat
    BY PartType DEF Parts, PartOf
  <2> QED
    BY <1>4, <1>5, <2>1, EntryTypes
<1>7. /\ drain' \in Drains /\ drain'.at = "resolve" /\ drain'.docs = drain.docs
      /\ drain'.work = w /\ drain'.union = u
      /\ drain'.pending = drain.pending /\ drain'.tails = drain.tails
      /\ drain'.mask = drain.mask /\ drain'.deferred = drain.deferred
      /\ drain'.read = drain.read
  BY <1>1, <1>6 DEF Drains
<1>8. DrainStep
  BY <1>1, <1>7 DEF DrainStep
<1>9. /\ Shapes' /\ Masks' /\ InHand' /\ Backlog' /\ LastIsQueued' /\ Snapshot' /\ Tails'
      /\ SameDocs
  BY <1>8, DrainStepKept
<1>10. Supply' /\ Supplied' = Supplied
  BY <1>1, <1>7, <1>8, SupplyOn
<1>11. /\ Resident' /\ Disjoint' /\ Built' /\ Live' /\ Carried' /\ Rebuilt'
       /\ Retiring' /\ Exact'
  <2>1. \A e \in Docs : (Deleted(e)' <=> Deleted(e)) /\ (Resting(e)' => Resting(e))
    BY <1>9 DEF SameDocs
  <2> QED
    BY <1>1, <1>7, <2>1, EarlyStep
<1>12. Grouped'
  <2>1. /\ TailIds' = TailIds /\ Parts' = Parts /\ set' = set
        /\ \A d : PartOf(d)' = PartOf(d)
        /\ \A s : PartsOf(s)' = PartsOf(s)
    BY <1>1, <1>7 DEF TailIds, Parts, PartOf, PartsOf
  <2>2. \A d \in Supplied : PartOf(d) \in w
    BY <1>2, <1>4
  <2>3. ASSUME NEW i \in DOMAIN set, NEW p \in set[i].seg, PartOf(p[1]) \in w,
               set[i].seg \notin u
        PROVE  set[i].seg \in TailIds
    <3>1. PartOf(p[1]) \in PartsOf(set[i].seg) /\ set[i].seg \in IdsOf(set)
      BY DEF PartsOf, DocsOf, IdsOf
    <3> QED
      BY <1>5, <2>3, <3>1
  <2> QED
    BY <1>4, <1>5, <1>7, <1>10, <2>1, <2>2, <2>3 DEF Grouped
<1> QED
  BY <1>9, <1>10, <1>11, <1>12

LEMMA ResolveStep ==
  ASSUME Inv, layout \in Layouts, Resolve
  PROVE  Inv'
<1> USE DEF Inv, Shapes
<1>1. /\ drain.at = "resolve" /\ drain \in Drains
      /\ drain' = [drain EXCEPT !.at = "harvest", !.union = drain.union \cap IdsOf(set)]
      /\ set' = killSuperseded(set, Superseded)
      /\ UNCHANGED <<mask, reclaim, pending, tails, writer, del, seq, latest, layout, owed, upsets>>
  BY DEF Resolve, At, store, backlog, clients, env
<1>2. drain.union \cap IdsOf(set) = drain.union
  BY <1>1 DEF Grouped, Before
<1>3. /\ drain' \in Drains /\ drain'.at = "harvest" /\ drain'.docs = drain.docs
      /\ drain'.work = drain.work /\ drain'.union = drain.union
      /\ drain'.pending = drain.pending /\ drain'.tails = drain.tails
      /\ drain'.mask = drain.mask /\ drain'.deferred = drain.deferred
      /\ drain'.read = drain.read
  BY <1>1, <1>2 DEF Drains
<1>4. Superseded \subseteq Docs
  BY BacklogTypes DEF Superseded, Supplied, Drains
<1>5. /\ SameSegs /\ set' \in Seq(Entries)
      /\ \A i \in DOMAIN set :
              /\ set[i].dead \subseteq set'[i].dead
              /\ set'[i].dead \subseteq DocsOf(set[i].seg)
              /\ set'[i].dead \subseteq set[i].dead \cup Superseded
  BY <1>1, <1>4, KillBits
<1>6. DrainStep
  BY <1>1, <1>3, <1>5 DEF DrainStep
<1>7. /\ Shapes' /\ Masks' /\ InHand' /\ Backlog' /\ LastIsQueued' /\ Snapshot' /\ Tails'
      /\ SameDocs
  BY <1>6, DrainStepKept
<1>8. Supply' /\ Supplied' = Supplied
  BY <1>1, <1>3, <1>6, SupplyOn
<1>9. Resident'
  BY <1>1, <1>5 DEF Resident, SameSegs
<1>10. \A i \in DOMAIN set : \A p \in set[i].seg : p[1] \in Docs /\ p[2] \in Nat
  BY EntryTypes
<1>11. Grouped'
  <2>1. /\ TailIds' = TailIds /\ Parts' = Parts /\ IdsOf(set') = IdsOf(set)
        /\ \A d : PartOf(d)' = PartOf(d)
        /\ \A s : PartsOf(s)' = PartsOf(s)
    BY <1>1, <1>3, <1>5 DEF TailIds, Parts, PartOf, PartsOf, IdsOf, SameSegs
  <2>2. \A i \in DOMAIN set : \A p \in set[i].seg :
           writer'[p[1]] = writer[p[1]] /\ (Quiet(p[1])' <=> Quiet(p[1]))
    BY <1>1, <1>7, <1>10 DEF SameDocs
  <2>3. drain.at \in Before
    BY <1>1 DEF Before
  <2> QED
    BY <1>3, <1>5, <1>8, <2>1, <2>2, <2>3 DEF Grouped, SameSegs
<1>12. Disjoint'
  BY <1>1, <1>5 DEF Disjoint, SameSegs, After
<1>13. \A i \in DOMAIN set :
          /\ LivePairs(set'[i]) \subseteq LivePairs(set[i])
          /\ \A p \in LivePairs(set[i]) : p[1] \notin Superseded => p \in LivePairs(set'[i])
  BY <1>5 DEF LivePairs, SameSegs
<1>14. Live'
  <2> SUFFICES ASSUME NEW d \in Docs, ~ Deleted(d)', d \notin Supplied
               PROVE  Alive(d, {})'
    BY <1>3, <1>8 DEF Live
  <2>1. ~ Deleted(d) /\ d \notin Superseded
    BY <1>7 DEF SameDocs, Masks, Superseded
  <2>b. ~ Blanked(d)
    BY <1>1, <2>1 DEF Blanked, Supply, Superseded
  <2>2. PICK i \in DOMAIN set : d \in DocsOf(LivePairs(set[i]))
    BY <1>1, <2>1, <2>b DEF Live, Alive, Superseded
  <2>3. PICK p \in LivePairs(set[i]) : p[1] = d
    BY <2>2 DEF DocsOf
  <2>4. d \in DocsOf(LivePairs(set'[i]))
    BY <1>13, <2>1, <2>3 DEF DocsOf
  <2> QED
    BY <1>5, <2>4 DEF Alive, SameSegs
<1>15. Exact'
  <2> SUFFICES ASSUME NEW i \in DOMAIN set', NEW p \in LivePairs(set'[i])
               PROVE  p[2] = latest'[p[1]] \/ ~ Resting(p[1])'
    BY <1>3 DEF Exact, After, Late
  <2>1. i \in DOMAIN set /\ p \in LivePairs(set[i]) /\ p[1] \in Docs
    BY <1>5, <1>10, <1>13 DEF SameSegs, LivePairs
  <2> QED
    BY <1>1, <1>7, <2>1 DEF Exact, SameDocs
<1>16. Built' /\ Carried' /\ Rebuilt' /\ Retiring'
  BY <1>3 DEF Built, Carried, Rebuilt, Retiring, After
<1> QED
  BY <1>7, <1>8, <1>9, <1>11, <1>12, <1>14, <1>15, <1>16

\* What a partition's rebuild holds: all the queue supplies of it, copies that
\* were live in the group of documents it does not, and one of each of those.
LEMMA HarvestsAre ==
  ASSUME Inv, gone = {}, NEW p, NEW o \in Harvests(p)
  PROVE  /\ o \in Segs
         /\ Fresh(p) \subseteq o
         /\ \A q \in o :
              /\ PartOf(q[1]) = p
              /\ \/ q \in drain.docs
                 \/ /\ q[1] \notin Supplied
                    /\ \E i \in DOMAIN set :
                         set[i].seg \in drain.union /\ q \in LivePairs(set[i])
         /\ DocsOf(Harvestable(p)) \subseteq DocsOf(o)
<1> USE DEF Inv, Shapes
<1>1. PICK h \in SUBSET Harvestable(p) :
         o = Fresh(p) \cup h /\ DocsOf(h) = DocsOf(Harvestable(p))
  BY DEF Harvests
<1>2. \A q \in Harvestable(p) :
         /\ PartOf(q[1]) = p /\ q[1] \notin Supplied
         /\ \E i \in DOMAIN set : set[i].seg \in drain.union /\ q \in LivePairs(set[i])
  BY DEF Harvestable, Resolved
<1>3. Fresh(p) \subseteq drain.docs /\ \A q \in Fresh(p) : PartOf(q[1]) = p
  BY DEF Fresh
<1>4. o \in Segs
  <2>1. Fresh(p) \in Segs
    BY <1>3 DEF Drains, Segs
  <2>2. \A i \in DOMAIN set : set[i].seg \in Segs
    BY EntryTypes
  <2>3. Harvestable(p) \in Segs
    BY <1>2, <2>2 DEF LivePairs, Segs
  <2> QED
    BY <1>1, <2>1, <2>3 DEF Segs
<1>5. DocsOf(h) \subseteq DocsOf(o)
  BY <1>1 DEF DocsOf
<1> QED
  BY <1>1, <1>2, <1>3, <1>4, <1>5

\* A tail of the snapshot is one document's, deleted or supplied.
LEMMA TailsAre ==
  ASSUME Inv, drain.at \notin {"idle", "mask"}, NEW s \in TailIds
  PROVE  \E p \in s : s = {p} /\ (Deleted(p[1]) \/ p[1] \in Supplied)
<1>1. PICK t \in drain.tails : s = t.seg
  BY DEF TailIds
<1>2. t \in tails
  BY DEF Inv, Tails
<1>3. PICK p \in t.seg :
         /\ t.seg = {p}
         /\ t \in drain.tails => Deleted(p[1]) \/ \E q \in drain.pending : q.pair = p
  BY <1>2 DEF Inv, Tails
<1>4. Deleted(p[1]) \/ p[1] \in Supplied
  BY <1>3 DEF Inv, Supply
<1> QED
  BY <1>1, <1>3, <1>4

\* The rebuilds of the group's partitions, in order, without the empty ones.
GroupOut(out, n, f) ==
  /\ \A p \in drain.work : out[p] \in Harvests(p)
  /\ Places(out, {p \in drain.work : out[p] # {}}, drain'.out, n, f)

LEMMA HarvestOut ==
  ASSUME Inv, gone = {}, layout \in Layouts, Harvest
  PROVE  /\ \E out, n, f : GroupOut(out, n, f)
         /\ drain' \in Drains /\ drain'.at = "swap" /\ drain'.docs = drain.docs
         /\ drain'.work = drain.work /\ drain'.union = drain.union
         /\ drain'.pending = drain.pending /\ drain'.tails = drain.tails
         /\ drain'.mask = drain.mask /\ drain'.deferred = drain.deferred
         /\ drain'.read = drain.read
<1> USE DEF Inv, Shapes
<1>1. drain.at = "harvest" /\ drain \in Drains /\ drain.work \subseteq Nat
  BY DEF Harvest, At, Drains
<1>2. PICK out :
         /\ \A p \in drain.work : out[p] \in Harvests(p)
         /\ \E built \in Picked(out, {p \in drain.work : out[p] # {}}) :
              drain' = [drain EXCEPT !.at = "swap", !.out = built]
  BY DEF Harvest
<1> DEFINE D == {p \in drain.work : out[p] # {}}
<1>3. PICK built \in Picked(out, D) : drain' = [drain EXCEPT !.at = "swap", !.out = built]
  BY <1>2
<1>4. IsFiniteSet(D) /\ D \subseteq Nat
  <2>1. IsFiniteSet(Docs)
    BY StoreAssumption
  <2>2. IsFiniteSet({PartOf(d) : d \in Docs})
    <3> DEFINE g == [d \in Docs |-> PartOf(d)]
    <3>1. g \in Surjection(Docs, {PartOf(d) : d \in Docs})
      BY DEF Surjection
    <3> HIDE DEF g
    <3> QED
      BY <2>1, <3>1, FS_Surjection
  <2>3. D \subseteq {PartOf(d) : d \in Docs}
    BY <1>1 DEF Grouped, Before, Parts
  <2> HIDE DEF D
  <2>4. IsFiniteSet(D)
    BY <2>2, <2>3, FS_Subset
  <2> QED
    BY <1>1, <2>4 DEF D
<1>5. \A p \in D : p \in drain.work /\ out[p] \in Segs
  BY <1>2, HarvestsAre
<1> HIDE DEF D
<1>6. PICK n, f : Places(out, D, built, n, f)
  BY <1>4, PickedIs
<1>7. built \in Seq(Segs)
  <2>1. /\ n \in Nat /\ f \in [1 .. n -> D] /\ built = [k \in 1 .. n |-> out[f[k]]]
    BY <1>6 DEF Places
  <2>2. built \in [1 .. n -> Segs]
    BY <1>5, <2>1
  <2> QED
    BY <2>1, <2>2
<1>8. /\ drain' \in Drains /\ drain'.at = "swap" /\ drain'.docs = drain.docs
      /\ drain'.work = drain.work /\ drain'.union = drain.union
      /\ drain'.pending = drain.pending /\ drain'.tails = drain.tails
      /\ drain'.mask = drain.mask /\ drain'.deferred = drain.deferred
      /\ drain'.read = drain.read /\ drain'.out = built
  BY <1>1, <1>3, <1>7 DEF Drains
<1>9. GroupOut(out, n, f)
  BY <1>2, <1>6, <1>8 DEF GroupOut, D
<1> QED
  BY <1>8, <1>9

LEMMA HarvestStep ==
  ASSUME Inv, gone = {}, layout \in Layouts, Harvest
  PROVE  Inv'
<1> USE DEF Inv, Shapes
<1>1. /\ drain.at = "harvest"
      /\ UNCHANGED <<set, mask, reclaim, pending, tails, writer, del, seq, latest, layout, owed>>
  BY DEF Harvest, At, store, backlog, clients
<1>2. /\ \E out, n, f : GroupOut(out, n, f)
      /\ drain' \in Drains /\ drain'.at = "swap" /\ drain'.docs = drain.docs
      /\ drain'.work = drain.work /\ drain'.union = drain.union
      /\ drain'.pending = drain.pending /\ drain'.tails = drain.tails
      /\ drain'.mask = drain.mask /\ drain'.deferred = drain.deferred
      /\ drain'.read = drain.read
  BY HarvestOut
<1>3. PICK out, n, f : GroupOut(out, n, f)
  BY <1>2
<1>4. PICK D : D = {p \in drain.work : out[p] # {}}
  OBVIOUS
<1>5. /\ n \in Nat /\ f \in [1 .. n -> D]
      /\ drain'.out = [k \in 1 .. n |-> out[f[k]]]
      /\ \A j, k \in 1 .. n : f[j] = f[k] => j = k
      /\ \A i \in D : \E k \in 1 .. n : f[k] = i
      /\ \A p \in drain.work : out[p] \in Harvests(p)
  BY <1>3, <1>4 DEF GroupOut, Places
<1>6. \A p \in drain.work :
         /\ Fresh(p) \subseteq out[p]
         /\ \A q \in out[p] :
              /\ PartOf(q[1]) = p
              /\ \/ q \in drain.docs
                 \/ /\ q[1] \notin Supplied
                    /\ \E i \in DOMAIN set :
                         set[i].seg \in drain.union /\ q \in LivePairs(set[i])
         /\ DocsOf(Harvestable(p)) \subseteq DocsOf(out[p])
  BY <1>5, HarvestsAre
<1>7. DrainStep
  BY <1>1, <1>2 DEF DrainStep
<1>8. /\ Shapes' /\ Masks' /\ InHand' /\ Backlog' /\ LastIsQueued' /\ Snapshot' /\ Tails'
      /\ SameDocs
  BY <1>7, DrainStepKept
<1>9. Supply' /\ Supplied' = Supplied /\ Supplied \subseteq Docs
  BY <1>1, <1>2, <1>7, SupplyOn
<1>10. /\ TailIds' = TailIds /\ Parts' = Parts /\ Freshes' = Freshes
       /\ \A d : PartOf(d)' = PartOf(d)
       /\ \A s : PartsOf(s)' = PartsOf(s)
       /\ \A p : Fresh(p)' = Fresh(p)
  BY <1>1, <1>2 DEF TailIds, Parts, PartOf, PartsOf, Fresh, Freshes
<1>11. DOMAIN drain'.out = 1 .. n /\ Outs' = {drain'.out[k] : k \in 1 .. n}
  BY <1>5 DEF Outs, Range
<1>12. \A k \in 1 .. n : /\ f[k] \in drain.work
                         /\ drain'.out[k] = out[f[k]] /\ drain'.out[k] # {}
  <2> SUFFICES ASSUME NEW k \in 1 .. n
               PROVE  /\ f[k] \in drain.work
                      /\ drain'.out[k] = out[f[k]] /\ drain'.out[k] # {}
    OBVIOUS
  <2>1. f[k] \in D /\ drain'.out[k] = out[f[k]]
    BY <1>5
  <2>2. f[k] \in drain.work /\ out[f[k]] # {}
    BY <1>4, <2>1
  <2> QED
    BY <2>1, <2>2
<1>13. \A p \in drain.work : out[p] # {} => out[p] \in Outs'
  <2> SUFFICES ASSUME NEW p \in drain.work, out[p] # {}
               PROVE  out[p] \in Outs'
    OBVIOUS
  <2>1. p \in D
    BY <1>4
  <2>2. PICK k \in 1 .. n : f[k] = p
    BY <1>5, <2>1
  <2> QED
    BY <1>11, <1>12, <2>2
<1>14. /\ drain.work \subseteq Parts
       /\ \A s \in drain.union : s \notin TailIds /\ PartsOf(s) \subseteq drain.work
       /\ \A d \in Supplied : PartOf(d) \in drain.work
       /\ \A i \in DOMAIN set : \A p \in set[i].seg :
            PartOf(p[1]) \in drain.work /\ set[i].seg \notin drain.union =>
              set[i].seg \in TailIds \/ writer[p[1]].seg \notin drain.union
  BY <1>1 DEF Grouped, Before
<1>15. \A d \in Supplied : \E s \in Outs' : d \in DocsOf(s)
  <2> SUFFICES ASSUME NEW d \in Supplied
               PROVE  \E s \in Outs' : d \in DocsOf(s)
    OBVIOUS
  <2>1. PICK q \in drain.docs : q[1] = d
    BY DEF Supplied
  <2>2. q \in Fresh(PartOf(d)) /\ PartOf(d) \in drain.work
    BY <1>14, <2>1 DEF Fresh
  <2>3. q \in out[PartOf(d)]
    BY <1>6, <2>2
  <2>4. d \in DocsOf(out[PartOf(d)])
    BY <2>1, <2>3 DEF DocsOf
  <2> QED
    BY <1>13, <2>2, <2>3, <2>4
<1>16. \A i \in DOMAIN set : \A p \in set[i].seg : p[1] \in Docs /\ p[2] \in Nat
  BY EntryTypes
<1>17. Built'
  <2>1. ASSUME NEW k \in 1 .. n, NEW p \in drain'.out[k]
        PROVE  /\ PartOf(p[1]) = f[k]
               /\ \/ p \in drain.docs
                  \/ p[1] \notin Supplied /\ \E s \in drain.union : p \in s
               /\ Resting(p[1])' => p[2] = latest[p[1]]
    <3>1. p \in out[f[k]] /\ f[k] \in drain.work
      BY <1>12
    <3>2. PartOf(p[1]) = f[k]
      BY <1>6, <3>1
    <3>3. CASE p \in drain.docs
      <4>1. PICK q \in drain.pending : q.pair = p
        BY <3>3 DEF Supply
      <4>2. p[1] \in Docs
        BY <3>3, BacklogTypes
      <4>3. ~ Resting(p[1])
        BY <4>1 DEF Snapshot, Resting
      <4> QED
        BY <1>8, <3>2, <3>3, <4>2, <4>3 DEF SameDocs
    <3>4. CASE p \notin drain.docs
      <4>1. PICK i \in DOMAIN set : set[i].seg \in drain.union /\ p \in LivePairs(set[i])
        BY <1>6, <3>1, <3>4
      <4>2. p \in set[i].seg /\ p[1] \in Docs /\ p[1] \notin Supplied
        BY <1>6, <1>16, <3>1, <3>4, <4>1 DEF LivePairs
      <4>3. Resting(p[1]) => p[2] = latest[p[1]]
        BY <4>1 DEF Exact
      <4> QED
        BY <1>8, <3>2, <4>1, <4>2, <4>3 DEF SameDocs
    <3> QED
      BY <3>3, <3>4
  <2>2. ASSUME NEW k \in 1 .. n, NEW p \in drain'.out[k]
        PROVE  PartOf(p[1]) \in drain.work /\ Fresh(PartOf(p[1])) \subseteq drain'.out[k]
    BY <1>6, <1>12, <2>1
  <2>3. ASSUME NEW k \in 1 .. n, NEW l \in 1 .. n, NEW p \in drain'.out[k],
               NEW r \in drain'.out[l], PartOf(p[1]) = PartOf(r[1])
        PROVE  k = l
    <3>1. f[k] = f[l]
      BY <2>1, <2>3
    <3> QED
      BY <1>5, <3>1
  <2> QED
    BY <1>1, <1>2, <1>9, <1>10, <1>11, <1>12, <1>15, <2>1, <2>2, <2>3 DEF Built
<1>18. Carried'
  <2> SUFFICES ASSUME NEW d \in Docs, ~ Deleted(d)', ~ \E s \in Outs' : d \in DocsOf(s)
               PROVE  /\ Alive(d, drain.union \cup Freshes)'
                      /\ writer[d].at = "supersede" => writer[d].seg \notin drain.union
    BY <1>1, <1>2, <1>10 DEF Carried, Alive
  <2>1. ~ Deleted(d) /\ d \notin Supplied
    BY <1>8, <1>15 DEF SameDocs
  <2>2. PICK i \in DOMAIN set : d \in DocsOf(LivePairs(set[i]))
    BY <1>1, <2>1 DEF Live, Alive, Blanked, Early
  <2>3. PICK p \in LivePairs(set[i]) : p[1] = d
    BY <2>2 DEF DocsOf
  <2>4. p \in set[i].seg
    BY <2>3 DEF LivePairs
  <2>5. set[i].seg \notin drain.union
    <3> SUFFICES ASSUME set[i].seg \in drain.union
                 PROVE  FALSE
      OBVIOUS
    <3>1. PartOf(d) \in drain.work
      BY <1>14, <2>3, <2>4 DEF PartsOf, DocsOf
    <3>2. p \in Harvestable(PartOf(d))
      BY <2>1, <2>3 DEF Harvestable, Resolved
    <3>3. d \in DocsOf(out[PartOf(d)])
      <4>1. d \in DocsOf(Harvestable(PartOf(d)))
        BY <2>3, <3>2 DEF DocsOf
      <4> QED
        BY <1>6, <3>1, <4>1
    <3>4. out[PartOf(d)] # {}
      BY <3>3 DEF DocsOf
    <3> QED
      BY <1>13, <3>1, <3>3, <3>4
  <2>6. set[i].seg \notin Freshes
    BY <2>1, <2>3, <2>4 DEF Freshes, Fresh, Supplied
  <2>7. Alive(d, drain.union \cup Freshes)'
    BY <1>1, <1>2, <1>10, <2>2, <2>5, <2>6 DEF Alive
  <2>8. ASSUME writer[d].at = "supersede", writer[d].seg \in drain.union
        PROVE  FALSE
    <3>1. writer[d].seg = {<<d, latest[d]>>}
      BY <2>8 DEF InHand, Idle
    <3>2. PartOf(d) \in drain.work
      <4>1. d \in DocsOf(writer[d].seg)
        BY <3>1 DEF DocsOf
      <4>2. PartOf(d) \in PartsOf(writer[d].seg)
        BY <4>1 DEF PartsOf
      <4> QED
        BY <1>14, <2>8, <4>2
    <3>3. set[i].seg \in TailIds
      BY <1>14, <2>3, <2>4, <2>5, <2>8, <3>2
    <3>4. PICK r \in set[i].seg : set[i].seg = {r} /\ (Deleted(r[1]) \/ r[1] \in Supplied)
      BY <1>1, <3>3, TailsAre
    <3>5. r = p
      BY <2>4, <3>4
    <3> QED
      BY <2>1, <2>3, <3>4, <3>5
  <2> QED
    BY <2>7, <2>8
<1>19. Grouped'
  <2>1. \A i \in DOMAIN set : \A p \in set[i].seg :
           writer'[p[1]] = writer[p[1]] /\ (Quiet(p[1])' <=> Quiet(p[1]))
    BY <1>1, <1>8, <1>16 DEF SameDocs
  <2>2. drain.at \in Before /\ set' = set
    BY <1>1 DEF Before
  <2> QED
    BY <1>2, <1>9, <1>10, <2>1, <2>2 DEF Grouped
<1>20. Resident' /\ Disjoint'
  BY <1>1, <1>2 DEF Resident, Disjoint, After
<1>21. Live'
  <2>1. \A d \in Docs : Alive(d, {})' <=> Alive(d, {})
    BY <1>1 DEF Alive
  <2> QED
    BY <1>1, <1>2, <1>8, <1>9, <2>1 DEF Live, SameDocs, Blanked, Early
<1>22. Exact'
  <2>1. \A i \in DOMAIN set : \A p \in LivePairs(set[i]) :
           p[2] = latest[p[1]] \/ ~ Resting(p[1])'
    BY <1>8, <1>16 DEF Exact, SameDocs, LivePairs
  <2> QED
    BY <1>1, <1>2, <2>1 DEF Exact, After, Late
<1>23. Rebuilt' /\ Retiring'
  BY <1>2 DEF Rebuilt, Retiring, After
<1> QED
  BY <1>8, <1>9, <1>17, <1>18, <1>19, <1>20, <1>21, <1>22, <1>23

\* Nothing built, nothing supplied: the set stands.
LEMMA EmptySwapStep ==
  ASSUME Inv, layout \in Layouts, Swap, drain.out = << >>
  PROVE  Inv'
<1> USE DEF Inv, Shapes
<1>1. /\ drain.at = "swap" /\ drain \in Drains
      /\ drain' = [drain EXCEPT !.at = "cover"]
      /\ UNCHANGED <<set, mask, reclaim, pending, tails, writer, del, seq, latest, layout, owed>>
  BY DEF Swap, At, store, backlog
<1>2. /\ drain' \in Drains /\ drain'.at = "cover" /\ drain'.docs = drain.docs
      /\ drain'.pending = drain.pending /\ drain'.tails = drain.tails
      /\ drain'.mask = drain.mask /\ drain'.deferred = drain.deferred
      /\ drain'.read = drain.read
  BY <1>1 DEF Drains
<1>3. DrainStep
  BY <1>1, <1>2 DEF DrainStep
<1>4. /\ Shapes' /\ Masks' /\ InHand' /\ Backlog' /\ LastIsQueued' /\ Snapshot' /\ Tails'
      /\ SameDocs
  BY <1>3, DrainStepKept
<1>5. Supplied = {}
  <2>1. Outs = {}
    BY DEF Outs, Range
  <2> QED
    BY <1>1, <2>1 DEF Built
<1>6. Supply' /\ Supplied' = {}
  BY <1>1, <1>2, <1>3, <1>5, SupplyOn
<1>7. Resident' /\ Disjoint'
  BY <1>1 DEF Resident, Disjoint, After
<1>8. Live'
  <2>1. \A d \in Docs : Alive(d, {})' <=> Alive(d, {})
    BY <1>1 DEF Alive
  <2> QED
    BY <1>1, <1>4, <1>5, <2>1 DEF Live, SameDocs, Blanked, Early
<1>9. Exact'
  <2>1. \A i \in DOMAIN set : \A p \in LivePairs(set[i]) : p[1] \in Docs
    BY EntryTypes DEF LivePairs
  <2>2. \A i \in DOMAIN set : \A p \in LivePairs(set[i]) :
           p[2] = latest[p[1]] \/ ~ Resting(p[1])'
    BY <1>4, <2>1 DEF Exact, SameDocs
  <2> QED
    BY <1>1, <1>2, <1>6, <2>2 DEF Exact
<1>10. Grouped' /\ Built' /\ Carried' /\ Retiring' /\ Rebuilt'
  BY <1>2, <1>6 DEF Grouped, Built, Carried, Retiring, Rebuilt, Before
<1> QED
  BY <1>4, <1>6, <1>7, <1>8, <1>9, <1>10

\* The entries after the publish: the ones that stay, each once, and after
\* them the outputs, all live.
PublishedSet(n, f) ==
  /\ n \in Nat
  /\ \A i \in DOMAIN set' :
       \/ /\ i \in 1 .. n /\ f[i] \in DOMAIN set /\ set'[i] = set[f[i]]
          /\ set[f[i]].seg \notin drain.union \cup Freshes
       \/ \E k \in DOMAIN drain.out :
            i = n + k /\ set'[i].seg = drain.out[k] /\ set'[i].dead = {}
  /\ \A i, j \in DOMAIN set' : i \in 1 .. n /\ j \in 1 .. n /\ f[i] = f[j] => i = j
  /\ \A m \in DOMAIN set : set[m].seg \notin drain.union \cup Freshes =>
       \E i \in DOMAIN set' : set'[i] = set[m]
  /\ \A k \in DOMAIN drain.out :
       \E i \in DOMAIN set' : set'[i].seg = drain.out[k] /\ set'[i].dead = {}

LEMMA SwapOut ==
  ASSUME Inv, layout \in Layouts, Swap, drain.out # << >>
  PROVE  /\ set' \in Seq(Entries)
         /\ \E n, f : PublishedSet(n, f)
         /\ drain' \in Drains /\ drain'.at \in {"put", "cover"} /\ drain'.docs = drain.docs
         /\ drain'.out = drain.out
         /\ drain'.pending = drain.pending /\ drain'.tails = drain.tails
         /\ drain'.mask = drain.mask /\ drain'.deferred = drain.deferred
         /\ drain'.read = drain.read
<1> USE DEF Inv, Shapes
<1> DEFINE rec == IF GroupRecord.sup = {} THEN NoRecord ELSE GroupRecord
           remove == drain.union \cup Freshes
           added == [i \in DOMAIN drain.out |-> Entry(drain.out[i], {}, rec)]
<1>1. /\ drain \in Drains /\ drain.out \in Seq(Segs) /\ drain.union \subseteq Segs
      /\ Len(drain.out) \in Nat /\ DOMAIN drain.out = 1 .. Len(drain.out)
  BY DEF Drains
<1>2. /\ set' \in withReplacedGroup(set, remove, added)
      /\ drain' = [drain EXCEPT !.at = IF rec = NoRecord THEN "cover" ELSE "put"]
  BY DEF Swap
<1>3. rec \in Records
  <2>1. Outs \subseteq Segs
    BY <1>1 DEF Outs, Range
  <2>2. GroupRecord \in Records /\ NoRecord \in Records
    BY <1>1, <2>1 DEF GroupRecord, NoRecord, Records
  <2> QED
    BY <2>2
<1>4. /\ drain' \in Drains /\ drain'.at \in {"put", "cover"} /\ drain'.docs = drain.docs
      /\ drain'.out = drain.out
      /\ drain'.pending = drain.pending /\ drain'.tails = drain.tails
      /\ drain'.mask = drain.mask /\ drain'.deferred = drain.deferred
      /\ drain'.read = drain.read
  <2>1. PICK a \in {"put", "cover"} : drain' = [drain EXCEPT !.at = a]
    BY <1>2
  <2> QED
    BY <1>1, <2>1 DEF Drains
<1> HIDE DEF rec
<1>5. /\ added \in Seq(Entries) /\ Len(added) = Len(drain.out)
      /\ \A k \in DOMAIN drain.out : added[k].seg = drain.out[k] /\ added[k].dead = {}
  <2>1. ASSUME NEW k \in DOMAIN drain.out
        PROVE  /\ added[k] \in Entries /\ added[k].seg = drain.out[k]
               /\ added[k].dead = {}
    <3>1. drain.out[k] \in Segs
      BY <1>1
    <3> QED
      BY <1>3, <3>1 DEF Entry, Entries
  <2>2. added \in [1 .. Len(drain.out) -> Entries]
    BY <1>1, <2>1
  <2> HIDE DEF added
  <2>3. added \in Seq(Entries) /\ Len(added) = Len(drain.out)
    <3>1. PICK m \in Nat : m = Len(drain.out)
      BY <1>1
    <3>2. added \in [1 .. m -> Entries]
      BY <2>2, <3>1
    <3>3. added \in Seq(Entries) /\ Len(added) = m
      BY <3>2
    <3> QED
      BY <3>1, <3>3
  <2> QED
    BY <2>1, <2>3
<1> HIDE DEF added, remove
<1>6. /\ set' \in Seq(Entries)
      /\ \E n, f : Replaced(set, remove, added, set', n, f)
  BY <1>2, <1>5, ReplacedIs
<1>7. PICK n, f : Replaced(set, remove, added, set', n, f)
  BY <1>6
<1>8. /\ n \in Nat /\ Len(set') = n + Len(drain.out)
      /\ f \in [1 .. n -> DOMAIN set]
      /\ \A k \in 1 .. n : set'[k] = set[f[k]] /\ set[f[k]].seg \notin remove
      /\ \A j, k \in 1 .. n : f[j] = f[k] => j = k
      /\ \A i \in DOMAIN set : set[i].seg \notin remove => \E k \in 1 .. n : f[k] = i
      /\ \A j \in 1 .. Len(drain.out) : set'[n + j] = added[j]
  BY <1>5, <1>7 DEF Replaced
<1>9. DOMAIN set' = 1 .. n + Len(drain.out)
  BY <1>6, <1>8
<1>10. ASSUME NEW i \in DOMAIN set'
       PROVE  \/ /\ i \in 1 .. n /\ f[i] \in DOMAIN set /\ set'[i] = set[f[i]]
                 /\ set[f[i]].seg \notin remove
              \/ \E k \in DOMAIN drain.out :
                   i = n + k /\ set'[i].seg = drain.out[k] /\ set'[i].dead = {}
  <2>1. CASE i \in 1 .. n
    BY <1>8, <2>1
  <2>2. CASE i \notin 1 .. n
    <3>1. i - n \in 1 .. Len(drain.out) /\ n + (i - n) = i
      BY <1>1, <1>8, <1>9, <2>2
    <3>2. i - n \in DOMAIN drain.out /\ set'[n + (i - n)] = added[i - n]
      BY <1>1, <1>8, <3>1
    <3>3. added[i - n].seg = drain.out[i - n] /\ added[i - n].dead = {}
      BY <1>5, <3>2
    <3> QED
      BY <3>1, <3>2, <3>3
  <2> QED
    BY <2>1, <2>2
<1>11. ASSUME NEW m \in DOMAIN set, set[m].seg \notin remove
       PROVE  \E i \in DOMAIN set' : set'[i] = set[m]
  <2>1. PICK k \in 1 .. n : f[k] = m
    BY <1>8, <1>11
  <2>2. k \in DOMAIN set'
    BY <1>1, <1>8, <1>9, <2>1
  <2>3. set'[k] = set[m]
    BY <1>8, <2>1
  <2> QED
    BY <2>2, <2>3
<1>12. ASSUME NEW k \in DOMAIN drain.out
       PROVE  \E i \in DOMAIN set' : set'[i].seg = drain.out[k] /\ set'[i].dead = {}
  <2>1. n + k \in DOMAIN set'
    BY <1>1, <1>8, <1>9
  <2>2. set'[n + k] = added[k]
    BY <1>1, <1>8
  <2> QED
    BY <1>5, <2>1, <2>2
<1>13. PublishedSet(n, f)
  BY <1>8, <1>10, <1>11, <1>12 DEF PublishedSet, remove
<1> QED
  BY <1>4, <1>6, <1>13

\* What an output shares with an entry that stays is a supplied document's
\* tail.
LEMMA SharedIsTail ==
  ASSUME Inv, drain.at = "swap",
         NEW m \in DOMAIN set, set[m].seg \notin drain.union \cup Freshes,
         NEW k \in DOMAIN drain.out, NEW p \in drain.out[k], p \in set[m].seg
  PROVE  p[1] \in Supplied /\ set[m].seg \in TailIds \ Outs
<1> USE DEF Inv
<1>1. /\ PartOf(p[1]) \in drain.work
      /\ \/ p \in drain.docs
         \/ p[1] \notin Supplied /\ \E s \in drain.union : p \in s
  BY DEF Built
<1>2. p \in drain.docs
  <2> SUFFICES ASSUME NEW s \in drain.union, p \in s
               PROVE  FALSE
    BY <1>1
  <2>1. PICK j \in DOMAIN set : set[j].seg = s
    BY DEF Grouped, Before, IdsOf
  <2>2. j # m
    BY <2>1
  <2> QED
    BY <2>1, <2>2 DEF Disjoint, After
<1>3. p[1] \in Supplied
  BY <1>2 DEF Supplied
<1>4. set[m].seg \in TailIds
  BY <1>1, <1>2 DEF Grouped, Before
<1>5. PICK r \in set[m].seg : set[m].seg = {r}
  BY <1>4, TailsAre
<1>6. set[m].seg = {p}
  BY <1>5
<1>7. ASSUME set[m].seg \in Outs
      PROVE  FALSE
  <2>1. PICK l \in DOMAIN drain.out : drain.out[l] = {p}
    BY <1>6, <1>7 DEF Outs, Range
  <2>2. Fresh(PartOf(p[1])) \subseteq {p}
    BY <2>1 DEF Built
  <2>3. p \in Fresh(PartOf(p[1]))
    BY <1>2 DEF Fresh
  <2>4. Fresh(PartOf(p[1])) = {p}
    BY <2>2, <2>3
  <2> QED
    BY <1>1, <1>6, <2>4 DEF Freshes
<1> QED
  BY <1>3, <1>4, <1>7

LEMMA FullSwapStep ==
  ASSUME Inv, layout \in Layouts, Swap, drain.out # << >>
  PROVE  Inv'
<1> USE DEF Inv, Shapes
<1>1. /\ drain.at = "swap" /\ drain \in Drains
      /\ UNCHANGED <<mask, reclaim, pending, tails, del, seq, latest, layout, owed>>
      /\ \E ids : writer' = Forget(ids)
  BY DEF Swap, At, store, backlog
<1>2. /\ set' \in Seq(Entries)
      /\ \E n, f : PublishedSet(n, f)
      /\ drain' \in Drains /\ drain'.at \in {"put", "cover"} /\ drain'.docs = drain.docs
      /\ drain'.out = drain.out
      /\ drain'.pending = drain.pending /\ drain'.tails = drain.tails
      /\ drain'.mask = drain.mask /\ drain'.deferred = drain.deferred
      /\ drain'.read = drain.read
  BY SwapOut
<1>3. PICK n, f : PublishedSet(n, f)
  BY <1>2
<1>4. /\ n \in Nat
      /\ \A i \in DOMAIN set' :
           \/ /\ i \in 1 .. n /\ f[i] \in DOMAIN set /\ set'[i] = set[f[i]]
              /\ set[f[i]].seg \notin drain.union \cup Freshes
           \/ \E k \in DOMAIN drain.out :
                i = n + k /\ set'[i].seg = drain.out[k] /\ set'[i].dead = {}
      /\ \A i, j \in DOMAIN set' : i \in 1 .. n /\ j \in 1 .. n /\ f[i] = f[j] => i = j
      /\ \A m \in DOMAIN set : set[m].seg \notin drain.union \cup Freshes =>
           \E i \in DOMAIN set' : set'[i] = set[m]
      /\ \A k \in DOMAIN drain.out :
           \E i \in DOMAIN set' : set'[i].seg = drain.out[k] /\ set'[i].dead = {}
  BY <1>3 DEF PublishedSet
<1>5. DrainStep
  BY <1>1, <1>2 DEF DrainStep
<1>6. /\ Shapes' /\ Masks' /\ InHand' /\ Backlog' /\ LastIsQueued' /\ Snapshot' /\ Tails'
      /\ SameDocs
      /\ \A e \in Docs : writer'[e].at = writer[e].at /\ writer'[e].seg = writer[e].seg
  BY <1>5, DrainStepKept
<1>7. Supply' /\ Supplied' = Supplied /\ Supplied \subseteq Docs
  BY <1>1, <1>2, <1>5, SupplyOn
<1>8. TailIds' = TailIds /\ Outs' = Outs
  BY <1>2 DEF TailIds, Outs
<1>9. \A i \in DOMAIN set : \A p \in set[i].seg : p[1] \in Docs /\ p[2] \in Nat
  BY EntryTypes
<1>10. \A k \in DOMAIN drain.out : \A p \in drain.out[k] :
          /\ p[1] \in Docs /\ p[2] \in Nat
          /\ PartOf(p[1]) \in drain.work
          /\ \/ p \in drain.docs
             \/ p[1] \notin Supplied /\ \E s \in drain.union : p \in s
          /\ Resting(p[1]) => p[2] = latest[p[1]]
  BY <1>1, BacklogTypes DEF Built
<1>11. \A k \in DOMAIN drain.out : drain.out[k] # {} /\ drain.out[k] \in Outs
  BY <1>1 DEF Built, Outs, Range
<1>12. ASSUME NEW k \in DOMAIN drain.out, NEW p \in drain.out[k]
       PROVE  /\ p[2] <= latest[p[1]]
              /\ writer[p[1]].at = "seal" => p[2] < latest[p[1]]
  <2>1. CASE p \in drain.docs
    <3>1. PICK q \in drain.pending : q.pair = p
      BY <2>1 DEF Supply
    <3> QED
      BY <3>1 DEF Backlog, Idle
  <2>2. CASE \E s \in drain.union : p \in s
    <3>1. PICK s \in drain.union : p \in s
      BY <2>2
    <3>2. PICK i \in DOMAIN set : set[i].seg = s
      BY <1>1 DEF Grouped, Before, IdsOf
    <3> QED
      BY <3>1, <3>2 DEF Resident
  <2> QED
    BY <1>10, <2>1, <2>2
<1>13. Resident'
  <2> SUFFICES ASSUME NEW i \in DOMAIN set'
               PROVE  /\ set'[i].seg # {}
                      /\ set'[i].dead \subseteq DocsOf(set'[i].seg)
                      /\ \A p \in set'[i].seg :
                           /\ p[2] <= latest[p[1]]
                           /\ writer'[p[1]].at = "seal" => p[2] < latest[p[1]]
    BY <1>1 DEF Resident
  <2>1. CASE f[i] \in DOMAIN set /\ set'[i] = set[f[i]]
    BY <1>6, <1>9, <2>1 DEF Resident
  <2>2. CASE \E k \in DOMAIN drain.out : set'[i].seg = drain.out[k] /\ set'[i].dead = {}
    <3>1. PICK k \in DOMAIN drain.out : set'[i].seg = drain.out[k] /\ set'[i].dead = {}
      BY <2>2
    <3> QED
      BY <1>6, <1>10, <1>11, <1>12, <3>1
  <2> QED
    BY <1>4, <2>1, <2>2
<1>14. Disjoint'
  <2> SUFFICES ASSUME NEW i \in DOMAIN set', NEW j \in DOMAIN set', NEW p \in set'[i].seg,
                      p \in set'[j].seg, i # j
               PROVE  /\ p[1] \in Supplied
                      /\ \/ set'[i].seg \in TailIds \ Outs /\ set'[j].seg \in Outs
                         \/ set'[j].seg \in TailIds \ Outs /\ set'[i].seg \in Outs
    BY <1>2, <1>7, <1>8 DEF Disjoint, After
  <2> DEFINE Old1(x) == /\ x \in 1 .. n /\ f[x] \in DOMAIN set /\ set'[x] = set[f[x]]
                        /\ set[f[x]].seg \notin drain.union \cup Freshes
             New1(x, k) == x = n + k /\ set'[x].seg = drain.out[k]
  <2>1. CASE Old1(i) /\ Old1(j)
    <3>1. f[i] # f[j]
      BY <1>4, <2>1
    <3> QED
      BY <1>1, <2>1, <3>1 DEF Disjoint, After
  <2>2. ASSUME NEW k \in DOMAIN drain.out, NEW l \in DOMAIN drain.out, New1(i, k), New1(j, l)
        PROVE  FALSE
    <3>1. k = l
      BY <1>1, <2>2 DEF Built
    <3> QED
      BY <2>2, <3>1
  <2>3. ASSUME NEW l \in DOMAIN drain.out, Old1(i), New1(j, l)
        PROVE  p[1] \in Supplied /\ set'[i].seg \in TailIds \ Outs /\ set'[j].seg \in Outs
    BY <1>1, <1>11, <2>3, SharedIsTail
  <2>4. ASSUME NEW l \in DOMAIN drain.out, Old1(j), New1(i, l)
        PROVE  p[1] \in Supplied /\ set'[j].seg \in TailIds \ Outs /\ set'[i].seg \in Outs
    BY <1>1, <1>11, <2>4, SharedIsTail
  <2>5. /\ Old1(i) \/ \E k \in DOMAIN drain.out : New1(i, k)
        /\ Old1(j) \/ \E k \in DOMAIN drain.out : New1(j, k)
    BY <1>4
  <2> HIDE DEF Old1, New1
  <2> QED
    BY <2>1, <2>2, <2>3, <2>4, <2>5
<1>15. ASSUME NEW k \in DOMAIN drain.out, NEW d \in DocsOf(drain.out[k])
       PROVE  \E i \in DOMAIN set' :
                 set'[i].seg \in Outs /\ d \in DocsOf(LivePairs(set'[i]))
  <2>1. PICK i \in DOMAIN set' : set'[i].seg = drain.out[k] /\ set'[i].dead = {}
    BY <1>4
  <2>2. LivePairs(set'[i]) = drain.out[k]
    BY <2>1 DEF LivePairs
  <2> QED
    BY <1>11, <2>1, <2>2
<1>16. ASSUME NEW d, NEW s \in Outs, d \in DocsOf(s)
       PROVE  \E i \in DOMAIN set' :
                 set'[i].seg \in Outs /\ d \in DocsOf(LivePairs(set'[i]))
  <2>1. PICK k \in DOMAIN drain.out : s = drain.out[k]
    BY DEF Outs, Range
  <2> QED
    BY <1>15, <1>16, <2>1
<1>17. Live'
  <2> SUFFICES ASSUME NEW d \in Docs, ~ Deleted(d)'
               PROVE  Alive(d, {})'
    BY DEF Live
  <2>1. ~ Deleted(d)
    BY <1>6 DEF SameDocs
  <2>2. CASE \E s \in Outs : d \in DocsOf(s)
    BY <1>16, <2>2 DEF Alive
  <2>3. CASE Alive(d, drain.union \cup Freshes)
    <3>1. PICK m \in DOMAIN set : /\ set[m].seg \notin drain.union \cup Freshes
                                  /\ d \in DocsOf(LivePairs(set[m]))
      BY <2>3 DEF Alive
    <3>2. PICK i \in DOMAIN set' : set'[i] = set[m]
      BY <1>4, <3>1
    <3> QED
      BY <3>1, <3>2 DEF Alive
  <2> QED
    BY <1>1, <2>1, <2>2, <2>3 DEF Carried
<1>18. Rebuilt'
  <2> SUFFICES ASSUME NEW d \in Supplied
               PROVE  \E i \in DOMAIN set' : set'[i].seg \notin TailIds \ Outs
                                               /\ d \in DocsOf(LivePairs(set'[i]))
    BY <1>7, <1>8 DEF Rebuilt, Alive
  <2>1. PICK s \in Outs : d \in DocsOf(s)
    BY <1>1 DEF Built
  <2> QED
    BY <1>16, <2>1
<1>19. Exact'
  <2> SUFFICES ASSUME NEW i \in DOMAIN set', NEW p \in LivePairs(set'[i])
               PROVE  \/ p[2] = latest[p[1]]
                      \/ /\ ~ Resting(p[1])'
                         /\ Quiet(p[1])' /\ p[1] \in Supplied => set'[i].seg \in TailIds \ Outs
    BY <1>1, <1>2, <1>7, <1>8 DEF Exact, Late
  <2>0. p \in set'[i].seg
    BY DEF LivePairs
  <2>1. ASSUME p \in drain.docs, Quiet(p[1])
        PROVE  p[2] = latest[p[1]]
    BY <1>1, <2>1 DEF Supply
  <2>2. CASE /\ f[i] \in DOMAIN set /\ set'[i] = set[f[i]]
             /\ set[f[i]].seg \notin drain.union \cup Freshes
    <3>1. p[1] \in Docs /\ p \in LivePairs(set[f[i]]) /\ p \in set[f[i]].seg
      BY <1>9, <2>0, <2>2
    <3>2. p[2] = latest[p[1]] \/ ~ Resting(p[1])
      BY <2>2, <3>1 DEF Exact
    <3>3. ASSUME Quiet(p[1]), p[1] \in Supplied, p[2] # latest[p[1]]
          PROVE  set[f[i]].seg \in TailIds \ Outs
      <4>1. PartOf(p[1]) \in drain.work
        BY <1>1, <3>3 DEF Grouped, Before
      <4>2. set[f[i]].seg \in TailIds
        BY <1>1, <2>2, <3>1, <3>3, <4>1 DEF Grouped, Before
      <4>3. ASSUME set[f[i]].seg \in Outs
            PROVE  FALSE
        <5>1. PICK k \in DOMAIN drain.out : set[f[i]].seg = drain.out[k]
          BY <4>3 DEF Outs, Range
        <5> QED
          BY <1>10, <2>1, <3>1, <3>3, <5>1
      <4> QED
        BY <4>2, <4>3
    <3> QED
      BY <1>6, <2>2, <3>1, <3>2, <3>3 DEF SameDocs
  <2>3. CASE \E k \in DOMAIN drain.out : set'[i].seg = drain.out[k]
    <3>1. PICK k \in DOMAIN drain.out : set'[i].seg = drain.out[k]
      BY <2>3
    <3>2. p[1] \in Docs /\ p \in drain.out[k]
      BY <1>10, <2>0, <3>1
    <3> QED
      BY <1>6, <1>10, <2>1, <3>2 DEF SameDocs
  <2> QED
    BY <1>4, <2>2, <2>3
<1>20. Grouped' /\ Built' /\ Carried' /\ Retiring'
  BY <1>2 DEF Grouped, Built, Carried, Retiring, Before
<1> QED
  BY <1>6, <1>7, <1>13, <1>14, <1>17, <1>18, <1>19, <1>20

LEMMA SwapStep ==
  ASSUME Inv, layout \in Layouts, Swap
  PROVE  Inv'
BY EmptySwapStep, FullSwapStep

LEMMA UnloadStep ==
  ASSUME Inv, layout \in Layouts, Unload
  PROVE  Inv'
<1> USE DEF Inv, Shapes
<1>1. /\ drain.at = "unload" /\ drain \in Drains
      /\ drain' = [drain EXCEPT !.at = "export"]
      /\ set' \in Unloaded(set, drain.retire)
      /\ \E ids : writer' = Forget(ids)
      /\ UNCHANGED <<mask, reclaim, pending, tails, del, seq, latest, layout, owed>>
  BY DEF Unload, At, store, backlog
<1>2. /\ drain' \in Drains /\ drain'.at = "export" /\ drain'.docs = drain.docs
      /\ drain'.pending = drain.pending /\ drain'.tails = drain.tails
      /\ drain'.mask = drain.mask /\ drain'.deferred = drain.deferred
      /\ drain'.read = drain.read
  BY <1>1 DEF Drains
<1>3. set' \in Seq(Entries) /\ \E f : Remains(set, drain.retire, set', f)
  BY <1>1, UnloadedIs
<1>4. PICK f \in [DOMAIN set' -> DOMAIN set] :
         /\ \A k \in DOMAIN set' : set'[k] = set[f[k]] /\ set[f[k]].seg \notin drain.retire
         /\ \A j, k \in DOMAIN set' : f[j] = f[k] => j = k
         /\ \A i \in DOMAIN set :
              set[i].seg \notin drain.retire => \E k \in DOMAIN set' : f[k] = i
  BY <1>3 DEF Remains
<1>5. DrainStep
  BY <1>1, <1>2, <1>3 DEF DrainStep
<1>6. /\ Shapes' /\ Masks' /\ InHand' /\ Backlog' /\ LastIsQueued' /\ Snapshot' /\ Tails'
      /\ SameDocs
      /\ \A e \in Docs : writer'[e].at = writer[e].at
  BY <1>5, DrainStepKept
<1>7. Supply' /\ Supplied' = Supplied /\ Supplied \subseteq Docs
  BY <1>1, <1>2, <1>5, SupplyOn
<1>8. /\ drain.retire \subseteq TailIds \ Outs
      /\ \A s \in TailIds \ Outs : DocsOf(s) \subseteq Supplied => s \in drain.retire
  BY <1>1 DEF Retiring
<1>9. \A i \in DOMAIN set : \A p \in set[i].seg : p[1] \in Docs /\ p[2] \in Nat
  BY EntryTypes
<1>10. \A s \in TailIds \ Outs : \A p \in s : p[1] \in Supplied => s \in drain.retire
  <2> SUFFICES ASSUME NEW s \in TailIds \ Outs, NEW p \in s, p[1] \in Supplied
               PROVE  s \in drain.retire
    OBVIOUS
  <2>1. PICK r \in s : s = {r}
    BY <1>1, TailsAre
  <2>2. DocsOf(s) \subseteq Supplied
    BY <2>1 DEF DocsOf
  <2> QED
    BY <1>8, <2>2
<1>11. Resident'
  <2> SUFFICES ASSUME NEW i \in DOMAIN set'
               PROVE  /\ set'[i].seg # {}
                      /\ set'[i].dead \subseteq DocsOf(set'[i].seg)
                      /\ \A p \in set'[i].seg :
                           /\ p[2] <= latest[p[1]]
                           /\ writer'[p[1]].at = "seal" => p[2] < latest[p[1]]
    BY <1>1 DEF Resident
  <2>1. f[i] \in DOMAIN set /\ set'[i] = set[f[i]]
    BY <1>4
  <2> QED
    BY <1>6, <1>9, <2>1 DEF Resident
<1>12. Disjoint'
  <2> SUFFICES ASSUME NEW i \in DOMAIN set', NEW j \in DOMAIN set', NEW p \in set'[i].seg,
                      p \in set'[j].seg, i # j
               PROVE  FALSE
    BY DEF Disjoint
  <2>1. /\ f[i] \in DOMAIN set /\ f[j] \in DOMAIN set /\ f[i] # f[j]
        /\ p \in set[f[i]].seg /\ p \in set[f[j]].seg
    BY <1>4
  <2>2. /\ p[1] \in Supplied
        /\ set[f[i]].seg \in TailIds \ Outs \/ set[f[j]].seg \in TailIds \ Outs
    BY <2>1 DEF Disjoint
  <2> QED
    BY <1>4, <1>10, <2>1, <2>2
<1>13. ASSUME NEW d \in Docs, Alive(d, drain.retire)
       PROVE  Alive(d, {})'
  <2>1. PICK i \in DOMAIN set :
           set[i].seg \notin drain.retire /\ d \in DocsOf(LivePairs(set[i]))
    BY <1>13 DEF Alive
  <2>2. PICK k \in DOMAIN set' : f[k] = i
    BY <1>4, <2>1
  <2>3. set'[k] = set[i]
    BY <1>4, <2>2
  <2> QED
    BY <2>1, <2>3 DEF Alive
<1>14. Live'
  <2> SUFFICES ASSUME NEW d \in Docs, ~ Deleted(d)'
               PROVE  Alive(d, {})'
    BY DEF Live
  <2>1. ~ Deleted(d)
    BY <1>6 DEF SameDocs
  <2>2. CASE d \in Supplied
    <3>1. Alive(d, TailIds \ Outs)
      BY <1>1, <2>1, <2>2 DEF Rebuilt, After
    <3>2. Alive(d, drain.retire)
      BY <1>8, <3>1 DEF Alive
    <3> QED
      BY <1>13, <3>2
  <2>3. CASE d \notin Supplied
    <3>1. PICK i \in DOMAIN set : d \in DocsOf(LivePairs(set[i]))
      BY <1>1, <2>1, <2>3 DEF Live, Alive, Blanked, Early
    <3>2. PICK p \in set[i].seg : p[1] = d
      BY <3>1 DEF LivePairs, DocsOf
    <3>3. set[i].seg \notin TailIds
      <4> SUFFICES ASSUME set[i].seg \in TailIds
                   PROVE  FALSE
        OBVIOUS
      <4>1. PICK r \in set[i].seg : set[i].seg = {r} /\ (Deleted(r[1]) \/ r[1] \in Supplied)
        BY <1>1, TailsAre
      <4>2. r = p
        BY <3>2, <4>1
      <4> QED
        BY <2>1, <2>3, <3>2, <4>1, <4>2
    <3>4. Alive(d, drain.retire)
      BY <1>8, <3>1, <3>3 DEF Alive
    <3> QED
      BY <1>13, <3>4
  <2> QED
    BY <2>2, <2>3
<1>15. Exact'
  <2> SUFFICES ASSUME NEW i \in DOMAIN set', NEW p \in LivePairs(set'[i]),
                      p[2] # latest[p[1]]
               PROVE  ~ Resting(p[1])' /\ ~ (Quiet(p[1])' /\ p[1] \in Supplied)
    BY <1>1, <1>2, <1>7 DEF Exact, After
  <2>1. /\ f[i] \in DOMAIN set /\ p \in LivePairs(set[f[i]]) /\ p \in set[f[i]].seg
        /\ set[f[i]].seg \notin drain.retire
    BY <1>4 DEF LivePairs
  <2>2. p[1] \in Docs
    BY <1>9, <2>1
  <2>3. /\ ~ Resting(p[1])
        /\ Quiet(p[1]) /\ p[1] \in Supplied => set[f[i]].seg \in TailIds \ Outs
    BY <1>1, <2>1 DEF Exact, After
  <2>4. ~ (Quiet(p[1]) /\ p[1] \in Supplied)
    BY <1>10, <2>1, <2>3
  <2> QED
    BY <1>6, <2>2, <2>3, <2>4 DEF SameDocs
<1>16. Grouped' /\ Built' /\ Carried' /\ Retiring' /\ Rebuilt'
  BY <1>2 DEF Grouped, Built, Carried, Retiring, Rebuilt, Before, After
<1> QED
  BY <1>6, <1>7, <1>11, <1>12, <1>14, <1>15, <1>16

LEMMA ClearStep ==
  ASSUME Inv, layout \in Layouts, clearDirty
  PROVE  Inv'
<1> USE DEF Inv, Shapes
<1>1. /\ drain.at = "clear" /\ drain' = NoDrain
      /\ pending' = pending \ drain.pending /\ tails' = tails \ drain.tails
      /\ UNCHANGED <<set, mask, reclaim, writer, del, seq, latest, layout, owed>>
  BY DEF clearDirty, At, store, clients, env
<1>2. /\ drain'.at = "idle" /\ drain'.pending = {} /\ drain'.tails = {}
      /\ drain'.mask = {} /\ drain'.deferred = {} /\ drain'.read = {} /\ drain'.docs = {}
  BY <1>1 DEF NoDrain
<1>3. drain' \in Drains
  <2>1. << >> \in Seq(Segs)
    OBVIOUS
  <2> QED
    BY <1>1, <2>1 DEF NoDrain, Drains, Segs
<1>4. Shapes'
  <2>1. mask' \subseteq Docs /\ reclaim' = {} /\ owed' = {} /\ seq' \in Nat
    BY <1>1
  <2>2. pending' \subseteq Queued /\ tails' \subseteq Sealed /\ latest' \in [Docs -> Nat]
    BY <1>1
  <2>3. del' \in [Docs -> Deletes] /\ writer' \in [Docs -> Writers] /\ set' \in Seq(Entries)
    BY <1>1
  <2> QED
    BY <1>3, <2>1, <2>2, <2>3
<1>5. /\ \A e : Deleted(e)' <=> Deleted(e)
      /\ \A e : Idle(e)' <=> Idle(e)
  BY <1>1 DEF Deleted, Idle, At
<1>6. Masks'
  BY <1>1, <1>2, <1>5 DEF Masks
<1>7. InHand'
  BY <1>1, <1>5 DEF InHand
<1>8. Backlog'
  <2>1. pending' \cup drain'.pending \subseteq pending \cup drain.pending
    BY <1>1, <1>2
  <2> QED
    BY <1>1, <1>5, <2>1 DEF Backlog
<1>9. \A q \in drain.pending \cup pending : q.pair[1] \in Docs /\ q.pair[2] \in Nat /\ q.seq \in Nat
  BY BacklogTypes
<1>10. LastIsQueued'
  <2> SUFFICES ASSUME NEW q \in pending \ drain.pending, ~ Deleted(q.pair[1]), Idle(q.pair[1])
               PROVE  \E r \in pending \ drain.pending :
                        r.pair = <<q.pair[1], latest[q.pair[1]]>>
    BY <1>1, <1>5 DEF LastIsQueued
  <2>1. PICK r \in pending : r.pair = <<q.pair[1], latest[q.pair[1]]>>
    BY DEF LastIsQueued
  <2>2. r.pair[1] = q.pair[1] /\ r.pair[2] = latest[q.pair[1]]
    BY <2>1
  <2>3. ASSUME r \in drain.pending
        PROVE  FALSE
    <3>1. r.seq < q.seq
      BY <2>2, <2>3 DEF Snapshot
    <3>2. r.pair[2] < q.pair[2]
      BY <2>2, <3>1 DEF Backlog
    <3>3. q.pair[2] <= latest[q.pair[1]]
      BY DEF Backlog
    <3> QED
      BY <1>9, <2>2, <3>2, <3>3
  <2> QED
    BY <2>1, <2>3
<1>11. Snapshot'
  BY <1>2 DEF Snapshot
<1>12. Tails'
  <2>1. ASSUME NEW t \in tails \ drain.tails
        PROVE  /\ t.seq \in 1 .. seq
               /\ \E p \in t.seg :
                 /\ t.seg = {p}
                 /\ p[2] <= latest[p[1]]
                 /\ ~ Idle(p[1]) => p[2] < latest[p[1]]
                 /\ Deleted(p[1]) \/ \E q \in pending \ drain.pending : q.pair = p
    <3>1. /\ t.seq \in 1 .. seq
          /\ \E p \in t.seg :
                 /\ t.seg = {p}
                 /\ p[2] <= latest[p[1]]
                 /\ ~ Idle(p[1]) => p[2] < latest[p[1]]
                 /\ Deleted(p[1]) \/ \E q \in pending : q.pair = p
      BY DEF Tails
    <3>2. \A q \in drain.pending : t.seg # {q.pair}
      BY DEF Tails
    <3> QED
      BY <3>1, <3>2
  <2> QED
    BY <1>1, <1>2, <1>5, <2>1 DEF Tails
<1>13. Supply'
  BY <1>2 DEF Supply
<1>14. Resident' /\ Disjoint'
  BY <1>1 DEF Resident, Disjoint, After
<1>15. Live'
  <2>1. \A d \in Docs : Alive(d, {})' <=> Alive(d, {})
    BY <1>1 DEF Alive
  <2> QED
    BY <1>1, <1>5, <2>1 DEF Live, Blanked, Early
<1>16. Exact'
  <2> SUFFICES ASSUME NEW i \in DOMAIN set, NEW p \in LivePairs(set[i]), Resting(p[1])'
               PROVE  p[2] = latest[p[1]]
    BY <1>1, <1>2 DEF Exact, After, Late
  <2>1. /\ ~ Deleted(p[1]) /\ Idle(p[1])
        /\ \A q \in pending : q.pair[1] = p[1] => q \in drain.pending
    BY <1>1, <1>5 DEF Resting
  <2>2. Quiet(p[1])
    BY <2>1 DEF Quiet
  <2>3. \/ p[2] = latest[p[1]]
        \/ ~ Resting(p[1]) /\ p[1] \notin Supplied
    BY <1>1, <2>2 DEF Exact, Late
  <2>4. Resting(p[1]) \/ p[1] \in Supplied
    BY <1>1, <2>1 DEF Resting, Supply
  <2> QED
    BY <2>3, <2>4
<1>17. Grouped' /\ Built' /\ Carried' /\ Retiring' /\ Rebuilt'
  BY <1>2 DEF Grouped, Built, Carried, Retiring, Rebuilt, Before, After
<1> QED
  BY <1>4, <1>6, <1>7, <1>8, <1>10, <1>11, <1>12, <1>13, <1>14, <1>15, <1>16, <1>17

\* A drain that fails ends where it stands: the backlog and the kills do too.
LEMMA FailStep ==
  ASSUME Inv, layout \in Layouts, GroupAbandoned \/ WriteFails \/ TrimFails
  PROVE  Inv'
<1> USE DEF Inv, Shapes
<1>1. /\ drain' = NoDrain
      /\ UNCHANGED <<set, mask, reclaim, pending, tails, writer, del, seq, latest, layout, owed>>
  BY DEF GroupAbandoned, WriteFails, TrimFails, store, backlog, clients
<1>2. /\ drain'.at = "idle" /\ drain'.pending = {} /\ drain'.tails = {}
      /\ drain'.mask = {} /\ drain'.deferred = {} /\ drain'.read = {} /\ drain'.docs = {}
  BY <1>1 DEF NoDrain
<1>3. drain' \in Drains
  <2>1. << >> \in Seq(Segs)
    OBVIOUS
  <2> QED
    BY <1>1, <2>1 DEF NoDrain, Drains, Segs
<1>4. Shapes'
  <2>1. mask' \subseteq Docs /\ reclaim' = {} /\ owed' = {} /\ seq' \in Nat
    BY <1>1
  <2>2. pending' \subseteq Queued /\ tails' \subseteq Sealed /\ latest' \in [Docs -> Nat]
    BY <1>1
  <2>3. del' \in [Docs -> Deletes] /\ writer' \in [Docs -> Writers] /\ set' \in Seq(Entries)
    BY <1>1
  <2> QED
    BY <1>3, <2>1, <2>2, <2>3
<1>5. /\ \A e : Deleted(e)' <=> Deleted(e)
      /\ \A e : Idle(e)' <=> Idle(e)
      /\ \A e : Resting(e)' <=> Resting(e)
  BY <1>1 DEF Deleted, Idle, At, Resting
<1>6. drain.at \in Before \cup Late
  BY DEF GroupAbandoned, WriteFails, TrimFails, At, Before, Late
<1>7. Masks'
  BY <1>1, <1>2, <1>5 DEF Masks
<1>8. InHand'
  BY <1>1, <1>5 DEF InHand
<1>9. Backlog'
  <2>1. pending' \cup drain'.pending \subseteq pending \cup drain.pending
    BY <1>1, <1>2
  <2> QED
    BY <1>1, <1>5, <2>1 DEF Backlog
<1>10. LastIsQueued'
  BY <1>1, <1>5 DEF LastIsQueued
<1>11. Snapshot'
  BY <1>2 DEF Snapshot
<1>12. Tails'
  <2>1. ASSUME NEW t \in tails
        PROVE  /\ t.seq \in 1 .. seq
               /\ \E p \in t.seg :
                 /\ t.seg = {p}
                 /\ p[2] <= latest[p[1]]
                 /\ ~ Idle(p[1]) => p[2] < latest[p[1]]
                 /\ Deleted(p[1]) \/ \E q \in pending : q.pair = p
    BY DEF Tails
  <2> QED
    BY <1>1, <1>2, <1>5, <2>1 DEF Tails
<1>13. Supply'
  BY <1>2 DEF Supply
<1>14. Resident' /\ Disjoint'
  BY <1>1, <1>6 DEF Resident, Disjoint, Before, After, Late
<1>15. Live'
  <2>1. \A d \in Docs : Alive(d, {})' <=> Alive(d, {})
    BY <1>1 DEF Alive
  <2>2. CASE drain.at \in Late
    BY <1>5, <2>1, <2>2 DEF Live, Blanked, Early, Late
  <2>3. CASE drain.at \in Before
    <3>1. GroupAbandoned
      BY <2>3 DEF WriteFails, TrimFails, At, Before
    <3>2. "abandon" \in upsets'
      BY <3>1 DEF GroupAbandoned, Fails
    <3>3. ASSUME NEW d \in Docs, ~ Deleted(d), ~ Alive(d, {})
          PROVE  \E q \in pending : q.pair[1] = d
      <4>1. CASE Blanked(d)
        BY <4>1 DEF Blanked
      <4>2. CASE d \in Supplied
        <5>1. PICK p \in drain.docs : p[1] = d
          BY <4>2 DEF Supplied
        <5>2. PICK q \in drain.pending : q.pair = p
          BY DEF Supply
        <5> QED
          BY <3>3, <5>1, <5>2 DEF Snapshot
      <4> QED
        BY <3>3, <4>1, <4>2 DEF Live
    <3>4. ASSUME NEW d \in Docs, ~ Deleted(d), ~ Alive(d, {})
          PROVE  Blanked(d)'
      BY <1>1, <1>2, <3>2, <3>3, <3>4 DEF Blanked, Early
    <3> QED
      BY <1>5, <2>1, <3>4 DEF Live
  <2> QED
    BY <1>6, <2>2, <2>3
<1>16. Exact'
  <2>1. \A i \in DOMAIN set : \A p \in LivePairs(set[i]) :
           p[2] = latest[p[1]] \/ ~ Resting(p[1])'
    BY <1>5 DEF Exact
  <2> QED
    BY <1>1, <1>2, <2>1 DEF Exact, After, Late
<1>17. Grouped' /\ Built' /\ Carried' /\ Retiring' /\ Rebuilt'
  BY <1>2 DEF Grouped, Built, Carried, Retiring, Rebuilt, Before, After
<1> QED
  BY <1>4, <1>7, <1>8, <1>9, <1>10, <1>11, <1>12, <1>13, <1>14, <1>15, <1>16, <1>17
-----------------------------------------------------------------------------
(* The invariant.                                                           *)

LEMMA InitInv ==
  ASSUME Init
  PROVE  StoreInv
<1>1. /\ layout \in Layouts /\ set = <<Entry(Old, {}, NoRecord)>>
      /\ mask = {} /\ pending = {} /\ tails = {} /\ reclaim = {}
      /\ writer = [d \in Docs |-> NoWrite] /\ del = [d \in Docs |-> NoDelete]
      /\ drain = NoDrain /\ seq = 0 /\ latest = [d \in Docs |-> 1]
      /\ owed = {} /\ faults = 0 /\ crashes = 0 /\ gone = {}
  BY DEF Init
<1>2. Bounds
  <2>1. layout.faults \in Nat /\ layout.crashes \in Nat
    BY <1>1, StoreAssumption
  <2> QED
    BY <1>1, <2>1 DEF Bounds
<1>3. /\ Old \in Segs /\ \A p \in Old : p[1] \in Docs /\ p[2] = 1
      /\ \A d \in Docs : d \in DocsOf(Old)
      /\ Old # {}
  <2>1. \A d \in Docs : <<d, 1>> \in Old
    BY DEF Old
  <2>2. Docs # {}
    BY StoreAssumption
  <2>3. ASSUME NEW d \in Docs
        PROVE  d \in DocsOf(Old)
    <3>1. PICK p \in Old : p = <<d, 1>>
      BY <2>1
    <3>2. p[1] = d
      BY <3>1
    <3> QED
      BY <3>2 DEF DocsOf
  <2>4. \A p \in Old : p[1] \in Docs /\ p[2] = 1 /\ p \in Docs \X Nat
    BY DEF Old
  <2>5. Old \in Segs
    BY <2>4 DEF Segs
  <2>6. Old # {}
    BY <2>1, <2>2
  <2> QED
    BY <2>3, <2>4, <2>5, <2>6
<1>4. /\ set \in Seq(Entries) /\ DOMAIN set = {1}
      /\ set[1].seg = Old /\ set[1].dead = {} /\ LivePairs(set[1]) = Old
  <2>1. /\ Entry(Old, {}, NoRecord) \in Entries /\ Entry(Old, {}, NoRecord).seg = Old
        /\ Entry(Old, {}, NoRecord).dead = {}
    BY <1>3 DEF Entry, Entries, NoRecord, Records
  <2>2. set \in Seq(Entries) /\ DOMAIN set = {1} /\ set[1] = Entry(Old, {}, NoRecord)
    BY <1>1, <2>1
  <2> QED
    BY <2>1, <2>2 DEF LivePairs
<1>5. /\ drain.at = "idle" /\ drain.pending = {} /\ drain.tails = {} /\ drain.mask = {}
      /\ drain.docs = {} /\ drain.deferred = {} /\ drain.read = {} /\ drain \in Drains
  <2>1. << >> \in Seq(Segs)
    OBVIOUS
  <2> QED
    BY <1>1, <2>1 DEF NoDrain, Drains, Segs
<1>6. /\ writer \in [Docs -> Writers] /\ del \in [Docs -> Deletes]
      /\ \A d \in Docs : /\ writer[d].at = "idle" /\ writer[d].seg = {}
                         /\ writer[d].victim = {}
                         /\ del[d].at = "idle" /\ del[d].read = {}
  <2>1. NoWrite \in Writers /\ NoDelete \in Deletes
    BY DEF NoWrite, NoDelete, Writers, Deletes, Segs
  <2> QED
    BY <1>1, <2>1 DEF NoWrite, NoDelete
<1>7. Shapes
  <2>1. latest \in [Docs -> Nat] /\ seq \in Nat
    BY <1>1
  <2>2. pending \subseteq Queued /\ tails \subseteq Sealed /\ mask \subseteq Docs
    BY <1>1
  <2>3. reclaim = {} /\ owed = {}
    BY <1>1
  <2> QED
    BY <1>4, <1>5, <1>6, <2>1, <2>2, <2>3 DEF Shapes
<1>8. Masks
  BY <1>1, <1>5, <1>6 DEF Masks
<1>9. InHand
  BY <1>6 DEF InHand, Idle
<1>10. Resident
  BY <1>1, <1>3, <1>4, <1>6 DEF Resident
<1>11. Backlog /\ LastIsQueued /\ Snapshot
  BY <1>1, <1>5 DEF Backlog, LastIsQueued, Snapshot
<1>12. Tails
  BY <1>1, <1>5 DEF Tails
<1>13. Supply
  BY <1>5 DEF Supply
<1>14. Disjoint
  BY <1>4 DEF Disjoint
<1>15. Live
  <2>1. \A d \in Docs : Alive(d, {})
    BY <1>3, <1>4 DEF Alive
  <2> QED
    BY <2>1 DEF Live
<1>16. Exact
  BY <1>1, <1>3, <1>4 DEF Exact
<1>17. Grouped /\ Built /\ Carried /\ Rebuilt /\ Retiring
  BY <1>5 DEF Grouped, Built, Carried, Rebuilt, Retiring, Before, After
<1> QED
  BY <1>1, <1>2, <1>7, <1>8, <1>9, <1>10, <1>11, <1>12, <1>13, <1>14, <1>15, <1>16, <1>17
     DEF StoreInv, Inv

LEMMA StutterStep ==
  ASSUME Inv, UNCHANGED vars
  PROVE  Inv'
<1>1. /\ set' = set /\ mask' = mask /\ reclaim' = reclaim /\ pending' = pending
      /\ tails' = tails /\ writer' = writer /\ del' = del /\ seq' = seq /\ latest' = latest
      /\ drain' = drain /\ layout' = layout /\ owed' = owed /\ upsets' = upsets
  BY DEF vars, store, backlog, clients, env
<1> USE <1>1 DEF Inv
<1>2. /\ \A e : Deleted(e)' <=> Deleted(e)
      /\ \A e : Idle(e)' <=> Idle(e)
      /\ \A e : Quiet(e)' <=> Quiet(e)
      /\ \A e : Resting(e)' <=> Resting(e)
  BY DEF Deleted, Idle, At, Quiet, Resting
<1>3. DrainDerived
  BY DrainDerivedKept
<1>4. Shapes' /\ Masks' /\ InHand' /\ Resident'
  BY <1>2 DEF Shapes, Masks, InHand, Resident
<1>5. SameBacklog
  BY <1>2 DEF SameBacklog, Shapes
<1>6. Backlog' /\ LastIsQueued' /\ Snapshot' /\ Tails'
  BY <1>5, BacklogKept
<1>7. ClientStep
  BY <1>2 DEF ClientStep, Blanked
<1>8. Supply' /\ Built' /\ Retiring'
  BY <1>7, SupplyKept, BuiltKept
<1>9. Grouped' /\ Disjoint'
  <2>1. SameSegs
    BY DEF SameSegs
  <2> QED
    BY <1>7, <2>1, StructureKept
<1>10. Live' /\ Carried' /\ Rebuilt' /\ Exact'
  BY <1>7, LiveKept
<1> QED
  BY <1>4, <1>6, <1>8, <1>9, <1>10

\* The upsets a drain does not recover from.
Upset ==
  \/ GroupCorrupt \/ HookPutFails \/ Yield \/ Crash
  \/ \E o \in reclaim : DischargePutFails(o)

\* Every other step.
LEMMA CleanStep ==
  ASSUME Inv, gone = {}, layout \in Layouts, [Next]_vars, ~ Upset
  PROVE  Inv'
<1>1. CASE UNCHANGED vars
  BY <1>1, StutterStep
<1>2. CASE \E d \in Docs : BeginWrite(d)
  BY <1>2, BeginWriteStep
<1>3. CASE \E d \in Docs : Seal(d)
  BY <1>3, SealStep
<1>4. CASE \E d \in Docs : Supersede(d)
  BY <1>4, SupersedeStep
<1>5. CASE \E d \in Docs : recordDirty(d)
  BY <1>5, RecordStep
<1>6. CASE \E d \in Docs : Purge(d)
  BY <1>6, PurgeStep
<1>7. CASE \E d \in Docs : SealLoad(d) \/ SealSave(d) \/ SealFails(d) \/ KillSuperseded(d)
  BY <1>7, SealDeleteStep
<1>8. CASE snapshotDirty
  BY <1>8, SnapshotStep
<1>9. CASE DrainMask
  BY <1>9, DrainMaskStep
<1>10. CASE deferredReEmitIDs
  BY <1>10, DeferredStep
<1>11. CASE Group
  BY <1>11, GroupStep
<1>12. CASE Resolve
  BY <1>12, ResolveStep
<1>13. CASE Harvest
  BY <1>13, HarvestStep
<1>14. CASE Swap
  BY <1>14, SwapStep
<1>15. CASE HookPut \/ HookRemove \/ Export \/ Write \/ TrimLoad \/ TrimSave
  BY <1>15, DiskStep
<1>16. CASE Cover
  BY <1>16, CoverStep
<1>17. CASE Unload
  BY <1>17, UnloadStep
<1>18. CASE clearDirty
  BY <1>18, ClearStep
<1>19. CASE GroupAbandoned \/ WriteFails \/ TrimFails
  BY <1>19, FailStep
<1>20. reclaim = {}
  BY DEF Inv, Shapes
<1> QED
  BY <1>1, <1>2, <1>3, <1>4, <1>5, <1>6, <1>7, <1>8, <1>9, <1>10, <1>11, <1>12, <1>13,
     <1>14, <1>15, <1>16, <1>17, <1>18, <1>19, <1>20, Zenon DEF Next, Upset

\* The bounds hold, and an upset is recorded for good.
LEMMA BoundsStep ==
  ASSUME Bounds, [Next]_vars
  PROVE  Bounds' /\ upsets \subseteq upsets'
<1>1. layout.faults \in Nat /\ layout.crashes \in Nat
  BY StoreAssumption DEF Bounds
<1>2. CASE \E k : Fails(k) /\ layout' = layout /\ crashes' = crashes
  BY <1>1, <1>2 DEF Fails, Bounds
<1>3. CASE Crash
  <2>1. /\ layout' = layout /\ faults' = faults /\ crashes' = crashes + 1
        /\ crashes < layout.crashes /\ upsets' = upsets \cup {"crash"}
    BY <1>3 DEF Crash
  <2> QED
    BY <1>1, <2>1 DEF Bounds
<1>4. CASE /\ layout' = layout /\ faults' = faults /\ crashes' = crashes
           /\ upsets \subseteq upsets'
  BY <1>4 DEF Bounds
<1>5. CASE \E d \in Docs : \/ BeginWrite(d) \/ Seal(d) \/ Supersede(d) \/ recordDirty(d)
  BY <1>4, <1>5 DEF BeginWrite, Seal, Supersede, recordDirty, env
<1>6. CASE \E d \in Docs : \/ Purge(d) \/ SealLoad(d) \/ SealSave(d) \/ KillSuperseded(d)
  BY <1>4, <1>6 DEF Purge, SealLoad, SealSave, KillSuperseded, NoteLostUpdate, env
<1>7. CASE snapshotDirty \/ DrainMask \/ deferredReEmitIDs \/ Group \/ Resolve
  BY <1>4, <1>7 DEF snapshotDirty, DrainMask, deferredReEmitIDs, Group, Resolve, env
<1>8. CASE Harvest \/ Swap \/ HookPut \/ HookRemove \/ Cover \/ Unload
  BY <1>4, <1>8 DEF Harvest, Swap, HookPut, HookRemove, Cover, Unload, env
<1>9. CASE Export \/ Write \/ TrimLoad \/ TrimSave \/ clearDirty
  BY <1>4, <1>9 DEF Export, Write, TrimLoad, TrimSave, clearDirty, NoteLostUpdate, env
<1>10. CASE \E d \in Docs : SealFails(d)
  BY <1>2, <1>10 DEF SealFails
<1>11. CASE GroupAbandoned \/ GroupCorrupt \/ HookPutFails \/ WriteFails \/ TrimFails
  BY <1>2, <1>11 DEF GroupAbandoned, GroupCorrupt, HookPutFails, WriteFails, TrimFails
<1>12. CASE \E o \in reclaim : DischargePutFails(o)
  BY <1>2, <1>12 DEF DischargePutFails
<1>13. CASE \E o \in reclaim : \/ DischargeBegins(o) \/ DischargePut(o)
                               \/ DischargeUnload(o) \/ DischargeRemove(o)
  BY <1>4, <1>13 DEF DischargeBegins, DischargePut, DischargeUnload, DischargeRemove, env
<1>14. CASE Yield
  BY <1>4, <1>14 DEF Yield
<1>15. CASE UNCHANGED vars
  BY <1>4, <1>15 DEF vars, env
<1> QED
  BY <1>3, <1>5, <1>6, <1>7, <1>8, <1>9, <1>10, <1>11, <1>12, <1>13, <1>14, <1>15,
     Zenon DEF Next

\* Such an upset is not withstood.
LEMMA UpsetIsNot ==
  ASSUME Upset
  PROVE  ~ Withstood'
<1>1. \E k \in {"corrupt", "retain", "overlap", "crash", "discharge"} : k \in upsets'
  BY DEF Upset, GroupCorrupt, HookPutFails, Yield, Crash, DischargePutFails, Fails
<1> QED
  BY <1>1 DEF Withstood

\* A drain by itself has read every entry it resolved.
LEMMA NoneGone ==
  ASSUME gone = {}, reclaim = {}, [Next]_vars, ~ Upset
  PROVE  gone' = {}
<1>1. CASE \E d \in Docs : \/ BeginWrite(d) \/ Seal(d) \/ Supersede(d) \/ recordDirty(d)
  BY <1>1 DEF BeginWrite, Seal, Supersede, recordDirty, env
<1>2. CASE \E d \in Docs : \/ Purge(d) \/ SealLoad(d) \/ SealSave(d) \/ SealFails(d)
                           \/ KillSuperseded(d)
  BY <1>2 DEF Purge, SealLoad, SealSave, SealFails, KillSuperseded, others, env
<1>3. CASE snapshotDirty \/ DrainMask \/ deferredReEmitIDs \/ Group \/ Resolve
  BY <1>3 DEF snapshotDirty, DrainMask, deferredReEmitIDs, Group, Resolve, env
<1>4. CASE Harvest \/ Swap \/ HookPut \/ HookRemove \/ Cover \/ Unload
  BY <1>4 DEF Harvest, Swap, HookPut, HookRemove, Cover, Unload, env
<1>5. CASE Export \/ Write \/ TrimLoad \/ TrimSave \/ clearDirty
  BY <1>5 DEF Export, Write, TrimLoad, TrimSave, clearDirty, others, env
<1>6. CASE GroupAbandoned \/ WriteFails \/ TrimFails
  BY <1>6 DEF GroupAbandoned, WriteFails, TrimFails, others
<1>7. CASE UNCHANGED vars
  BY <1>7 DEF vars, env
<1> QED
  BY <1>1, <1>2, <1>3, <1>4, <1>5, <1>6, <1>7, Zenon DEF Next, Upset

LEMMA StoreInvStep ==
  ASSUME StoreInv, [Next]_vars
  PROVE  StoreInv'
<1>1. Bounds' /\ upsets \subseteq upsets' /\ layout \in Layouts
  BY BoundsStep DEF StoreInv, Bounds
<1>2. ASSUME Withstood'
      PROVE  Inv' /\ gone' = {}
  <2>1. Withstood
    BY <1>1, <1>2 DEF Withstood
  <2>2. Inv /\ gone = {} /\ ~ Upset
    BY <1>2, <2>1, UpsetIsNot DEF StoreInv
  <2>3. reclaim = {}
    BY <2>2 DEF Inv, Shapes
  <2> QED
    BY <1>1, <2>2, <2>3, CleanStep, NoneGone
<1> QED
  BY <1>1, <1>2 DEF StoreInv

\* The segment manager keeps its invariant, whatever writes, deletes and drain
\* steps interleave (AddAndMarkDirty, DeleteFromBuckets, ReEmitDirtyBuckets)
\* and wherever drains fail that recover: the bounds always, the rest until two
\* drains overlap, a merge reclaim fails, a segment is corrupt or the process
\* ends.
THEOREM StoreInvariant == Spec => []StoreInv
<1>1. Init => StoreInv
  BY InitInv
<1>2. StoreInv /\ [Next]_vars => StoreInv'
  BY StoreInvStep
<1> QED
  BY <1>1, <1>2, PTL DEF Spec
-----------------------------------------------------------------------------
(* What it says.                                                            *)

LEMMA TypesFollow ==
  ASSUME StoreInv, Withstood
  PROVE  TypeOK
<1> USE DEF StoreInv, Inv, Shapes
<1>1. \A i \in DOMAIN set : set[i].dead \subseteq DocsOf(set[i].seg)
  BY DEF Resident
<1>2. ASSUME NEW i \in DOMAIN set, NEW j \in DOMAIN set, set[i].seg = set[j].seg, i # j
      PROVE  FALSE
  <2>1. PICK p \in set[i].seg : p \in set[j].seg
    BY <1>2 DEF Resident
  <2> QED
    BY <1>2, <2>1 DEF Disjoint
<1>3. \A q \in pending : q.seq \in 1 .. seq
  BY DEF Backlog
<1>4. \A t \in tails : t.seq \in 1 .. seq
  BY DEF Tails
<1>5. mask \subseteq Docs /\ owed \subseteq Docs
  OBVIOUS
<1>6. faults \in 0 .. layout.faults /\ crashes \in 0 .. layout.crashes
  BY DEF Bounds
<1> QED
  BY <1>1, <1>2, <1>3, <1>4, <1>5, <1>6 DEF TypeOK

LEMMA BlankFollows ==
  ASSUME StoreInv
  PROVE  NeverBlank
<1> SUFFICES ASSUME Withstood, NEW d \in Docs, ~ Deleted(d),
                    ~ (drain.at \in {"harvest", "swap"} /\ d \in Supplied),
                    ~ ("abandon" \in upsets /\ \E q \in pending : q.pair[1] = d)
             PROVE  \E p \in Searchable : p[1] = d
  BY DEF NeverBlank, Found
<1>1. PICK i \in DOMAIN set : d \in DocsOf(LivePairs(set[i]))
  BY DEF StoreInv, Inv, Live, Alive, Blanked
<1>2. PICK p \in LivePairs(set[i]) : p[1] = d
  BY <1>1 DEF DocsOf
<1> QED
  BY <1>2 DEF Searchable

LEMMA AnswersFollow ==
  ASSUME StoreInv
  PROVE  LatestAnswers
<1> USE DEF StoreInv, Inv, Shapes
<1> SUFFICES ASSUME Withstood, NEW d \in Docs, Settled(d)
             PROVE  {p \in Searchable : p[1] = d} = {<<d, latest[d]>>}
  BY DEF LatestAnswers, Found
<1>1. Resting(d) /\ ~ Deleted(d)
  BY DEF Settled, InFlight, Resting, Idle, At
<1>2. d \notin Supplied
  <2> SUFFICES ASSUME NEW p \in drain.docs, p[1] = d
               PROVE  FALSE
    BY DEF Supplied
  <2>1. PICK q \in drain.pending : q.pair = p
    BY DEF Supply
  <2> QED
    BY <1>1, <2>1 DEF Snapshot, Resting
<1>3. ASSUME NEW p \in Searchable, p[1] = d
      PROVE  p = <<d, latest[d]>>
  <2>1. PICK i \in DOMAIN set : p \in LivePairs(set[i])
    BY DEF Searchable
  <2>2. p[2] = latest[d]
    BY <1>1, <1>3, <2>1 DEF Exact
  <2>3. p \in Docs \X Nat
    <3>1. set[i].seg \in Segs /\ p \in set[i].seg
      BY <2>1, EntryTypes DEF LivePairs
    <3> QED
      BY <3>1 DEF Segs
  <2> QED
    BY <1>3, <2>2, <2>3
<1>4. \E p \in Searchable : p[1] = d
  BY <1>1, <1>2, BlankFollows DEF NeverBlank, Resting, Found
<1> QED
  BY <1>3, <1>4

\* Whatever writes, deletes and failed drains, until two drains overlap, a merge
\* reclaim fails, a segment is corrupt or the process ends: a live bit is
\* cleared only for a member, no segment is resident twice whatever the drain
\* rebuilds and publishes (withReplacedGroup, publishAppend), and the numbers in
\* the backlog were handed out.
THEOREM StoreTypeOK == Spec => [](Withstood => TypeOK)
<1>1. StoreInv => (Withstood => TypeOK)
  BY TypesFollow
<1> QED
  BY <1>1, StoreInvariant, PTL

\* A document that is not deleted is searchable at every moment but between the
\* kill of its queued copy and the publish of its rebuilt one, and while it is
\* queued again after a group was abandoned between the two: no swap, no unload
\* of tails, no racing write and no drain that fails drops its last live copy
\* (ReplaceBucketGroup, retiring).  The property's own premise says what may
\* not have happened: two drains at once, a failed merge reclaim, a corrupt
\* segment, a restart.
THEOREM StoreNeverBlank == Spec => []NeverBlank
<1>1. StoreInv => NeverBlank
  BY BlankFollows
<1> QED
  BY <1>1, StoreInvariant, PTL

\* A document whose writes have left the backlog answers with the version last
\* written and no other: no order of seals, kills, harvests and swaps, and no
\* group abandoned after its kills, brings an older copy back or loses it
\* (AddSealAndSupersede, killSuperseded, harvestPartition).  The property's own
\* premise says what may not have happened: two drains at once, a failed merge
\* reclaim, a corrupt segment, a restart.
THEOREM StoreLatestAnswers == Spec => []LatestAnswers
<1>1. StoreInv => LatestAnswers
  BY AnswersFollow
<1> QED
  BY <1>1, StoreInvariant, PTL
=============================================================================
