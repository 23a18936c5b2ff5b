---------------------------- MODULE SegmentRoute ----------------------------
(***************************************************************************)
(* The published snapshot of one searchengine.SegmentedIndex and the       *)
(* two-level route it answers lookups from (segmentset.go,                 *)
(* segmentset_replace.go).                                                 *)
(*                                                                         *)
(* entries[1..baseN] are indexed by the flat map `base`, which every later *)
(* snapshot shares and none may edit; the entries after baseN are the      *)
(* tail, scanned newest first.  A consolidation that removes flattened     *)
(* entries records them beside the map: `dropped` names the segments whose *)
(* base records no longer answer, `stale` holds the answers resolved for   *)
(* the ids those removals made ambiguous.                                  *)
(*                                                                         *)
(* A segment id is the hash of the segment's content, so Members is a      *)
(* function of the id and a consolidation may publish an id it consumed.   *)
(* Every publish is one compare-and-swap, so each is one step here; a swap *)
(* resolves its constituents in an earlier step of its own and removes     *)
(* them by id from whatever snapshot it finds.                             *)
(***************************************************************************)
EXTENDS Naturals, FiniteSets, FiniteSetsExt, Sequences, Subsequences

CONSTANTS
    Docs,        \* external document ids
    Segs,        \* segment ids
    Members,     \* the documents each segment holds
    Swappers,    \* goroutines consolidating partitions: writers in the bound
    TailLimit,   \* routeTailLimit
    DropLimit,   \* routeDropLimit
    MaxEntries,  \* bound on the resident entries of a snapshot
    None         \* no segment

ASSUME RouteAssumption ==
    /\ IsFiniteSet(Docs)
    /\ Members \in [Segs -> SUBSET Docs]
    /\ {TailLimit, DropLimit, MaxEntries} \subseteq Nat
    /\ None \notin Segs

VARIABLES
    entries,   \* segmentSet.entries, oldest first
    base,      \* segmentSet.base: the flat route, shared and never edited
    baseN,     \* segmentSet.baseN: how many entries base indexes
    dropped,   \* segmentSet.dropped
    stale,     \* segmentSet.staleIndex: the segment of the resolved holder
    distinct,  \* segmentSet.distinct
    resolved   \* the constituents each swap resolved; {} when it runs none

vars == <<entries, base, baseN, dropped, stale, distinct, resolved>>

(***************************************************************************)
(* Lookups.                                                                *)
(***************************************************************************)

Resident == {entries[i] : i \in DOMAIN entries}

\* The segment of the last entry holding d among es[lo..hi].
NewestHolder(es, lo, hi, d) ==
    LET at == {i \in lo .. hi : d \in Members[es[i]]}
    IN  IF at = {} THEN None ELSE es[Max(at)]

flatRoute(es) == [d \in Docs |-> NewestHolder(es, 1, Len(es), d)]

Distinct(route) == Cardinality({d \in Docs : route[d] # None})

\* A snapshot as a value: what one publish derives from the one before.
Snapshot(es, b, n, dr, st, di) ==
    [entries |-> es, base |-> b, baseN |-> n, dropped |-> dr, stale |-> st,
     distinct |-> di]

Current == Snapshot(entries, base, baseN, dropped, stale, distinct)

tailHolderOf(s, d) ==
    NewestHolder(s.entries, s.baseN + 1, Len(s.entries), d)

routeOf(s, d) ==
    IF tailHolderOf(s, d) # None THEN tailHolderOf(s, d)
    ELSE IF s.base[d] \in s.dropped THEN s.stale[d]
    ELSE s.base[d]

Routed(s) == {d \in Docs : routeOf(s, d) # None}

(***************************************************************************)
(* Deriving the next snapshot.                                             *)
(***************************************************************************)

newSegmentSet(es) ==
    Snapshot(es, flatRoute(es), Len(es), {}, [d \in Docs |-> None],
             Distinct(flatRoute(es)))

withAppended(s, e) ==
    LET es == Append(s.entries, e) IN
    IF Len(es) - s.baseN > TailLimit THEN newSegmentSet(es)
    ELSE Snapshot(es, s.base, s.baseN, s.dropped, s.stale,
                  s.distinct + Cardinality(Members[e] \ Routed(s)))

\* Removal is by segment id and keeps the order of what stays: the set of the
\* one sequence the loop builds.
Kept(es, remove) == Picked(es, {i \in DOMAIN es : es[i] \notin remove})

withReplacedGroup(kept, added) == newSegmentSet(kept \o added)

\* How much of the flattened level survives: it is compacted in place.
keptBaseN(s, remove) ==
    Cardinality({i \in 1 .. s.baseN : s.entries[i] \notin remove})

\* The flattened segments a replacement removes.
Leaving(s, remove) == {s.entries[i] : i \in 1 .. s.baseN} \cap remove

\* A tail entry that leaves needs no record.  The published id is resident
\* again, so it is taken out of the drop set.
dropIDs(s, remove, published) ==
    (s.dropped \cup Leaving(s, remove)) \ {published}

\* The length of the drop list, which holds an id once per entry removed.
dropLen(s, remove, published) ==
    Cardinality(s.dropped \ {published})
    + Cardinality({i \in 1 .. s.baseN : s.entries[i] \in remove \ {published}})

\* Mutant: only flattened entries are thought to leave anything to resolve.
MutResidualMembers(s, remove, published) ==
    (UNION {Members[e] : e \in Leaving(s, remove)}) \ Members[published]

\* What the removed entries held and the output does not carry.
residualMembers(s, remove, published) ==
    (UNION {Members[e] : e \in {s.entries[i] : i \in DOMAIN s.entries} \cap remove})
        \ Members[published]

\* Mutant: the residual ids are cleared and not resolved again.
MutStaleHole(s, remove, residual, es, n) ==
    [d \in Docs |->
        IF d \in residual \/ s.stale[d] \in remove THEN None ELSE s.stale[d]]

\* Mutant: answers are copied without regard to what this swap removes.
MutStaleCopied(s, remove, residual, es, n) ==
    [d \in Docs |->
        IF s.stale[d] # None THEN s.stale[d]
        ELSE IF d \in residual THEN NewestHolder(es, 1, n, d) ELSE None]

\* Answers naming a removed entry go, a residual id is resolved anew among
\* the flattened entries that survive.
staleAfterReplace(s, remove, residual, es, n) ==
    [d \in Docs |->
        IF d \in residual THEN NewestHolder(es, 1, n, d)
        ELSE IF s.stale[d] \in remove THEN None
        ELSE s.stale[d]]

\* kept is what partitionForReplace leaves of s.entries.
withReplaced(s, kept, remove, published) ==
    LET es       == Append(kept, published)
        n        == keptBaseN(s, remove)
        residual == residualMembers(s, remove, published)
        answers  == Cardinality({d \in Docs : s.stale[d] # None})
        next(di) == Snapshot(es, s.base, n, dropIDs(s, remove, published),
                        staleAfterReplace(s, remove, residual, es, n), di)
    IN  IF \/ Len(es) - n > TailLimit
           \/ dropLen(s, remove, published) > DropLimit
           \/ Cardinality(residual) > DropLimit
           \/ answers + Cardinality(residual) > DropLimit
        THEN newSegmentSet(es)
        ELSE next((s.distinct + Cardinality(Members[published] \ Routed(s)))
                    - Cardinality(residual \ Routed(next(0))))

(***************************************************************************)
(* The engine's publishes.                                                 *)
(***************************************************************************)

Publish(s) ==
    /\ Len(s.entries) <= MaxEntries
    /\ entries' = s.entries
    /\ base' = s.base
    /\ baseN' = s.baseN
    /\ dropped' = s.dropped
    /\ stale' = s.stale
    /\ distinct' = s.distinct

\* seal: an id already resident is not appended twice.
publishAppend(e) ==
    /\ e \notin Resident
    /\ Publish(withAppended(Current, e))
    /\ UNCHANGED resolved

\* A swap resolves those constituents of its partition that are still resident:
\* some may have left since the partition was listed.  (When all have, there is
\* nothing to consolidate and the call returns.)
ResolveSwap(w) ==
    /\ resolved[w] = {}
    /\ \E R \in SUBSET Resident :
        /\ R # {}
        /\ resolved' = [resolved EXCEPT ![w] = R]
    /\ UNCHANGED <<entries, base, baseN, dropped, stale, distinct>>

\* The output holds members of the constituents: those still live.
ReplaceBucket(w, published) ==
    /\ resolved[w] # {}
    /\ Members[published] \subseteq UNION {Members[e] : e \in resolved[w]}
    /\ \E kept \in Kept(entries, resolved[w]) :
        Publish(withReplaced(Current, kept, resolved[w], published))
    /\ resolved' = [resolved EXCEPT ![w] = {}]

\* The drain's group swap and a rebuilt layer: every constituent leaves and
\* one output per rebuilt partition enters, in one publish.
ReplaceBucketGroup(remove, added) ==
    /\ \E kept \in Kept(entries, remove) :
        Publish(withReplacedGroup(kept, added))
    /\ UNCHANGED resolved

\* publishImport: the incoming segments that are not resident, then a
\* snapshot built flat.
publishImport(e) ==
    /\ e \notin Resident
    /\ Publish(newSegmentSet(Append(entries, e)))
    /\ UNCHANGED resolved

Unload(remove) ==
    /\ remove # {}
    /\ \E kept \in Kept(entries, remove) : Publish(newSegmentSet(kept))
    /\ UNCHANGED resolved

\* RemapResident swaps payloads under the same ids: withReplacedPayloads
\* carries the whole route, so the snapshot this module keeps is unchanged.

Init ==
    /\ entries = <<>>
    /\ base = [d \in Docs |-> None]
    /\ baseN = 0
    /\ dropped = {}
    /\ stale = [d \in Docs |-> None]
    /\ distinct = 0
    /\ resolved = [w \in Swappers |-> {}]

\* Outputs of one group: one or two segments, of disjoint partitions.
Outputs ==
    {<<e>> : e \in Segs} \cup
    {p \in Segs \X Segs : p[1] # p[2] /\ Members[p[1]] \cap Members[p[2]] = {}}

Next ==
    \/ \E e \in Segs : publishAppend(e)
    \/ \E w \in Swappers : ResolveSwap(w)
    \/ \E w \in Swappers, e \in Segs : ReplaceBucket(w, e)
    \/ \E R \in SUBSET Resident, o \in Outputs : ReplaceBucketGroup(R, o)
    \/ \E e \in Segs : publishImport(e)
    \/ \E R \in SUBSET Resident : Unload(R)

Spec == Init /\ [][Next]_vars

(***************************************************************************)
(* Properties.                                                             *)
(***************************************************************************)

\* The fields have their types; in particular the flattened level is a prefix
\* of the entries, and the stale index names only segments resident in it
\* (staleIndex, "it names only resident entries").
TypeOK ==
    /\ entries \in Seq(Segs)
    /\ base \in [Docs -> Segs \cup {None}]
    /\ baseN \in 0..Len(entries)
    /\ dropped \subseteq Segs
    /\ stale \in [Docs -> {entries[i] : i \in 1 .. baseN} \cup {None}]
    /\ distinct \in 0..Cardinality(Docs)
    /\ resolved \in [Swappers -> SUBSET Segs]

\* A lookup that answers with a resident segment answers with the newest one
\* holding the document, whatever appends and consolidations have shared the
\* base map: the copy a delete or a supersession kills is the copy a search
\* returns (routeOf, "newest-append-wins survives the split").  And it answers
\* "absent" only when no resident segment holds the document: no removal
\* leaves a hole in the stale index (segmentset.go, "the invariant it owes").
AnswersAreNewest ==
    \A d \in Docs : routeOf(Current, d) \in Resident \cup {None} =>
        routeOf(Current, d) = flatRoute(entries)[d]

\* The distinct count kept by deltas over appends and replacements is the
\* number a flatten would install over the same entries, as long as the route
\* names only resident segments (beganResidency, endedResidency); partition
\* counts are derived from it.
DistinctAgrees ==
    (\A d \in Docs : routeOf(Current, d) \in Resident \cup {None}) =>
        distinct = Distinct(flatRoute(entries))

(***************************************************************************)
(* Two claims of the code that it does not keep.  An id published again    *)
(* leaves the drop set, and when the entry that carried it leaves the tail *)
(* nothing records that its base records are dead.                         *)
(***************************************************************************)

\* The count is maintained against the definition a flatten uses, so the next
\* flatten installs the number this snapshot carried (withReplaced).
DistinctIsFlat == distinct = Distinct(flatRoute(entries))

\* The test suite's oracle: a snapshot answers every lookup as one built flat
\* over the same entries does (requireAgreesWithAFlatRebuild).
RouteAgreesWithFlatRebuild ==
    \A d \in Docs : routeOf(Current, d) = flatRoute(entries)[d]
=============================================================================
