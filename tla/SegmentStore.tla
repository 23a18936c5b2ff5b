---------------------------- MODULE SegmentStore ----------------------------
(***************************************************************************)
(* The vector arm of one graph's segment manager (internal/segmentdist)    *)
(* over its engine (internal/searchengine) and its disk cache (L2): writes *)
(* that seal a document at once and queue it, the drains that consolidate  *)
(* the queue into partition segments and make them durable, deletes that   *)
(* clear a live bit and record a mask, the reclaims a failed disk write    *)
(* leaves behind, and a process that may end at any step and load its disk *)
(* again.                                                                  *)
(*                                                                         *)
(* ReEmitDirtyBuckets takes no lock: the pass a delay after boot and the   *)
(* loop's pass may drain one graph at the same time.  drain is the drain   *)
(* that runs, parked the one that waits its turn, and Yield changes over,  *)
(* so that the steps of two drains interleave.  upsets records what has    *)
(* gone other than smoothly so far; the properties say which upsets they   *)
(* withstand.                                                              *)
(*                                                                         *)
(* A segment is the set of <<document, version>> pairs it holds, which is  *)
(* also its id: segments are named by the hash of their content.  Entries  *)
(* never change but for their live bits.  Each publish of the entry set is *)
(* one compare-and-swap.  SegmentRoute models the lookup structure of the  *)
(* entry set; here a lookup is the newest entry holding the document.      *)
(*                                                                         *)
(* One write is in flight per document, successive writes of a document    *)
(* differ, and a deleted document is not written again.  The corpus is     *)
(* above the deferred re-emit's floor and within its partition budget, the *)
(* resident count below the fan-out budget, so that the write path's own   *)
(* consolidation (boundResidentSegments) returns at once, and the text arm *)
(* is taken to publish the partitions this arm does                        *)
(* (trimReEmittedTombstones asks both).  Once two drains have overlapped a *)
(* segment may be resident twice; a kill by id then reaches both copies,   *)
(* and the kill of an entry that has left is not seen by a harvest that    *)
(* still reads it.                                                         *)
(***************************************************************************)
EXTENDS Naturals, FiniteSets, Sequences, Functions, Subsequences

CONSTANTS
    Docs,     \* document ids
    Layouts   \* the instances: [part, writes, deletes, faults, crashes, overlap]

ASSUME StoreAssumption ==
  /\ IsFiniteSet(Docs) /\ Docs # {}
  /\ \A l \in Layouts :
        /\ {l.part, l.writes} \subseteq [Docs -> Nat]
        /\ l.deletes \subseteq Docs
        /\ {l.faults, l.crashes} \subseteq Nat
        /\ l.overlap \in BOOLEAN

VARIABLES
    layout,   \* BucketOf under the partition count in force, the bound on the
              \* writes of each document, the documents that may be deleted, the
              \* bounds on failed calls and on crashes, and whether a second drain
              \* may start during the first
    set,      \* the engine's entries, oldest first
    disk,     \* L2: stored segment -> the supersession record in its bytes
    mask,     \* the tombstone record, on disk and in memory
    reclaim,  \* merge reclaims that could not store their output
    pending,  \* the backlog's documents
    tails,    \* the backlog's sealed segments
    writer,   \* the write in flight of each document
    drain,    \* the drain that takes the next step
    gone,     \* the entries it resolved and has not read that have left the set
    parked,   \* the other drain in flight, with the same
    del,      \* the delete in flight of each document
    seq,      \* writeSeq
    latest,   \* the version last written of each document
    owed,     \* documents whose write a crash took: the repair re-embeds them
    faults,   \* failed calls so far
    crashes,  \* ends of the process so far
    upsets    \* their kinds, and the races met so far

store   == <<disk, mask, reclaim>>
backlog == <<pending, tails>>
clients == <<writer, del, seq, latest>>
others  == <<gone, parked>>
env     == <<layout, owed, faults, crashes, upsets, gone, parked>>
vars    == <<set, store, backlog, clients, drain, env>>

PartOf(d) == layout.part[d]

NoRecord == [sup |-> {}, coh |-> {}]

Entry(s, dead, rec) == [seg |-> s, dead |-> dead, rec |-> rec]

DocsOf(s) == {p[1] : p \in s}
PartsOf(s) == {PartOf(d) : d \in DocsOf(s)}
IdsOf(es) == {es[i].seg : i \in DOMAIN es}

Holders(es, d) == {i \in DOMAIN es : d \in DocsOf(es[i].seg)}

\* entryOf: the position of the newest entry holding d, none when none does.
Newest(es, d) == {i \in Holders(es, d) : \A j \in Holders(es, d) : j <= i}

WithDead(e, dead) == Entry(e.seg, dead, e.rec)

\* Kill and Revive of one document in the entries of given ids.
SetDead(es, ids, d) ==
    [i \in DOMAIN es |->
        IF es[i].seg \in ids THEN WithDead(es[i], es[i].dead \cup {d}) ELSE es[i]]
SetLive(es, s, d) ==
    [i \in DOMAIN es |->
        IF es[i].seg = s THEN WithDead(es[i], es[i].dead \ {d}) ELSE es[i]]

\* Mutant: the id is killed in the newest entry without a look at its members.
MutKillSuperseded(es, ids) ==
    [i \in DOMAIN es |->
        WithDead(es[i], es[i].dead \cup {d \in ids : i = Len(es)})]

\* killSuperseded: the newest copy of each id dies, and no older one.
killSuperseded(es, ids) ==
    [i \in DOMAIN es |->
        WithDead(es[i], es[i].dead \cup {d \in ids : i \in Newest(es, d)})]

LivePairs(e) == {p \in e.seg : p[1] \notin e.dead}
Searchable == UNION {LivePairs(set[i]) : i \in DOMAIN set}

\* What stays, in order, when entries leave by id: the set of that sequence.
Unloaded(es, ids) == Picked(es, {i \in DOMAIN es : es[i].seg \notin ids})

\* withReplacedGroup: one publish removes by id and appends the outputs.
withReplacedGroup(es, remove, added) ==
    {kept \o added : kept \in Unloaded(es, remove)}

NoWrite  == [at |-> "idle", seq |-> 0, seg |-> {}, victim |-> {}, tail |-> FALSE]
NoDelete == [at |-> "idle", read |-> {}]
NoDrain  == [at |-> "idle", pending |-> {}, tails |-> {}, mask |-> {}, docs |-> {},
             deferred |-> {}, work |-> {}, union |-> {}, out |-> <<>>,
             retire |-> {}, diff |-> {}, read |-> {}]

NoParked == [run |-> NoDrain, gone |-> {}]

At(p, step) == p.at = step

\* One call fails.
Fails(kind) ==
    /\ faults < layout.faults
    /\ faults' = faults + 1
    /\ upsets' = upsets \cup {kind}

\* The record saved over mask was made from read: what another update put there
\* or took out since is lost.
NoteLostUpdate(read) ==
    upsets' = IF read = mask THEN upsets ELSE upsets \cup {"clobber"}

(***************************************************************************)
(* Writes: AddAndMarkDirty of one document.                                *)
(***************************************************************************)

\* nextWriteSeq, then the victim: the copy answering for the id now.
BeginWrite(d) ==
    /\ At(writer[d], "idle") /\ latest[d] <= layout.writes[d]
    /\ At(del[d], "idle") /\ d \notin mask
    /\ seq' = seq + 1
    /\ latest' = [latest EXCEPT ![d] = @ + 1]
    /\ writer' = [writer EXCEPT ![d] =
         [at |-> "seal", seq |-> seq', seg |-> {<<d, latest'[d]>>},
          victim |-> {set[i].seg : i \in Newest(set, d)},
          tail |-> FALSE]]
    /\ UNCHANGED <<set, store, backlog, del, drain, env>>

\* seal and publishAppend: a resident id is not appended twice.
Seal(d) ==
    /\ At(writer[d], "seal")
    /\ LET s == writer[d].seg
           created == s \notin IdsOf(set)
       IN  /\ set' = IF created THEN Append(set, Entry(s, {}, NoRecord)) ELSE set
           /\ writer' = [writer EXCEPT ![d].at = "supersede", ![d].tail = created]
    /\ UNCHANGED <<store, backlog, del, seq, latest, drain, env>>

\* The sealed copy is revived and the captured victim killed, unless it is
\* the sealed segment itself.  A sealed segment that has left the set since
\* kills nothing.
Supersede(d) ==
    /\ At(writer[d], "supersede")
    /\ LET s == writer[d].seg IN
       set' = IF s \notin IdsOf(set) THEN set
              ELSE SetDead(SetLive(set, s, d), writer[d].victim \ {s}, d)
    /\ writer' = [writer EXCEPT ![d].at = "record"]
    /\ UNCHANGED <<store, backlog, del, seq, latest, drain, env>>

recordDirty(d) ==
    /\ At(writer[d], "record")
    /\ LET w == writer[d] IN
       /\ pending' = pending \cup {[seq |-> w.seq, pair |-> p] : p \in w.seg}
       /\ tails' = tails \cup {[seq |-> w.seq, seg |-> s] : s \in {t \in {w.seg} : w.tail}}
    /\ writer' = [writer EXCEPT ![d] = NoWrite]
    /\ UNCHANGED <<set, store, del, seq, latest, drain, env>>

(***************************************************************************)
(* Deletes: DeleteFromBuckets of one document.                             *)
(***************************************************************************)

\* purgeDirty runs first, whatever the index holds.
Purge(d) ==
    /\ d \in layout.deletes /\ At(del[d], "idle")
    /\ pending' = {q \in pending : q.pair[1] # d}
    /\ del' = [del EXCEPT ![d] = [at |-> "load", read |-> {}]]
    /\ UNCHANGED <<set, store, tails, writer, seq, latest, drain, env>>

\* sealDeletedIDs reads the record, and writes the union back.
SealLoad(d) ==
    /\ At(del[d], "load")
    /\ del' = [del EXCEPT ![d] = [at |-> "save", read |-> mask]]
    /\ UNCHANGED <<set, store, backlog, writer, seq, latest, drain, env>>

SealSave(d) ==
    /\ At(del[d], "save")
    /\ mask' = del[d].read \cup {d}
    /\ NoteLostUpdate(del[d].read)
    /\ del' = [del EXCEPT ![d] = [at |-> "kill", read |-> {}]]
    /\ UNCHANGED <<set, disk, reclaim, backlog, writer, seq, latest, drain>>
    /\ UNCHANGED <<layout, owed, faults, crashes, others>>

\* A record that cannot be read or written is left as it is: the error is
\* returned with the delete's own, and the kill goes ahead unsealed.
SealFails(d) ==
    /\ del[d].at \in {"load", "save"} /\ Fails("seal")
    /\ del' = [del EXCEPT ![d] = [at |-> "kill", read |-> {}]]
    /\ UNCHANGED <<set, store, backlog, writer, seq, latest, drain>>
    /\ UNCHANGED <<layout, owed, crashes, others>>

KillSuperseded(d) ==
    /\ At(del[d], "kill")
    /\ set' = killSuperseded(set, {d})
    /\ del' = [del EXCEPT ![d] = [at |-> "done", read |-> {}]]
    /\ UNCHANGED <<store, backlog, writer, seq, latest, drain, env>>

(***************************************************************************)
(* The drain: ReEmitDirtyBuckets.  drain.at names its next step.           *)
(***************************************************************************)

\* There is work when something is queued, masked or resident and not stored.
snapshotDirty ==
    /\ At(drain, "idle")
    /\ pending # {} \/ tails # {} \/ mask # {} \/ ~ IdsOf(set) \subseteq DOMAIN disk
    /\ drain' = [NoDrain EXCEPT !.at = "mask", !.pending = pending, !.tails = tails]
    /\ UNCHANGED <<set, store, backlog, clients, env>>

\* The supplied copy of a document is its last queued one.
LastQueued(Q) ==
    {q.pair : q \in {r \in Q : \A t \in Q : t.pair[1] = r.pair[1] => t.seq <= r.seq}}

\* graphTombstones and withoutTombstoned: a document masked by now is not
\* rebuilt from the queue.
DrainMask ==
    /\ At(drain, "mask")
    /\ drain' = [drain EXCEPT !.at = "offer", !.mask = mask,
         !.docs = LastQueued({q \in drain.pending : q.pair[1] \notin mask})]
    /\ UNCHANGED <<set, store, backlog, clients, env>>

\* Mutant: the masked ids are not offered to the rebuild when nothing is queued.
MutDeferredReEmitIDs ==
    /\ At(drain, "offer")
    /\ drain' = [drain EXCEPT !.at = "group",
                               !.deferred = IF drain.pending = {} THEN {} ELSE mask]
    /\ UNCHANGED <<set, store, backlog, clients, env>>

\* The masked ids, read a second time, are offered to the rebuild.
deferredReEmitIDs ==
    /\ At(drain, "offer")
    /\ drain' = [drain EXCEPT !.at = "group", !.deferred = mask]
    /\ UNCHANGED <<set, store, backlog, clients, env>>

Supplied == {p[1] : p \in drain.docs}
Superseded == Supplied \cup drain.deferred
TailIds == {t.seg : t \in drain.tails}
Constituents == IdsOf(set) \ TailIds
Parts == {PartOf(d) : d \in Docs}

\* Mutant: the group is the dirty partitions alone.
MutCloseOverConstituency(dirty) == dirty

\* closeOverConstituency: the least set of partitions that holds the dirty
\* ones and, with a partition, those of every segment consumed for it.
closeOverConstituency(dirty) ==
    LET Closed(S) == \A s \in Constituents :
                        PartsOf(s) \cap S # {} => PartsOf(s) \subseteq S
    IN  {p \in Parts :
            \A S \in SUBSET Parts : dirty \subseteq S /\ Closed(S) => p \in S}

\* replaceBucketGroups: the partitions to rebuild and the segments that hold a
\* member of one.
Group ==
    /\ At(drain, "group")
    /\ LET work == closeOverConstituency({PartOf(d) : d \in Superseded})
       IN  drain' = [drain EXCEPT !.at = "resolve", !.work = work,
                         !.union = {s \in Constituents : PartsOf(s) \cap work # {}}]
    /\ UNCHANGED <<set, store, backlog, clients, env>>

\* What is still resident is fixed once for the group, and superseded ids are
\* killed before any harvest.
Resolve ==
    /\ At(drain, "resolve")
    /\ drain' = [drain EXCEPT !.at = "harvest", !.union = @ \cap IdsOf(set)]
    /\ set' = killSuperseded(set, Superseded)
    /\ UNCHANGED <<store, backlog, clients, env>>

\* The entries resolved, in the set or gone from it.
Resolved ==
    gone \cup {set[i] : i \in {j \in DOMAIN set :
                 set[j].seg \in drain.union \ {e.seg : e \in gone}}}

\* What the resolved entries still hold live of partition p and the queue does
\* not supply.
Harvestable(p) ==
    {q \in UNION {LivePairs(e) : e \in Resolved} :
        PartOf(q[1]) = p /\ q[1] \notin Supplied}

Fresh(p) == {q \in drain.docs : PartOf(q[1]) = p}
Freshes == {Fresh(p) : p \in drain.work}

\* harvestPartition keeps one copy of each document, the last constituent's,
\* and the constituents come in the order of their hashes.
Harvests(p) ==
    {Fresh(p) \cup h : h \in {g \in SUBSET Harvestable(p) :
                                /\ \A q, r \in g : q[1] = r[1] => q = r
                                /\ DocsOf(g) = DocsOf(Harvestable(p))}}

\* A partition that harvests nothing contributes no output.  The partitions
\* are read at one moment: the live bit of a document is read by one of them.
Harvest ==
    /\ At(drain, "harvest")
    /\ \E out \in [drain.work -> UNION {Harvests(p) : p \in drain.work}] :
        /\ \A p \in drain.work : out[p] \in Harvests(p)
        /\ \E built \in Picked(out, {p \in drain.work : out[p] # {}}) :
             drain' = [drain EXCEPT !.at = "swap", !.out = built]
    /\ gone' = {}
    /\ UNCHANGED <<set, store, backlog, clients>>
    /\ UNCHANGED <<layout, owed, faults, crashes, upsets, parked>>

\* Mutant: the backlog is consumed although nothing was published.
MutGroupAbandoned ==
    /\ drain.at \in {"resolve", "harvest", "swap"} /\ Fails("abandon")
    /\ pending' = pending \ drain.pending /\ tails' = tails \ drain.tails
    /\ drain' = NoDrain /\ gone' = {}
    /\ UNCHANGED <<set, store, clients, layout, owed, crashes, parked>>

\* The context ends, or a harvest fails: nothing is published and the drain
\* returns.  The backlog stands, and so do the kills.
GroupAbandoned ==
    /\ drain.at \in {"resolve", "harvest", "swap"} /\ Fails("abandon")
    /\ drain' = NoDrain /\ gone' = {}
    /\ UNCHANGED <<set, store, backlog, clients, layout, owed, crashes, parked>>

Outs == Range(drain.out)

\* stampGroupSupersession: every output's record names what the group replaced
\* and all the outputs that replace it.
GroupRecord ==
    [sup |-> drain.union \ Outs, coh |-> Outs]

\* A victim captured in an entry that leaves the set dies with it.
Forget(ids) ==
    [d \in Docs |-> [writer[d] EXCEPT !.victim = @ \ ids]]

\* The entries with the given ids leave the set: a drain that has resolved them
\* and not read them yet still will.
Bereft(run, held, ids) ==
    held \cup {set[i] : i \in {j \in DOMAIN set :
                 /\ At(run, "harvest") /\ set[j].seg \in ids \cap run.union
                 /\ \A e \in held : e.seg # set[j].seg}}

ParkedLoses(ids) ==
    parked' = [parked EXCEPT !.gone = Bereft(parked.run, parked.gone, ids)]

\* A harvest failed by a corrupt constituent withdraws it and quarantines its
\* file: its documents are left to the repair.
GroupCorrupt ==
    /\ At(drain, "harvest") /\ Fails("corrupt")
    /\ \E s \in drain.union \cap IdsOf(set) :
        /\ set' \in Unloaded(set, {s})
        /\ disk' = Restrict(disk, DOMAIN disk \ {s})
        /\ owed' = owed \cup DocsOf(s)
        /\ writer' = Forget({s})
        /\ ParkedLoses({s})
    /\ drain' = NoDrain /\ gone' = {}
    /\ UNCHANGED <<mask, reclaim, backlog, del, seq, latest, layout, crashes>>

\* One publish for the group: the resolved entries leave, and any entry with
\* the id of a freshly built one.  Nothing built publishes nothing.
Swap ==
    /\ At(drain, "swap")
    /\ LET rec    == IF GroupRecord.sup = {} THEN NoRecord ELSE GroupRecord
           remove == drain.union \cup Freshes
       IN  \/ /\ drain.out = <<>>
              /\ drain' = [drain EXCEPT !.at = "cover"]
              /\ UNCHANGED <<set, writer, parked>>
           \/ /\ drain.out # <<>>
              /\ set' \in withReplacedGroup(set, remove,
                             [i \in DOMAIN drain.out |-> Entry(drain.out[i], {}, rec)])
              /\ writer' = Forget(remove)
              /\ ParkedLoses(remove)
              /\ drain' = [drain EXCEPT !.at = IF rec = NoRecord THEN "cover" ELSE "put"]
    /\ UNCHANGED <<store, backlog, del, seq, latest>>
    /\ UNCHANGED <<layout, owed, faults, crashes, upsets, gone>>

\* Put leaves a stored segment alone.
Stored(s, rec) ==
    [t \in DOMAIN disk \cup {s} |-> IF t \in DOMAIN disk THEN disk[t] ELSE rec]

\* Mutant: the constituents are removed before the output is stored.
MutHookPut ==
    /\ At(drain, "put")
    /\ drain' = [drain EXCEPT !.at = "remove"]
    /\ UNCHANGED <<set, store, backlog, clients, env>>

\* fireMergeHook fires for the one output that carries the removals, the
\* first; reclaimMerged stores that output before it removes anything.
HookPut ==
    /\ At(drain, "put")
    /\ disk' = Stored(drain.out[1], GroupRecord)
    /\ drain' = [drain EXCEPT !.at = "remove"]
    /\ UNCHANGED <<set, mask, reclaim, backlog, clients, env>>

\* A Put that fails aborts the reclaim and retains it.
HookPutFails ==
    /\ At(drain, "put") /\ drain.out[1] \notin DOMAIN disk /\ Fails("retain")
    /\ reclaim' = {o \in reclaim : o.seg # drain.out[1]} \cup
                    {[at |-> "retained", seg |-> drain.out[1], rec |-> GroupRecord,
                      owed |-> {}, failures |-> 0]}
    /\ drain' = [drain EXCEPT !.at = "cover"]
    /\ UNCHANGED <<set, disk, mask, backlog, clients, layout, owed, crashes, others>>

HookRemove ==
    /\ At(drain, "remove")
    /\ LET left == GroupRecord.sup \cap DOMAIN disk IN
       \/ \E s \in left : disk' = Restrict(disk, DOMAIN disk \ {s}) /\ UNCHANGED drain
       \/ left = {} /\ drain' = [drain EXCEPT !.at = "cover"] /\ UNCHANGED disk
    /\ UNCHANGED <<set, mask, reclaim, backlog, clients, env>>

\* LiveMembersOutside and retiring: a tail is spent when the group did not
\* publish its id and it holds nothing live that nobody supplied or masked.
Cover ==
    /\ At(drain, "cover")
    /\ drain' = [drain EXCEPT !.at = "unload",
         !.retire = {s \in TailIds \ Outs :
            \A i \in DOMAIN set : set[i].seg = s =>
                DocsOf(LivePairs(set[i])) \subseteq Superseded \cup drain.mask}]
    /\ UNCHANGED <<set, store, backlog, clients, env>>

Unload ==
    /\ At(drain, "unload")
    /\ set' \in Unloaded(set, drain.retire)
    /\ writer' = Forget(drain.retire)
    /\ ParkedLoses(drain.retire)
    /\ drain' = [drain EXCEPT !.at = "export"]
    /\ UNCHANGED <<store, backlog, del, seq, latest>>
    /\ UNCHANGED <<layout, owed, faults, crashes, upsets, gone>>

\* persistResident: the resident segments that are not stored yet.
Export ==
    /\ At(drain, "export")
    /\ drain' = [drain EXCEPT !.at = "write",
         !.diff = {set[i] : i \in {j \in DOMAIN set : set[j].seg \notin DOMAIN disk}}]
    /\ UNCHANGED <<set, store, backlog, clients, env>>

Write ==
    /\ At(drain, "write")
    /\ \/ \E e \in drain.diff : /\ disk' = Stored(e.seg, e.rec)
                                /\ drain' = [drain EXCEPT !.diff = @ \ {e}]
       \/ drain.diff = {} /\ drain' = [drain EXCEPT !.at = "trim"] /\ UNCHANGED disk
    /\ UNCHANGED <<set, mask, reclaim, backlog, clients, env>>

\* A failed write ends the drain: the mask and the backlog stand.
WriteFails ==
    /\ At(drain, "write") /\ drain.diff # {} /\ Fails("disk")
    /\ drain' = NoDrain
    /\ UNCHANGED <<set, store, backlog, clients, layout, owed, crashes, others>>

Published == UNION {PartsOf(drain.out[i]) : i \in DOMAIN drain.out}

\* Mutant: every id masked by now is discharged with its partition.
MutDischarged == {d \in mask : PartOf(d) \in Published}

\* trimReEmittedTombstones: the offered ids whose partition was published.
Discharged == {d \in drain.deferred : PartOf(d) \in Published}

TrimLoad ==
    /\ At(drain, "trim")
    /\ drain' = IF Discharged = {} THEN [drain EXCEPT !.at = "clear"]
                ELSE [drain EXCEPT !.at = "save", !.read = mask]
    /\ UNCHANGED <<set, store, backlog, clients, env>>

TrimSave ==
    /\ At(drain, "save")
    /\ mask' = drain.read \ Discharged
    /\ NoteLostUpdate(drain.read)
    /\ drain' = [drain EXCEPT !.at = "clear"]
    /\ UNCHANGED <<set, disk, reclaim, backlog, clients>>
    /\ UNCHANGED <<layout, owed, faults, crashes, others>>

\* A record that cannot be read or written ends the drain: the ids stay masked
\* and the backlog stands.
TrimFails ==
    /\ \/ At(drain, "trim") /\ Discharged # {}
       \/ At(drain, "save")
    /\ Fails("trim")
    /\ drain' = NoDrain
    /\ UNCHANGED <<set, store, backlog, clients, layout, owed, crashes, others>>

\* Mutant: the whole backlog is dropped, writes that came during the drain too.
MutClearDirty ==
    /\ At(drain, "clear")
    /\ pending' = {} /\ tails' = {}
    /\ drain' = NoDrain
    /\ UNCHANGED <<set, store, clients, env>>

\* consume drops the entries of the snapshot: documents by sequence, tails as
\* many of an id as the snapshot held.
clearDirty ==
    /\ At(drain, "clear")
    /\ pending' = pending \ drain.pending
    /\ tails' = tails \ drain.tails
    /\ drain' = NoDrain
    /\ UNCHANGED <<set, store, clients, env>>

(***************************************************************************)
(* Two drains, aborted reclaims, and the end of the process.               *)
(***************************************************************************)

\* The other drain goes on, or a second one may start.
Yield ==
    /\ layout.overlap
    /\ ~ At(drain, "idle") \/ ~ At(parked.run, "idle")
    /\ drain' = parked.run /\ gone' = parked.gone
    /\ parked' = [run |-> drain, gone |-> gone]
    /\ upsets' = upsets \cup {"overlap"}
    /\ UNCHANGED <<set, store, backlog, clients, layout, owed, faults, crashes>>

Obligation(o, to) == reclaim' = (reclaim \ {o}) \cup to

\* drainReclaimPending: an obligation whose constituents have all left the disk
\* is dropped.
DischargeBegins(o) ==
    /\ At(o, "retained")
    /\ LET still == o.rec.sup \cap DOMAIN disk IN
       Obligation(o, IF still = {} THEN {}
                     ELSE {[o EXCEPT !.at = "put", !.owed = still]})
    /\ UNCHANGED <<set, disk, mask, backlog, clients, drain, env>>

\* dischargeReclaim: the output is stored, the constituents unloaded, then
\* removed one by one.
DischargePut(o) ==
    /\ At(o, "put")
    /\ disk' = Stored(o.seg, o.rec)
    /\ Obligation(o, {[o EXCEPT !.at = "unload"]})
    /\ UNCHANGED <<set, mask, backlog, clients, drain, env>>

reclaimMaxAttempts == 3

\* noteReclaimDischargeFailure: the third failure drops the obligation.
DischargePutFails(o) ==
    /\ At(o, "put") /\ o.seg \notin DOMAIN disk /\ Fails("discharge")
    /\ Obligation(o, {r \in {[o EXCEPT !.at = "retained", !.owed = {},
                                      !.failures = @ + 1]} :
                        r.failures < reclaimMaxAttempts})
    /\ UNCHANGED <<set, disk, mask, backlog, clients, drain, layout, owed, crashes, others>>

DischargeUnload(o) ==
    /\ At(o, "unload")
    /\ set' \in Unloaded(set, o.owed)
    /\ writer' = Forget(o.owed)
    /\ gone' = Bereft(drain, gone, o.owed)
    /\ ParkedLoses(o.owed)
    /\ Obligation(o, {[o EXCEPT !.at = "remove"]})
    /\ UNCHANGED <<disk, mask, backlog, del, seq, latest, drain>>
    /\ UNCHANGED <<layout, owed, faults, crashes, upsets>>

DischargeRemove(o) ==
    /\ At(o, "remove")
    /\ LET left == o.owed \cap DOMAIN disk IN
       \/ \E s \in left : disk' = Restrict(disk, DOMAIN disk \ {s}) /\ UNCHANGED reclaim
       \/ left = {} /\ Obligation(o, {}) /\ UNCHANGED disk
    /\ UNCHANGED <<set, mask, backlog, clients, drain, env>>

\* declineSuperseded: a stored segment is not loaded when the whole cohort of
\* a record naming it is there.
Loaded ==
    {s \in DOMAIN disk :
        ~ \E t \in DOMAIN disk : s \in disk[t].sup /\ disk[t].coh \subseteq DOMAIN disk}

InFlight(d) == ~ At(writer[d], "idle") \/ \E q \in pending : q.pair[1] = d

\* A delete whose mask is not saved is forgotten; one that is stands.
\* loadResidentFromL2 takes the keys in any order and seeds the masked ids dead.
Crash ==
    /\ crashes < layout.crashes
    /\ crashes' = crashes + 1
    /\ upsets' = upsets \cup {"crash"}
    /\ \E es \in {f \in [1 .. Cardinality(Loaded) -> Loaded] : Range(f) = Loaded} :
        set' = [i \in DOMAIN es |-> Entry(es[i], mask \cap DocsOf(es[i]), disk[es[i]])]
    /\ owed' = owed \cup {d \in Docs : InFlight(d)}
    /\ pending' = {} /\ tails' = {} /\ reclaim' = {}
    /\ writer' = [d \in Docs |-> NoWrite]
    /\ drain' = NoDrain /\ gone' = {} /\ parked' = NoParked
    /\ del' = [d \in Docs |-> IF del[d].at \in {"kill", "done"}
                               THEN [at |-> "done", read |-> {}] ELSE NoDelete]
    /\ UNCHANGED <<disk, mask, seq, latest, layout, faults>>

\* One segment spanning every partition, as a change of the partition count
\* leaves it.
Old == {<<d, 1>> : d \in Docs}

Init ==
    /\ layout \in Layouts
    /\ set = <<Entry(Old, {}, NoRecord)>>
    /\ disk = [s \in {Old} |-> NoRecord]
    /\ mask = {} /\ pending = {} /\ tails = {} /\ reclaim = {}
    /\ writer = [d \in Docs |-> NoWrite]
    /\ del = [d \in Docs |-> NoDelete]
    /\ drain = NoDrain /\ gone = {} /\ parked = NoParked
    /\ seq = 0
    /\ latest = [d \in Docs |-> 1]
    /\ owed = {} /\ faults = 0 /\ crashes = 0 /\ upsets = {}

Drain ==
    \/ snapshotDirty \/ DrainMask \/ deferredReEmitIDs \/ Group \/ Resolve
    \/ Harvest \/ Swap
    \/ HookPut \/ HookRemove \/ Cover \/ Unload \/ Export \/ Write
    \/ TrimLoad \/ TrimSave \/ clearDirty

Next ==
    \/ \E d \in Docs : BeginWrite(d)
    \/ \E d \in Docs : Seal(d)
    \/ \E d \in Docs : Supersede(d)
    \/ \E d \in Docs : recordDirty(d)
    \/ \E d \in Docs : Purge(d)
    \/ \E d \in Docs : SealLoad(d)
    \/ \E d \in Docs : SealSave(d)
    \/ \E d \in Docs : SealFails(d)
    \/ \E d \in Docs : KillSuperseded(d)
    \/ snapshotDirty \/ DrainMask \/ deferredReEmitIDs \/ Group \/ Resolve
    \/ Harvest \/ GroupAbandoned \/ GroupCorrupt \/ Swap
    \/ HookPut \/ HookPutFails \/ HookRemove \/ Cover \/ Unload \/ Export
    \/ Write \/ WriteFails \/ TrimLoad \/ TrimSave \/ TrimFails \/ clearDirty
    \/ Yield
    \/ \E o \in reclaim : DischargeBegins(o)
    \/ \E o \in reclaim : DischargePut(o)
    \/ \E o \in reclaim : DischargePutFails(o)
    \/ \E o \in reclaim : DischargeUnload(o)
    \/ \E o \in reclaim : DischargeRemove(o)
    \/ Crash

\* The reconcile tick comes round for every graph with a backlog and runs its
\* drain to the end.
Spec == Init /\ [][Next]_vars /\ WF_vars(Drain)

(***************************************************************************)
(* Properties.                                                             *)
(***************************************************************************)

\* Types: a live bit is cleared only for a document its entry holds, no
\* segment is resident twice unless two drains overlapped, and the backlog's
\* sequences were handed out.
TypeOK ==
    /\ \A i \in DOMAIN set : set[i].dead \subseteq DocsOf(set[i].seg)
    /\ "overlap" \in upsets \/
         \A i, j \in DOMAIN set : set[i].seg = set[j].seg => i = j
    /\ mask \subseteq Docs /\ owed \subseteq Docs
    /\ \A q \in pending : q.seq \in 1..seq
    /\ \A t \in tails : t.seq \in 1..seq
    /\ faults \in 0..layout.faults /\ crashes \in 0..layout.crashes

Deleted(d) == ~ At(del[d], "idle")

\* The document's writes have come to rest: it was not deleted, none is in
\* flight or queued, and no crash took one.
Settled(d) == ~ Deleted(d) /\ d \notin owed /\ ~ InFlight(d)

\* No call has failed, the process has not ended and no two drains overlapped.
Undisturbed == upsets \subseteq {"clobber"}

\* What a drain recovers from: abandoned groups, failed disk writes of the final
\* persist, and updates of the tombstone record that failed or were lost.
Withstood == upsets \subseteq {"abandon", "disk", "trim", "seal", "clobber"}

Found(d) == {p \in Searchable : p[1] = d}

\* Once the writes of a document have left the backlog, search answers the
\* version last written and no other, however writes, deletes and the steps of
\* the drains interleaved (AddSealAndSupersede, ReplaceBucketGroup), and
\* whichever drains failed before their group was published or after its
\* outputs were reclaimed: "the caller's backlog is untouched and the next
\* drain rebuilds from it" (bucket_swap_group.go).  Not through a failed merge
\* reclaim, a corrupt segment, a restart or two drains at once: those are not
\* withstood.
LatestAnswers ==
    Withstood => \A d \in Docs : Settled(d) => Found(d) = {<<d, latest[d]>>}

\* Under the same proviso a document that is not deleted has a searchable copy
\* at every moment but between the kill of its queued copy and the publish of
\* the rebuilt one (bucket_swap_group.go steps 2 and 5), and while it is queued
\* again after a group was abandoned between the two.
NeverBlank ==
    Withstood => \A d \in Docs :
        \/ Deleted(d)
        \/ drain.at \in {"harvest", "swap"} /\ d \in Supplied
        \/ "abandon" \in upsets /\ \E q \in pending : q.pair[1] = d
        \/ Found(d) # {}

\* The group has removed its constituents and not yet stored all its outputs.
Spread ==
    /\ drain.at \in {"remove", "cover", "unload", "export", "write"}
    /\ Len(drain.out) > 1

\* A resident segment has the id of one that a stored record supersedes.
Recycled == \E s \in IdsOf(set), t \in DOMAIN disk : s \in disk[t].sup

\* A process that ended now, the first thing to go wrong, would load the version
\* last written of every document at rest, but while a group of several outputs
\* is half stored (reclaimMerged, fireMergeHook) and while a resident segment
\* has an id that was superseded before (declineSuperseded).
ColdLoadHolds ==
    Undisturbed /\ ~ Spread /\ ~ Recycled =>
        \A d \in Docs : Settled(d) => \E s \in Loaded : <<d, latest[d]>> \in s

\* Between drains, and while no call has failed, the process has not ended, no
\* two drains overlapped and no update of the tombstone record was lost: a
\* document that was never written and whose delete has returned is masked, or
\* neither searchable nor in any segment a restart would load.
DeletedStaysGone ==
    upsets = {} /\ At(drain, "idle") =>
        \A d \in Docs : At(del[d], "done") /\ latest[d] = 1 /\ d \notin mask =>
            \A p \in Searchable \cup UNION Loaded : p[1] # d

\* A drain is behind while something is queued, or masked in a partition that
\* still has a document: a partition whose harvest is empty publishes nothing,
\* and its ids stay masked.
Behind ==
    \/ pending # {}
    \/ \E d \in mask : \E p \in Searchable : PartOf(p[1]) = PartOf(d) /\ p[1] \notin mask

\* Drains catch up, again and again.
DrainsCatchUp == []<>(~ Behind)

(***************************************************************************)
(* What comments say and the code does not keep.                           *)
(***************************************************************************)

\* manager_reclaim.go: the order of a reclaim "guarantees a crash at any point
\* leaves either {constituents present} OR {merged present} on disk, never
\* NEITHER": whenever the process ends, some copy of a document that is not
\* deleted is loaded again.
NeverNeither ==
    \A d \in Docs : Deleted(d) \/ \E s \in Loaded : d \in DocsOf(s)

\* manager_bucket_backlog.go: "exactly one live copy of a rewritten document
\* exists at every instant": at no instant is there none.
OneLiveCopy ==
    \A d \in Docs : Deleted(d) \/ d \in owed \/ Found(d) # {}

\* bucket_swap_group.go: when a group fails "the resident set is unchanged",
\* so that between drains every document that is not deleted is searchable.
FailedGroupChangesNothing ==
    At(drain, "idle") /\ At(parked.run, "idle") => OneLiveCopy

\* manager_bucket.go: a deleted document "is invisible to every reader: the
\* killed live bit excludes it in this process".
DeletedIsInvisible ==
    \A d \in Docs : At(del[d], "done") /\ latest[d] = 1 => Found(d) = {}

\* manager_bucket_delete_seal.go: the seal of a delete "merges, it never
\* replaces": a delete that has returned is in the record, or its document in
\* no segment a restart would load.
SealMerges ==
    \A d \in Docs : At(del[d], "done") =>
        d \in mask \/ \A s \in Loaded : d \notin DocsOf(s)

\* manager_bucket_backlog.go: "the freshly rebuilt partition carries the
\* surviving content": between drains, once the writes of a document have left
\* the backlog, the version last written is searchable.
RebuiltIsLatest ==
    At(drain, "idle") /\ At(parked.run, "idle") =>
        \A d \in Docs : Settled(d) => <<d, latest[d]>> \in Searchable

\* manager_load.go: the set a process loads "is never degenerate/empty".
LoadIsNeverEmpty == DOMAIN disk # {} => Loaded # {}

=============================================================================
