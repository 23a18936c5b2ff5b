------------------------------ MODULE Registry ------------------------------
(***************************************************************************)
(* The collector registry of the pipeline: which graphs have a collector   *)
(* and which backend it is bound to (internal/pipeline/pipeline_refresh.go,*)
(* pipeline_collectors.go, genpoll.go), against the working set that says  *)
(* which graphs are wanted, the tool calls that notice a login flip, the   *)
(* bulk gen poll and Stop.                                                 *)
(*                                                                         *)
(* Every critical section of collectorMu, of genMu and of the working set  *)
(* is one step; what the code does between two sections may interleave     *)
(* with every other goroutine.                                             *)
(***************************************************************************)
EXTENDS Naturals

CONSTANTS
  Keys,        \* graph instances
  Drained,     \* those of a drained type that this machine can serve
  Bound,       \* those admitted with a storage destination of their own
  Idents,      \* backend identities: login state and selected account
  Hooks,       \* tool calls that may be in their activity hook at once
  MaxFlips,    \* bound: identity changes
  MaxCatalog,  \* bound: catalog generations of a backend
  MaxFaults,   \* bound: lost polls, and a Stop that times out
  Stops        \* bound: whether a shutdown may happen

ASSUME RegistryAssumption ==
  /\ Drained \subseteq Keys /\ Bound \subseteq Keys
  /\ Idents # {} /\ "none" \notin Idents /\ "home" \notin Idents
  /\ MaxFlips \in Nat /\ MaxCatalog \in Nat /\ MaxFaults \in Nat
  /\ Stops \in BOOLEAN

Backends == Idents \cup {"home"}
Maybe(S) == S \cup {"none"}

VARIABLES
  \* The resolver's identity, and how often it changed.
  ident, flips,
  \* Per backend: the graphs it holds and its catalog generation; whether
  \* the freshness watermark moved since a tool call compared it.
  exists, catGen, moved,
  \* The working set, and an admission that has not signalled its waiter yet.
  members, signalOwed,
  \* The buffered wake channels.
  admitted, catalogWake, genPollWake,
  \* The registry: backend of each registered collector, whether one of its
  \* lanes ended, cancelled collectors still running, an eviction that has
  \* not woken the catalog loop yet, the identity last observed, and whether
  \* a flip was ever handled (history).
  coll, ended, exiting, evictOwed, lastIdent, torn,
  \* The pass of RefreshLoadedGraphs: its locals.
  pc, wanted, have, todo, cur, be, registered,
  \* The hooks: program counter and the identity each one read.
  hookPc, hookSaw,
  \* The gen poll, one request per destination: its locals, then the caches:
  \* the backend a snapshot entry came from, the backends a poke history came
  \* from, the catalog generation last seen of a destination.
  pollPc, pollKeys, pollFrom, pollCat, snapFrom, pokedFrom, seenCat,
  stopPc, faults

serverVars == <<ident, flips, exists, catGen, moved>>
wsVars     == <<members, signalOwed>>
wakeVars   == <<admitted, catalogWake, genPollWake>>
regVars    == <<coll, ended, exiting, evictOwed, lastIdent, torn>>
passVars   == <<pc, wanted, have, todo, cur, be, registered>>
hookVars   == <<hookPc, hookSaw>>
pollVars   == <<pollPc, pollKeys, pollFrom, pollCat>>
cacheVars  == <<snapFrom, pokedFrom, seenCat>>
vars == <<serverVars, wsVars, wakeVars, regVars, passVars, hookVars, pollVars,
          cacheVars, stopPc, faults>>

Registered == {k \in Keys : coll[k] # "none"}
AllCancelled == exiting \cup {<<k, coll[k]>> : k \in Registered}

\* A request goes to the storage destination of its graph, or to the backend
\* the login state picks.
Dests == {"home", "login"}
Dest(k) == IF k \in Bound THEN "home" ELSE "login"
Serves(d) == IF d = "home" THEN "home" ELSE ident
resolveBackend(k) == Serves(Dest(k))

\* collectorsStopped: the registry is latched closed.
Stopped == stopPc \in {"waiting", "returned"}

Fault == faults < MaxFaults /\ faults' = faults + 1

\* wirePipelineRuntime: the set is empty on a cold boot; both loops start
\* with one pass, the seed poll being a poll that is owed.
Init ==
  /\ ident \in Idents /\ flips = 0
  /\ exists = [b \in Backends |-> Keys]
  /\ catGen = [b \in Backends |-> 1] /\ moved = TRUE
  /\ members = {} /\ signalOwed = FALSE
  /\ admitted = FALSE /\ catalogWake = FALSE /\ genPollWake = TRUE
  /\ coll = [k \in Keys |-> "none"] /\ ended = {} /\ exiting = {}
  /\ evictOwed = FALSE /\ lastIdent = "none" /\ torn = FALSE
  /\ pc = "read" /\ wanted = {} /\ have = {} /\ todo = {}
  /\ cur = "none" /\ be = "none" /\ registered = FALSE
  /\ hookPc = [h \in Hooks |-> "idle"] /\ hookSaw = [h \in Hooks |-> "none"]
  /\ pollPc = [d \in Dests |-> "wait"] /\ pollKeys = {}
  /\ pollFrom = [d \in Dests |-> "none"] /\ pollCat = [d \in Dests |-> 0]
  /\ snapFrom = [k \in Keys |-> "none"] /\ pokedFrom = [k \in Keys |-> {}]
  /\ seenCat = [d \in Dests |-> 0]
  /\ stopPc = "running" /\ faults = 0
-----------------------------------------------------------------------------
(***************************************************************************)
(* RefreshLoadedGraphs: one pass per wake.                                 *)
(***************************************************************************)
\* wantedGraphs: a local read of the working set.
ReadWanted ==
  /\ pc = "read"
  /\ wanted' = members \cap Drained
  /\ pc' = "have"
  /\ UNCHANGED <<serverVars, wsVars, wakeVars, regVars, have, todo, cur, be,
                 registered, hookVars, pollVars, cacheVars, stopPc, faults>>

ReadHave ==
  /\ pc = "have"
  /\ have' = Registered
  /\ todo' = wanted \ Registered
  /\ pc' = "register"
  /\ UNCHANGED <<serverVars, wsVars, wakeVars, regVars, wanted, cur, be,
                 registered, hookVars, pollVars, cacheVars, stopPc, faults>>

\* RegisterGraph resolves the backend before it takes collectorMu.
ResolveNext ==
  /\ pc = "register"
  /\ \E k \in todo :
       /\ todo' = todo \ {k} /\ cur' = k /\ be' = resolveBackend(k)
  /\ pc' = "enlist"
  /\ UNCHANGED <<serverVars, wsVars, wakeVars, regVars, wanted, have,
                 registered, hookVars, pollVars, cacheVars, stopPc, faults>>

\* Mutant: the stopped latch is not consulted.
MutEnlist ==
  /\ pc = "enlist"
  /\ registered' = TRUE
  /\ coll' = [coll EXCEPT ![cur] = IF @ = "none" THEN be ELSE @]
  /\ pc' = "register"
  /\ cur' = "none" /\ be' = "none"
  /\ UNCHANGED <<serverVars, wsVars, wakeVars, ended, exiting, evictOwed,
                 lastIdent, torn, wanted, have, todo, hookVars, pollVars,
                 cacheVars, stopPc, faults>>

\* RegisterGraph's critical section: refused once stopped, which ends the
\* registrations of the pass; a no-op for a tracked graph.
Enlist ==
  /\ pc = "enlist"
  /\ \/ /\ Stopped
        /\ todo' = {} /\ UNCHANGED <<coll, registered>>
     \/ /\ ~Stopped
        /\ coll' = [coll EXCEPT ![cur] = IF @ = "none" THEN be ELSE @]
        /\ registered' = TRUE /\ UNCHANGED todo
  /\ pc' = "register"
  /\ cur' = "none" /\ be' = "none"
  /\ UNCHANGED <<serverVars, wsVars, wakeVars, ended, exiting, evictOwed,
                 lastIdent, torn, wanted, have, hookVars, pollVars, cacheVars,
                 stopPc, faults>>

\* unregisterKey, for a graph the pass found registered and not wanted.
Unregister ==
  /\ pc = "register" /\ todo = {}
  /\ \E k \in have \ wanted :
       /\ have' = have \ {k}
       /\ coll' = [coll EXCEPT ![k] = "none"]
       /\ ended' = ended \ {k}
       /\ exiting' = IF coll[k] = "none" THEN exiting
                     ELSE exiting \cup {<<k, coll[k]>>}
  /\ UNCHANGED <<serverVars, wsVars, wakeVars, evictOwed, lastIdent, torn, pc,
                 wanted, todo, cur, be, registered, hookVars, pollVars,
                 cacheVars, stopPc, faults>>

\* Mutant: the admissions that arrived during the pass are dropped.
MutPassEnds ==
  /\ pc = "register" /\ todo = {} /\ have \subseteq wanted
  /\ genPollWake' = (genPollWake \/ registered)
  /\ registered' = FALSE /\ admitted' = FALSE
  /\ pc' = "wait" /\ wanted' = {} /\ have' = {}
  /\ UNCHANGED <<serverVars, wsVars, catalogWake, regVars, todo, cur, be,
                 hookVars, pollVars, cacheVars, stopPc, faults>>

\* A pass that registered something owes a poll; then the loop waits.
PassEnds ==
  /\ pc = "register" /\ todo = {} /\ have \subseteq wanted
  /\ genPollWake' = (genPollWake \/ registered)
  /\ registered' = FALSE
  /\ pc' = "wait" /\ wanted' = {} /\ have' = {}
  /\ UNCHANGED <<serverVars, wsVars, admitted, catalogWake, regVars, todo, cur,
                 be, hookVars, pollVars, cacheVars, stopPc, faults>>

AwaitWake ==
  /\ pc = "wait"
  /\ \/ catalogWake /\ catalogWake' = FALSE /\ UNCHANGED admitted
     \/ admitted /\ admitted' = FALSE /\ UNCHANGED catalogWake
  /\ pc' = "read"
  /\ UNCHANGED <<serverVars, wsVars, genPollWake, regVars, wanted, have, todo,
                 cur, be, registered, hookVars, pollVars, cacheVars, stopPc,
                 faults>>

\* The loop leaves once its context is cancelled.
RefreshExits ==
  /\ pc = "wait" /\ stopPc # "running"
  /\ pc' = "exited"
  /\ UNCHANGED <<serverVars, wsVars, wakeVars, regVars, wanted, have, todo,
                 cur, be, registered, hookVars, pollVars, cacheVars, stopPc,
                 faults>>

Refresh ==
  \/ ReadWanted \/ ReadHave \/ ResolveNext \/ Enlist \/ Unregister
  \/ PassEnds \/ AwaitWake
-----------------------------------------------------------------------------
(***************************************************************************)
(* The activity hook of a tool call: checkPipelineFreshness.               *)
(***************************************************************************)
\* handleLoginFlip reads the identity before it takes collectorMu.
ToolCall(h) ==
  /\ hookPc[h] = "idle"
  /\ hookPc' = [hookPc EXCEPT ![h] = "compare"]
  /\ hookSaw' = [hookSaw EXCEPT ![h] = ident]
  /\ UNCHANGED <<serverVars, wsVars, wakeVars, regVars, passVars, pollVars,
                 cacheVars, stopPc, faults>>

\* The first observation seeds; no change goes on to the watermark.
NoFlip(h) ==
  /\ hookPc[h] = "compare"
  /\ lastIdent \in {"none", hookSaw[h]}
  /\ lastIdent' = hookSaw[h]
  /\ hookPc' = [hookPc EXCEPT ![h] = "evaluate"]
  /\ hookSaw' = [hookSaw EXCEPT ![h] = "none"]
  /\ UNCHANGED <<serverVars, wsVars, wakeVars, coll, ended, exiting, evictOwed,
                 torn, passVars, pollVars, cacheVars, stopPc, faults>>

\* A change tears every collector down.
handleLoginFlip(h) ==
  /\ hookPc[h] = "compare"
  /\ lastIdent \notin {"none", hookSaw[h]}
  /\ lastIdent' = hookSaw[h] /\ torn' = TRUE
  /\ exiting' = AllCancelled
  /\ coll' = [k \in Keys |-> "none"] /\ ended' = {}
  /\ hookPc' = [hookPc EXCEPT ![h] = "clear"]
  /\ hookSaw' = [hookSaw EXCEPT ![h] = "none"]
  /\ UNCHANGED <<serverVars, wsVars, wakeVars, evictOwed, passVars, pollVars,
                 cacheVars, stopPc, faults>>

ClearCaches(h) ==
  /\ hookPc[h] = "clear"
  /\ snapFrom' = [k \in Keys |-> "none"] /\ pokedFrom' = [k \in Keys |-> {}]
  /\ hookPc' = [hookPc EXCEPT ![h] = "wake"]
  /\ UNCHANGED <<serverVars, wsVars, wakeVars, regVars, passVars, hookSaw,
                 pollVars, seenCat, stopPc, faults>>

\* Mutant: the flip owes a poll but no pass.
MutWakeBoth(h) ==
  /\ hookPc[h] = "wake"
  /\ genPollWake' = TRUE /\ moved' = TRUE
  /\ hookPc' = [hookPc EXCEPT ![h] = "idle"]
  /\ UNCHANGED <<ident, flips, exists, catGen, wsVars, admitted, catalogWake,
                 regVars, passVars, hookSaw, pollVars, cacheVars, stopPc,
                 faults>>

\* wakeCatalog, WakeAll, and the trigger forgets the watermark it saw.
WakeBoth(h) ==
  /\ hookPc[h] = "wake"
  /\ catalogWake' = TRUE /\ genPollWake' = TRUE /\ moved' = TRUE
  /\ hookPc' = [hookPc EXCEPT ![h] = "idle"]
  /\ UNCHANGED <<ident, flips, exists, catGen, wsVars, admitted, regVars,
                 passVars, hookSaw, pollVars, cacheVars, stopPc, faults>>

\* A watermark that moved owes a poll; a call inside the cool-off leaves the
\* move pending, which is a call that has not come yet.
evaluate(h) ==
  /\ hookPc[h] = "evaluate"
  /\ genPollWake' = (genPollWake \/ moved) /\ moved' = FALSE
  /\ hookPc' = [hookPc EXCEPT ![h] = "idle"]
  /\ UNCHANGED <<ident, flips, exists, catGen, wsVars, admitted, catalogWake,
                 regVars, passVars, hookSaw, pollVars, cacheVars, stopPc,
                 faults>>

Hook(h) ==
  \/ ToolCall(h) \/ NoFlip(h) \/ handleLoginFlip(h) \/ ClearCaches(h)
  \/ WakeBoth(h) \/ evaluate(h)
-----------------------------------------------------------------------------
(***************************************************************************)
(* RunGenPollLoop and genPollOnce.                                         *)
(***************************************************************************)
Group(d) == {k \in pollKeys : Dest(k) = d}

\* With no graph registered there is nothing to sample: look at the catalog.
\* A poll begins when every request of the last one is done.
PollStarts ==
  /\ genPollWake /\ \A d \in Dests : pollPc[d] = "wait"
  /\ genPollWake' = FALSE
  /\ pollKeys' = Registered
  /\ pollPc' = [d \in Dests |->
                 IF \E k \in Registered : Dest(k) = d THEN "send" ELSE "wait"]
  /\ catalogWake' = (catalogWake \/ Registered = {})
  /\ UNCHANGED <<serverVars, wsVars, admitted, regVars, passVars, hookVars,
                 pollFrom, pollCat, cacheVars, stopPc, faults>>

\* The request picks its backend and is answered; no lock is held.
PollSends(d) ==
  /\ pollPc[d] = "send"
  /\ pollFrom' = [pollFrom EXCEPT ![d] = Serves(d)]
  /\ pollCat' = [pollCat EXCEPT ![d] = catGen[Serves(d)]]
  /\ pollKeys' = pollKeys \ (Group(d) \ exists[Serves(d)])
  /\ pollPc' = [pollPc EXCEPT ![d] = "apply"]
  /\ UNCHANGED <<serverVars, wsVars, wakeVars, regVars, passVars, hookVars,
                 cacheVars, stopPc, faults>>

\* A 429 owes another poll; any other error ends this one.
PollFails(d) ==
  /\ pollPc[d] = "send"
  /\ Fault
  /\ genPollWake' \in {genPollWake, TRUE}
  /\ pollKeys' = pollKeys \ Group(d)
  /\ pollPc' = [pollPc EXCEPT ![d] = "wait"]
  /\ UNCHANGED <<serverVars, wsVars, admitted, catalogWake, regVars, passVars,
                 hookVars, pollFrom, pollCat, cacheVars, stopPc>>

\* applyStorageGenPollResponse, under genMu.  A snapshot entry is replaced, a
\* poke history only ever grows.  A catalog generation that changed since one
\* was seen wakes the catalog loop, after genMu is released.
PollApplies(d) ==
  /\ pollPc[d] = "apply"
  /\ snapFrom' = [k \in Keys |->
                    IF k \in Group(d) THEN pollFrom[d] ELSE snapFrom[k]]
  /\ pokedFrom' = [k \in Keys |->
                     IF k \in Group(d) THEN pokedFrom[k] \cup {pollFrom[d]}
                     ELSE pokedFrom[k]]
  /\ seenCat' = [seenCat EXCEPT ![d] = pollCat[d]]
  /\ pollPc' = [pollPc EXCEPT ![d] =
                  IF seenCat[d] \in {0, pollCat[d]} THEN "wait" ELSE "deliver"]
  /\ pollKeys' = pollKeys \ Group(d)
  /\ pollFrom' = [pollFrom EXCEPT ![d] = "none"]
  /\ pollCat' = [pollCat EXCEPT ![d] = 0]
  /\ UNCHANGED <<serverVars, wsVars, wakeVars, regVars, passVars, hookVars,
                 stopPc, faults>>

PollDelivers(d) ==
  /\ pollPc[d] = "deliver"
  /\ catalogWake' = TRUE
  /\ pollPc' = [pollPc EXCEPT ![d] = "wait"]
  /\ UNCHANGED <<serverVars, wsVars, admitted, genPollWake, regVars, passVars,
                 hookVars, pollKeys, pollFrom, pollCat, cacheVars, stopPc,
                 faults>>

Request(d) == PollSends(d) \/ PollApplies(d) \/ PollDelivers(d)

Poll == PollStarts \/ \E d \in Dests : Request(d)
-----------------------------------------------------------------------------
(***************************************************************************)
(* The collectors, as far as the registry sees them.                       *)
(***************************************************************************)
\* endLaneOnDurableNotFound: the lane ends and the graph leaves the set.
LaneNotFound(k) ==
  /\ coll[k] # "none" /\ k \notin ended
  /\ k \notin exists[coll[k]]
  /\ ended' = ended \cup {k}
  /\ members' = members \ {k} /\ evictOwed' = TRUE
  /\ UNCHANGED <<serverVars, signalOwed, wakeVars, coll, exiting, lastIdent,
                 torn, passVars, hookVars, pollVars, cacheVars, stopPc, faults>>

\* So may one whose cancel came after its scan was answered.
CancelledNotFound(k, b) ==
  /\ <<k, b>> \in exiting
  /\ k \notin exists[b]
  /\ exiting' = exiting \ {<<k, b>>}
  /\ members' = members \ {k} /\ evictOwed' = TRUE
  /\ UNCHANGED <<serverVars, signalOwed, wakeVars, coll, ended, lastIdent,
                 torn, passVars, hookVars, pollVars, cacheVars, stopPc, faults>>

\* Mutant: the eviction does not wake the catalog loop.
MutEvictWakes ==
  /\ evictOwed
  /\ evictOwed' = FALSE
  /\ UNCHANGED <<serverVars, wsVars, wakeVars, coll, ended, exiting, lastIdent,
                 torn, passVars, hookVars, pollVars, cacheVars, stopPc, faults>>

EvictWakes ==
  /\ evictOwed
  /\ evictOwed' = FALSE /\ catalogWake' = TRUE
  /\ UNCHANGED <<serverVars, wsVars, admitted, genPollWake, coll, ended,
                 exiting, lastIdent, torn, passVars, hookVars, pollVars,
                 cacheVars, stopPc, faults>>

CollectorExits(k, b) ==
  /\ <<k, b>> \in exiting
  /\ exiting' = exiting \ {<<k, b>>}
  /\ UNCHANGED <<serverVars, wsVars, wakeVars, coll, ended, evictOwed,
                 lastIdent, torn, passVars, hookVars, pollVars, cacheVars,
                 stopPc, faults>>
-----------------------------------------------------------------------------
(***************************************************************************)
(* The user, the server and Stop.                                          *)
(***************************************************************************)
\* A login, a logout or an account switch.
Flip ==
  /\ flips < MaxFlips
  /\ flips' = flips + 1
  /\ ident' \in Idents \ {ident}
  /\ UNCHANGED <<exists, catGen, moved, wsVars, wakeVars, regVars, passVars,
                 hookVars, pollVars, cacheVars, stopPc, faults>>

\* AdmitRef: the member is added in one section and signalled after it.
Admit(k) ==
  /\ k \notin members
  /\ k \in exists[resolveBackend(k)]
  /\ members' = members \cup {k} /\ signalOwed' = TRUE
  /\ UNCHANGED <<serverVars, wakeVars, regVars, passVars, hookVars, pollVars,
                 cacheVars, stopPc, faults>>

Signal ==
  /\ signalOwed
  /\ signalOwed' = FALSE /\ admitted' = TRUE
  /\ UNCHANGED <<serverVars, members, catalogWake, genPollWake, regVars,
                 passVars, hookVars, pollVars, cacheVars, stopPc, faults>>

\* A graph is created on, or dropped from, the backend that serves it now; a
\* drop made by this client forgets the member, and wakes nobody.
CatalogChanges(k) ==
  LET b == resolveBackend(k)
  IN  /\ catGen[b] < MaxCatalog
      /\ catGen' = [catGen EXCEPT ![b] = @ + 1]
      /\ moved' = TRUE
      /\ \/ /\ k \notin exists[b]
            /\ exists' = [exists EXCEPT ![b] = @ \cup {k}]
            /\ UNCHANGED members
         \/ /\ k \in exists[b]
            /\ exists' = [exists EXCEPT ![b] = @ \ {k}]
            /\ members' \in {members, members \ {k}}
      /\ UNCHANGED <<ident, flips, signalOwed, wakeVars, regVars, passVars,
                     hookVars, pollVars, cacheVars, stopPc, faults>>

\* drainOnShutdown cancels the context of the loops before it calls Stop;
\* Stop itself does not rely on it.
CancelLoops ==
  /\ Stops /\ stopPc = "running"
  /\ stopPc' = "cancelled"
  /\ UNCHANGED <<serverVars, wsVars, wakeVars, regVars, passVars, hookVars,
                 pollVars, cacheVars, faults>>

\* stopSequence step 1: latch, cancel and clear in one section.
StopBegins ==
  /\ Stops /\ ~Stopped
  /\ stopPc' = "waiting"
  /\ exiting' = AllCancelled
  /\ coll' = [k \in Keys |-> "none"] /\ ended' = {}
  /\ UNCHANGED <<serverVars, wsVars, wakeVars, evictOwed, lastIdent, torn,
                 passVars, hookVars, pollVars, cacheVars, faults>>

\* Step 2: the wait group is empty, or the caller's context fired.
StopWaits ==
  /\ stopPc = "waiting"
  /\ \/ Registered = {} /\ exiting = {} /\ UNCHANGED faults
     \/ Fault
  /\ stopPc' = "returned"
  /\ UNCHANGED <<serverVars, wsVars, wakeVars, regVars, passVars, hookVars,
                 pollVars, cacheVars>>

Next ==
  \/ Refresh \/ RefreshExits \/ Poll \/ \E d \in Dests : PollFails(d)
  \/ \E h \in Hooks : Hook(h)
  \/ \E k \in Keys :
       \/ LaneNotFound(k) \/ Admit(k) \/ CatalogChanges(k)
       \/ \E b \in Backends : CancelledNotFound(k, b) \/ CollectorExits(k, b)
  \/ EvictWakes \/ Signal \/ Flip \/ CancelLoops \/ StopBegins \/ StopWaits

Spec == Init /\ [][Next]_vars

\* The goroutines run, the user stays active, a shutdown that has begun calls
\* Stop, and a collector whose graph has no snapshot entry keeps scanning, so
\* a missing graph is found missing.
Fairness ==
  /\ WF_vars(Refresh) /\ WF_vars(Poll)
  /\ \A h \in Hooks : WF_vars(Hook(h))
  /\ WF_vars(EvictWakes) /\ WF_vars(Signal) /\ WF_vars(StopWaits)
  /\ WF_vars(stopPc = "cancelled" /\ StopBegins)
  /\ \A k \in Keys :
       /\ WF_vars(snapFrom[k] = "none" /\ LaneNotFound(k))
       /\ \A b \in Backends : WF_vars(CollectorExits(k, b))

FairSpec == Spec /\ Fairness
-----------------------------------------------------------------------------
(***************************************************************************)
(* Properties.                                                             *)
(***************************************************************************)

\* Every variable has its type (the fields of Pipeline, the working set and
\* the locals of the three goroutines).
TypeOK ==
  /\ ident \in Idents /\ flips \in Nat
  /\ exists \in [Backends -> SUBSET Keys] /\ catGen \in [Backends -> Nat]
  /\ moved \in BOOLEAN /\ signalOwed \in BOOLEAN /\ members \subseteq Keys
  /\ admitted \in BOOLEAN /\ catalogWake \in BOOLEAN /\ genPollWake \in BOOLEAN
  /\ coll \in [Keys -> Maybe(Backends)] /\ ended \subseteq Keys
  /\ exiting \subseteq Keys \X Backends /\ evictOwed \in BOOLEAN
  /\ lastIdent \in Maybe(Idents) /\ torn \in BOOLEAN
  /\ pc \in {"read", "have", "register", "enlist", "wait", "exited"}
  /\ wanted \subseteq Drained /\ have \subseteq Keys /\ todo \subseteq Drained
  /\ cur \in Maybe(Keys) /\ be \in Maybe(Backends) /\ registered \in BOOLEAN
  /\ pc = "enlist" => cur \in Drained /\ be \in Backends
  /\ hookPc \in [Hooks -> {"idle", "compare", "clear", "wake", "evaluate"}]
  /\ hookSaw \in [Hooks -> Maybe(Idents)]
  /\ \A h \in Hooks : hookPc[h] = "compare" => hookSaw[h] \in Idents
  /\ pollPc \in [Dests -> {"wait", "send", "apply", "deliver"}]
  /\ pollKeys \subseteq Keys
  /\ pollFrom \in [Dests -> Maybe(Backends)] /\ pollCat \in [Dests -> Nat]
  /\ \A d \in Dests : pollPc[d] = "apply" => pollFrom[d] \in Backends
  /\ snapFrom \in [Keys -> Maybe(Backends)]
  /\ pokedFrom \in [Keys -> SUBSET Backends] /\ seenCat \in [Dests -> Nat]
  /\ stopPc \in {"running", "cancelled", "waiting", "returned"} /\ faults \in Nat

\* Once Stop has latched the registry closed no collector is registered, even
\* by a pass that resolved its backend before: nothing joins the wait group
\* that Stop has no cancel for.
StoppedStaysEmpty == Stopped => Registered = {}

\* A wake the catalog loop has not consumed, or one some goroutine is about
\* to send.
PassOwed ==
  \/ catalogWake \/ admitted \/ signalOwed
  \/ \E h \in Hooks : hookPc[h] \in {"clear", "wake"}

\* The refresh loop waits on its wakes alone, so it may only wait when every
\* wanted graph has a collector or another pass is owed: an admission during
\* a pass, or a flip that tears down what the pass saw, is never missed.
NoMemberMissed ==
  pc = "wait" /\ stopPc = "running" =>
    \A k \in members \cap Drained : coll[k] # "none" \/ PassOwed

\* Every member this machine can serve gets a collector.
MembersRegistered ==
  \A k \in Drained : k \in members
    ~> (coll[k] # "none" \/ k \notin members \/ stopPc # "running")

\* A graph that was dropped and left the working set loses its collector,
\* whether the server reported it missing or a drop that signals nobody
\* removed it, unless it is created or admitted again first.
NonMembersReleased ==
  \A k \in Keys :
    LET gone == k \notin members /\ k \notin exists[resolveBackend(k)]
    IN  gone ~> (coll[k] = "none" \/ ~gone)

\* Stop returns without its deadline: every collector it waits for has been
\* cancelled.
StopReturns == stopPc = "waiting" ~> stopPc = "returned"

-----------------------------------------------------------------------------
(***************************************************************************)
(* Further claims of comments.  No recorded run checks them; the README    *)
(* names an instance that refutes each.                                    *)
(***************************************************************************)

\* A flip was handled and nothing it started is under way.
FlipDone ==
  /\ torn /\ lastIdent = ident /\ stopPc = "running"
  /\ pc = "wait" /\ ~PassOwed /\ ~genPollWake
  /\ \A d \in Dests : pollPc[d] = "wait"
  /\ \A h \in Hooks : hookPc[h] = "idle"

\* What handleLoginFlip claims: once the flip is handled and the registry is
\* at rest, no collector serves a backend other than the current identity's.
NoStaleBackend ==
  FlipDone =>
    \A k \in Registered : coll[k] = resolveBackend(k)

\* What the eviction claims: it is a repair, so a graph that exists and is
\* admitted again is drained again.
ReadmittedIsDrained ==
  \A k \in Drained :
    (k \in members) ~> (k \notin members \/ stopPc # "running"
                          \/ (coll[k] # "none" /\ k \notin ended))
\* What CheckLoginFlip claims of lastPokedGen: once the flip is handled the
\* poke history holds no generation of the previous backend.
NoStalePokeHistory ==
  FlipDone =>
    \A k \in Keys : pokedFrom[k] \subseteq {resolveBackend(k)}
=============================================================================
