--------------------------- MODULE RegistryProofs ---------------------------
(***************************************************************************)
(* The safety of Registry for every set of graphs, identities and          *)
(* concurrent tool calls.  NoMemberMissed speaks of the loop at rest; what *)
(* is inductive is that at every point of a pass a member without a        *)
(* collector is either still ahead of the pass or has another pass owed.   *)
(***************************************************************************)
EXTENDS Registry, TLAPS

\* The loop exits only once the shutdown has begun.
ExitsStopped == pc = "exited" => stopPc # "running"

\* The pass under way will register k.
Ahead(k) ==
  \/ pc = "read"
  \/ pc = "have" /\ k \in wanted
  \/ pc = "register" /\ k \in todo
  \/ pc = "enlist" /\ (k \in todo \/ k = cur)

\* A member without a collector is ahead of the pass, or a pass is owed.
PassCovers ==
  stopPc = "running" =>
    \A k \in members \cap Drained : coll[k] = "none" => Ahead(k) \/ PassOwed

\* A member the pass did not read has a pass owed: what it unregisters as
\* unwanted is not a member, or will be registered again.
WantedCovers ==
  pc \in {"have", "register", "enlist"} /\ stopPc = "running" =>
    \A k \in members \cap Drained : k \in wanted \/ PassOwed

Inv == /\ TypeOK /\ StoppedStaysEmpty
       /\ ExitsStopped /\ PassCovers /\ WantedCovers

\* Every step keeps the types.
LEMMA TypeStep ==
  ASSUME TypeOK, [Next]_vars
  PROVE  TypeOK'
<1> USE RegistryAssumption DEF TypeOK, Backends, Maybe,
      serverVars, wsVars, wakeVars, regVars, passVars, hookVars,
      pollVars, cacheVars
<1>1. CASE UNCHANGED vars
  BY <1>1 DEF vars
<1>2. ASSUME Refresh
      PROVE  TypeOK'
  <2>1. CASE ReadWanted
    BY <2>1 DEF ReadWanted
  <2>2. CASE ReadHave
    BY <2>2 DEF ReadHave, Registered
  <2>3. CASE ResolveNext
    BY <2>3 DEF ResolveNext, resolveBackend, Serves
  <2>4. CASE Enlist
    <3>1. coll' \in [Keys -> Maybe(Backends)]
      BY <2>4 DEF Enlist, Stopped
    <3>2. registered' \in BOOLEAN
      BY <2>4, Zenon DEF Enlist, Stopped
    <3>3. todo' \subseteq Drained
      BY <2>4 DEF Enlist, Stopped
    <3> QED
      BY <2>4, <3>1, <3>2, <3>3 DEF Enlist, Stopped
  <2>5. CASE Unregister
    BY <2>5 DEF Unregister
  <2>6. CASE PassEnds
    <3>1. genPollWake' \in BOOLEAN /\ registered' \in BOOLEAN
      BY <2>6, Zenon DEF PassEnds
    <3>2. wanted' \subseteq Drained /\ have' \subseteq Keys
      BY <2>6 DEF PassEnds
    <3> QED
      BY <2>6, <3>1, <3>2 DEF PassEnds
  <2>7. CASE AwaitWake
    <3>1. catalogWake' \in BOOLEAN /\ admitted' \in BOOLEAN
      BY <2>7, Zenon DEF AwaitWake
    <3> QED
      BY <2>7, <3>1 DEF AwaitWake
  <2> QED
    BY <1>2, <2>1, <2>2, <2>3, <2>4, <2>5, <2>6, <2>7 DEF Refresh
<1>3. ASSUME Poll
      PROVE  TypeOK'
  <2>1. CASE PollStarts
    <3>1. catalogWake' \in BOOLEAN /\ genPollWake' \in BOOLEAN
      BY <2>1, Zenon DEF PollStarts
    <3>2. pollKeys' \subseteq Keys
      BY <2>1 DEF PollStarts, Registered
    <3>3. /\ pollPc' \in [Dests -> {"wait", "send", "apply", "deliver"}]
          /\ \A d \in Dests : pollPc'[d] # "apply"
      BY <2>1 DEF PollStarts
    <3> QED
      BY <2>1, <3>1, <3>2, <3>3 DEF PollStarts
  <2>2. ASSUME NEW d \in Dests, Request(d)
        PROVE  TypeOK'
    <3>1. CASE PollSends(d)
      <4>1. Serves(d) \in Backends
        BY DEF Serves
      <4> QED
        BY <3>1, <4>1 DEF PollSends, Group
    <3>2. CASE PollApplies(d)
      <4>1. pollFrom[d] \in Backends
        BY <3>2 DEF PollApplies
      <4>2. /\ snapFrom' \in [Keys -> Maybe(Backends)]
            /\ pokedFrom' \in [Keys -> SUBSET Backends]
        BY <3>2, <4>1 DEF PollApplies
      <4>3. /\ pollPc' \in [Dests -> {"wait", "send", "apply", "deliver"}]
            /\ \A c \in Dests :
                 pollPc'[c] = "apply" => c # d /\ pollPc[c] = "apply"
        BY <3>2 DEF PollApplies
      <4>4. /\ pollFrom' \in [Dests -> Maybe(Backends)]
            /\ \A c \in Dests : c # d => pollFrom'[c] = pollFrom[c]
            /\ pollCat' \in [Dests -> Nat] /\ seenCat' \in [Dests -> Nat]
        BY <3>2 DEF PollApplies
      <4>5. pollKeys' \subseteq Keys
        BY <3>2 DEF PollApplies
      <4> QED
        BY <3>2, <4>2, <4>3, <4>4, <4>5 DEF PollApplies
    <3>3. CASE PollDelivers(d)
      BY <3>3 DEF PollDelivers
    <3> QED
      BY <2>2, <3>1, <3>2, <3>3 DEF Request
  <2> QED
    BY <1>3, <2>1, <2>2 DEF Poll
<1>4. ASSUME NEW h \in Hooks, Hook(h)
      PROVE  TypeOK'
  <2>1. CASE ToolCall(h)
    BY <2>1 DEF ToolCall
  <2>2. CASE NoFlip(h)
    BY <2>2 DEF NoFlip
  <2>3. CASE handleLoginFlip(h)
    BY <2>3 DEF handleLoginFlip, AllCancelled, Registered
  <2>4. CASE ClearCaches(h)
    BY <2>4 DEF ClearCaches
  <2>5. CASE WakeBoth(h)
    BY <2>5 DEF WakeBoth
  <2>6. CASE evaluate(h)
    <3>1. genPollWake' \in BOOLEAN /\ moved' \in BOOLEAN
      BY <2>6, Zenon DEF evaluate
    <3>2. hookPc' \in [Hooks -> {"idle", "compare", "clear", "wake", "evaluate"}]
      BY <2>6 DEF evaluate
    <3>3. \A g \in Hooks : hookPc'[g] = "compare" => hookSaw'[g] \in Idents
      BY <2>6 DEF evaluate
    <3> QED
      BY <2>6, <3>1, <3>2, <3>3 DEF evaluate
  <2> QED
    BY <1>4, <2>1, <2>2, <2>3, <2>4, <2>5, <2>6 DEF Hook
<1>5. ASSUME NEW k \in Keys,
             LaneNotFound(k) \/ Admit(k) \/ CatalogChanges(k)
      PROVE  TypeOK'
  <2>1. CASE LaneNotFound(k)
    BY <2>1 DEF LaneNotFound
  <2>2. CASE Admit(k)
    BY <2>2 DEF Admit, resolveBackend
  <2>3. CASE CatalogChanges(k)
    BY <2>3 DEF CatalogChanges, resolveBackend, Serves
  <2> QED
    BY <1>5, <2>1, <2>2, <2>3
<1>6. ASSUME NEW k \in Keys, NEW b \in Backends,
             CancelledNotFound(k, b) \/ CollectorExits(k, b)
      PROVE  TypeOK'
  <2>1. CASE CancelledNotFound(k, b)
    BY <2>1 DEF CancelledNotFound
  <2>2. CASE CollectorExits(k, b)
    BY <2>2 DEF CollectorExits
  <2> QED
    BY <1>6, <2>1, <2>2
<1>7. CASE RefreshExits
  BY <1>7 DEF RefreshExits
<1>8. ASSUME NEW d \in Dests, PollFails(d)
      PROVE  TypeOK'
  <2>1. genPollWake' \in BOOLEAN
    BY <1>8, Zenon DEF PollFails
  <2>2. /\ pollKeys' \subseteq Keys /\ faults' \in Nat
        /\ pollPc' \in [Dests -> {"wait", "send", "apply", "deliver"}]
        /\ \A c \in Dests : pollPc'[c] = "apply" => pollPc[c] = "apply"
    BY <1>8 DEF PollFails, Fault
  <2> QED
    BY <1>8, <2>1, <2>2 DEF PollFails
<1>9. CASE EvictWakes
  <2>1. evictOwed' \in BOOLEAN /\ catalogWake' \in BOOLEAN
    BY <1>9, Zenon DEF EvictWakes
  <2> QED
    BY <1>9, <2>1 DEF EvictWakes
<1>10. CASE Signal
  <2>1. signalOwed' \in BOOLEAN /\ admitted' \in BOOLEAN
    BY <1>10, Zenon DEF Signal
  <2> QED
    BY <1>10, <2>1 DEF Signal
<1>11. CASE Flip
  BY <1>11 DEF Flip
<1>12. CASE StopBegins
  BY <1>12 DEF StopBegins, Stopped, AllCancelled, Registered
<1>13. CASE StopWaits
  BY <1>13 DEF StopWaits, Fault, Registered
<1>14. CASE CancelLoops
  BY <1>14 DEF CancelLoops
<1> QED
  BY <1>1, <1>2, <1>3, <1>4, <1>5, <1>6, <1>7, <1>8,
     <1>9, <1>10, <1>11, <1>12, <1>13, <1>14 DEF Next

\* Every step keeps a stopped registry empty.
LEMMA StoppedStep ==
  ASSUME TypeOK, StoppedStaysEmpty, ExitsStopped, [Next]_vars
  PROVE  (StoppedStaysEmpty /\ ExitsStopped)'
<1> USE RegistryAssumption DEF TypeOK, StoppedStaysEmpty, Stopped, ExitsStopped,
      Registered, Backends, Maybe,
      serverVars, wsVars, wakeVars, regVars, passVars, hookVars,
      pollVars, cacheVars
<1>1. CASE UNCHANGED vars
  BY <1>1 DEF vars
<1>2. ASSUME Refresh
      PROVE  (StoppedStaysEmpty /\ ExitsStopped)'
  <2>1. CASE ReadWanted
    BY <2>1 DEF ReadWanted
  <2>2. CASE ReadHave
    BY <2>2 DEF ReadHave, Registered
  <2>3. CASE ResolveNext
    BY <2>3 DEF ResolveNext, resolveBackend, Serves
  <2>4. CASE Enlist
    BY <2>4 DEF Enlist, Stopped
  <2>5. CASE Unregister
    BY <2>5 DEF Unregister
  <2>6. CASE PassEnds
    BY <2>6 DEF PassEnds
  <2>7. CASE AwaitWake
    BY <2>7 DEF AwaitWake
  <2> QED
    BY <1>2, <2>1, <2>2, <2>3, <2>4, <2>5, <2>6, <2>7 DEF Refresh
<1>3. ASSUME Poll
      PROVE  (StoppedStaysEmpty /\ ExitsStopped)'
  <2>1. CASE PollStarts
    BY <2>1 DEF PollStarts, Registered
  <2>2. ASSUME NEW d \in Dests, Request(d)
        PROVE  (StoppedStaysEmpty /\ ExitsStopped)'
    <3>1. CASE PollSends(d)
      BY <3>1 DEF PollSends
    <3>2. CASE PollApplies(d)
      BY <3>2 DEF PollApplies
    <3>3. CASE PollDelivers(d)
      BY <3>3 DEF PollDelivers
    <3> QED
      BY <2>2, <3>1, <3>2, <3>3 DEF Request
  <2> QED
    BY <1>3, <2>1, <2>2 DEF Poll
<1>4. ASSUME NEW h \in Hooks, Hook(h)
      PROVE  (StoppedStaysEmpty /\ ExitsStopped)'
  <2>1. CASE ToolCall(h)
    BY <2>1 DEF ToolCall
  <2>2. CASE NoFlip(h)
    BY <2>2 DEF NoFlip
  <2>3. CASE handleLoginFlip(h)
    BY <2>3 DEF handleLoginFlip, AllCancelled, Registered
  <2>4. CASE ClearCaches(h)
    BY <2>4 DEF ClearCaches
  <2>5. CASE WakeBoth(h)
    BY <2>5 DEF WakeBoth
  <2>6. CASE evaluate(h)
    BY <2>6 DEF evaluate
  <2> QED
    BY <1>4, <2>1, <2>2, <2>3, <2>4, <2>5, <2>6 DEF Hook
<1>5. ASSUME NEW k \in Keys,
             LaneNotFound(k) \/ Admit(k) \/ CatalogChanges(k)
      PROVE  (StoppedStaysEmpty /\ ExitsStopped)'
  <2>1. CASE LaneNotFound(k)
    BY <2>1 DEF LaneNotFound
  <2>2. CASE Admit(k)
    BY <2>2 DEF Admit, resolveBackend
  <2>3. CASE CatalogChanges(k)
    BY <2>3 DEF CatalogChanges, resolveBackend, Serves
  <2> QED
    BY <1>5, <2>1, <2>2, <2>3
<1>6. ASSUME NEW k \in Keys, NEW b \in Backends,
             CancelledNotFound(k, b) \/ CollectorExits(k, b)
      PROVE  (StoppedStaysEmpty /\ ExitsStopped)'
  <2>1. CASE CancelledNotFound(k, b)
    BY <2>1 DEF CancelledNotFound
  <2>2. CASE CollectorExits(k, b)
    BY <2>2 DEF CollectorExits
  <2> QED
    BY <1>6, <2>1, <2>2
<1>7. CASE RefreshExits
  BY <1>7 DEF RefreshExits
<1>8. ASSUME NEW d \in Dests, PollFails(d)
      PROVE  (StoppedStaysEmpty /\ ExitsStopped)'
  BY <1>8 DEF PollFails
<1>9. CASE EvictWakes
  BY <1>9 DEF EvictWakes
<1>10. CASE Signal
  BY <1>10 DEF Signal
<1>11. CASE Flip
  BY <1>11 DEF Flip
<1>12. CASE StopBegins
  BY <1>12 DEF StopBegins, Stopped, AllCancelled, Registered
<1>13. CASE StopWaits
  BY <1>13 DEF StopWaits, Fault, Registered
<1>14. CASE CancelLoops
  BY <1>14 DEF CancelLoops
<1> QED
  BY <1>1, <1>2, <1>3, <1>4, <1>5, <1>6, <1>7, <1>8,
     <1>9, <1>10, <1>11, <1>12, <1>13, <1>14 DEF Next

\* A pass that is owed stays owed until the loop consumes a wake.
LEMMA OwedStays ==
  ASSUME TypeOK, PassOwed, [Next]_vars
  PROVE  PassOwed' \/ AwaitWake
<1> USE DEF PassOwed, wsVars, wakeVars, hookVars
<1>1. CASE UNCHANGED vars
  BY <1>1, Zenon DEF vars
<1>2. ASSUME Refresh
      PROVE  PassOwed' \/ AwaitWake
  <2>1. CASE ReadWanted
    BY <2>1, Zenon DEF ReadWanted
  <2>2. CASE ReadHave
    BY <2>2, Zenon DEF ReadHave
  <2>3. CASE ResolveNext
    BY <2>3, Zenon DEF ResolveNext
  <2>4. CASE Enlist
    BY <2>4, Zenon DEF Enlist, Stopped
  <2>5. CASE Unregister
    BY <2>5, Zenon DEF Unregister
  <2>6. CASE PassEnds
    BY <2>6, Zenon DEF PassEnds
  <2>7. CASE AwaitWake
    BY <2>7, Zenon DEF AwaitWake
  <2> QED
    BY <1>2, <2>1, <2>2, <2>3, <2>4, <2>5, <2>6, <2>7 DEF Refresh
<1>3. ASSUME Poll
      PROVE  PassOwed' \/ AwaitWake
  <2>1. CASE PollStarts
    <3>1. catalogWake => catalogWake'
      BY <2>1, Zenon DEF PollStarts
    <3> QED
      BY <2>1, <3>1, Zenon DEF PollStarts
  <2>2. ASSUME NEW d \in Dests, Request(d)
        PROVE  PassOwed' \/ AwaitWake
    <3>1. CASE PollSends(d)
      BY <3>1, Zenon DEF PollSends
    <3>2. CASE PollApplies(d)
      BY <3>2, Zenon DEF PollApplies
    <3>3. CASE PollDelivers(d)
      BY <3>3, Zenon DEF PollDelivers
    <3> QED
      BY <2>2, <3>1, <3>2, <3>3 DEF Request
  <2> QED
    BY <1>3, <2>1, <2>2 DEF Poll
<1>4. ASSUME NEW h \in Hooks, Hook(h)
      PROVE  PassOwed' \/ AwaitWake
  <2>1. CASE ToolCall(h)
    <3>1. CASE catalogWake \/ admitted \/ signalOwed
      BY <2>1, <3>1, Zenon DEF ToolCall
    <3>2. ASSUME NEW g \in Hooks, hookPc[g] \in {"clear", "wake"}
          PROVE  hookPc'[g] \in {"clear", "wake"}
      BY <2>1, <3>2 DEF ToolCall, TypeOK
    <3> QED
      BY <3>1, <3>2, Zenon
  <2>2. CASE NoFlip(h)
    <3>1. CASE catalogWake \/ admitted \/ signalOwed
      BY <2>2, <3>1, Zenon DEF NoFlip
    <3>2. ASSUME NEW g \in Hooks, hookPc[g] \in {"clear", "wake"}
          PROVE  hookPc'[g] \in {"clear", "wake"}
      BY <2>2, <3>2 DEF NoFlip, TypeOK
    <3> QED
      BY <3>1, <3>2, Zenon
  <2>3. CASE handleLoginFlip(h)
    <3>1. CASE catalogWake \/ admitted \/ signalOwed
      BY <2>3, <3>1, Zenon DEF handleLoginFlip
    <3>2. ASSUME NEW g \in Hooks, hookPc[g] \in {"clear", "wake"}
          PROVE  hookPc'[g] \in {"clear", "wake"}
      BY <2>3, <3>2 DEF handleLoginFlip, TypeOK
    <3> QED
      BY <3>1, <3>2, Zenon
  <2>4. CASE ClearCaches(h)
    <3>1. CASE catalogWake \/ admitted \/ signalOwed
      BY <2>4, <3>1, Zenon DEF ClearCaches
    <3>2. ASSUME NEW g \in Hooks, hookPc[g] \in {"clear", "wake"}
          PROVE  hookPc'[g] \in {"clear", "wake"}
      BY <2>4, <3>2 DEF ClearCaches, TypeOK
    <3> QED
      BY <3>1, <3>2, Zenon
  <2>5. CASE WakeBoth(h)
    BY <2>5, Zenon DEF WakeBoth
  <2>6. CASE evaluate(h)
    <3>1. CASE catalogWake \/ admitted \/ signalOwed
      BY <2>6, <3>1, Zenon DEF evaluate
    <3>2. ASSUME NEW g \in Hooks, hookPc[g] \in {"clear", "wake"}
          PROVE  hookPc'[g] \in {"clear", "wake"}
      BY <2>6, <3>2 DEF evaluate, TypeOK
    <3> QED
      BY <3>1, <3>2, Zenon
  <2> QED
    BY <1>4, <2>1, <2>2, <2>3, <2>4, <2>5, <2>6 DEF Hook
<1>5. ASSUME NEW k \in Keys,
             LaneNotFound(k) \/ Admit(k) \/ CatalogChanges(k)
      PROVE  PassOwed' \/ AwaitWake
  <2>1. CASE LaneNotFound(k)
    BY <2>1, Zenon DEF LaneNotFound
  <2>2. CASE Admit(k)
    BY <2>2, Zenon DEF Admit
  <2>3. CASE CatalogChanges(k)
    BY <2>3, Zenon DEF CatalogChanges
  <2> QED
    BY <1>5, <2>1, <2>2, <2>3
<1>6. ASSUME NEW k \in Keys, NEW b \in Backends,
             CancelledNotFound(k, b) \/ CollectorExits(k, b)
      PROVE  PassOwed' \/ AwaitWake
  <2>1. CASE CancelledNotFound(k, b)
    BY <2>1, Zenon DEF CancelledNotFound
  <2>2. CASE CollectorExits(k, b)
    BY <2>2, Zenon DEF CollectorExits
  <2> QED
    BY <1>6, <2>1, <2>2
<1>7. CASE RefreshExits
  BY <1>7, Zenon DEF RefreshExits
<1>8. ASSUME NEW d \in Dests, PollFails(d)
      PROVE  PassOwed' \/ AwaitWake
  BY <1>8, Zenon DEF PollFails
<1>9. CASE EvictWakes
  BY <1>9, Zenon DEF EvictWakes
<1>10. CASE Signal
  BY <1>10, Zenon DEF Signal
<1>11. CASE Flip
  BY <1>11, Zenon DEF Flip
<1>12. CASE StopBegins
  BY <1>12, Zenon DEF StopBegins, Stopped
<1>13. CASE StopWaits
  BY <1>13, Zenon DEF StopWaits
<1>14. CASE CancelLoops
  BY <1>14, Zenon DEF CancelLoops
<1> QED
  BY <1>1, <1>2, <1>3, <1>4, <1>5, <1>6, <1>7, <1>8,
     <1>9, <1>10, <1>11, <1>12, <1>13, <1>14 DEF Next

\* Every step keeps members covered by a pass.
LEMMA CoverStep ==
  ASSUME TypeOK, PassCovers, WantedCovers, [Next]_vars
  PROVE  (PassCovers /\ WantedCovers)'
<1> USE RegistryAssumption DEF PassCovers, WantedCovers, Ahead, Backends, Maybe,
      serverVars, wsVars, wakeVars, regVars, passVars, hookVars,
      pollVars, cacheVars
<1>a. PassOwed => PassOwed' \/ pc' = "read"
  BY OwedStays DEF AwaitWake
<1>b. coll \in [Keys -> Maybe(Backends)]
  BY DEF TypeOK
<1>c. pc = "enlist" => cur \in Keys /\ be \in Backends
  BY DEF TypeOK
<1>1. CASE UNCHANGED vars
  BY <1>a, <1>b, <1>c, <1>1 DEF vars
<1>2. ASSUME Refresh
      PROVE  (PassCovers /\ WantedCovers)'
  <2>1. CASE ReadWanted
    BY <1>a, <1>b, <1>c, <2>1 DEF ReadWanted
  <2>2. CASE ReadHave
    BY <1>a, <1>b, <1>c, <2>2 DEF ReadHave, Registered
  <2>3. CASE ResolveNext
    BY <1>a, <1>b, <1>c, <2>3 DEF ResolveNext, resolveBackend, Serves
  <2>4. CASE Enlist
    BY <1>a, <1>b, <1>c, <2>4 DEF Enlist, Stopped
  <2>5. CASE Unregister
    BY <1>a, <1>b, <1>c, <2>5 DEF Unregister
  <2>6. CASE PassEnds
    BY <1>a, <1>b, <1>c, <2>6 DEF PassEnds
  <2>7. CASE AwaitWake
    BY <1>a, <1>b, <1>c, <2>7 DEF AwaitWake
  <2> QED
    BY <1>2, <2>1, <2>2, <2>3, <2>4, <2>5, <2>6, <2>7 DEF Refresh
<1>3. ASSUME Poll
      PROVE  (PassCovers /\ WantedCovers)'
  <2>1. CASE PollStarts
    BY <1>a, <1>b, <1>c, <2>1 DEF PollStarts, Registered
  <2>2. ASSUME NEW d \in Dests, Request(d)
        PROVE  (PassCovers /\ WantedCovers)'
    <3>1. CASE PollSends(d)
      BY <1>a, <1>b, <1>c, <3>1 DEF PollSends
    <3>2. CASE PollApplies(d)
      BY <1>a, <1>b, <1>c, <3>2 DEF PollApplies
    <3>3. CASE PollDelivers(d)
      BY <1>a, <1>b, <1>c, <3>3 DEF PollDelivers
    <3> QED
      BY <2>2, <3>1, <3>2, <3>3 DEF Request
  <2> QED
    BY <1>3, <2>1, <2>2 DEF Poll
<1>4. ASSUME NEW h \in Hooks, Hook(h)
      PROVE  (PassCovers /\ WantedCovers)'
  <2>1. CASE ToolCall(h)
    BY <1>a, <1>b, <1>c, <2>1 DEF ToolCall
  <2>2. CASE NoFlip(h)
    BY <1>a, <1>b, <1>c, <2>2 DEF NoFlip
  <2>3. CASE handleLoginFlip(h)
    <3>1. hookPc'[h] = "clear"
      BY <2>3 DEF handleLoginFlip, TypeOK
    <3>2. PassOwed'
      BY <3>1 DEF PassOwed
    <3> QED
      BY <3>2
  <2>4. CASE ClearCaches(h)
    BY <1>a, <1>b, <1>c, <2>4 DEF ClearCaches
  <2>5. CASE WakeBoth(h)
    BY <1>a, <1>b, <1>c, <2>5 DEF WakeBoth
  <2>6. CASE evaluate(h)
    BY <1>a, <1>b, <1>c, <2>6 DEF evaluate
  <2> QED
    BY <1>4, <2>1, <2>2, <2>3, <2>4, <2>5, <2>6 DEF Hook
<1>5. ASSUME NEW k \in Keys,
             LaneNotFound(k) \/ Admit(k) \/ CatalogChanges(k)
      PROVE  (PassCovers /\ WantedCovers)'
  <2>1. CASE LaneNotFound(k)
    BY <1>a, <1>b, <1>c, <2>1 DEF LaneNotFound
  <2>2. CASE Admit(k)
    <3>1. PassOwed'
      BY <2>2, Zenon DEF Admit, PassOwed
    <3> QED
      BY <3>1
  <2>3. CASE CatalogChanges(k)
    BY <1>a, <1>b, <1>c, <2>3 DEF CatalogChanges, resolveBackend, Serves
  <2> QED
    BY <1>5, <2>1, <2>2, <2>3
<1>6. ASSUME NEW k \in Keys, NEW b \in Backends,
             CancelledNotFound(k, b) \/ CollectorExits(k, b)
      PROVE  (PassCovers /\ WantedCovers)'
  <2>1. CASE CancelledNotFound(k, b)
    BY <1>a, <1>b, <1>c, <2>1 DEF CancelledNotFound
  <2>2. CASE CollectorExits(k, b)
    BY <1>a, <1>b, <1>c, <2>2 DEF CollectorExits
  <2> QED
    BY <1>6, <2>1, <2>2
<1>7. CASE RefreshExits
  BY <1>a, <1>b, <1>c, <1>7 DEF RefreshExits
<1>8. ASSUME NEW d \in Dests, PollFails(d)
      PROVE  (PassCovers /\ WantedCovers)'
  BY <1>a, <1>b, <1>c, <1>8 DEF PollFails
<1>9. CASE EvictWakes
  BY <1>a, <1>b, <1>c, <1>9 DEF EvictWakes
<1>10. CASE Signal
  BY <1>a, <1>b, <1>c, <1>10 DEF Signal
<1>11. CASE Flip
  BY <1>a, <1>b, <1>c, <1>11 DEF Flip
<1>12. CASE StopBegins
  BY <1>a, <1>b, <1>c, <1>12 DEF StopBegins, Stopped, AllCancelled, Registered
<1>13. CASE StopWaits
  BY <1>a, <1>b, <1>c, <1>13 DEF StopWaits, Fault, Registered
<1>14. CASE CancelLoops
  BY <1>a, <1>b, <1>c, <1>14 DEF CancelLoops
<1> QED
  BY <1>1, <1>2, <1>3, <1>4, <1>5, <1>6, <1>7, <1>8,
     <1>9, <1>10, <1>11, <1>12, <1>13, <1>14 DEF Next

\* The inductive invariant of the registry holds throughout.
THEOREM RegistryInvariant == Spec => []Inv
<1>1. ASSUME Init
      PROVE  Inv
  <2>1. TypeOK
    <3>1. /\ moved \in BOOLEAN /\ signalOwed \in BOOLEAN
          /\ admitted \in BOOLEAN /\ catalogWake \in BOOLEAN
          /\ genPollWake \in BOOLEAN /\ evictOwed \in BOOLEAN
          /\ torn \in BOOLEAN /\ registered \in BOOLEAN
      BY <1>1, Zenon DEF Init
    <3>2. /\ exists \in [Backends -> SUBSET Keys]
          /\ catGen \in [Backends -> Nat]
          /\ coll \in [Keys -> Maybe(Backends)]
          /\ snapFrom \in [Keys -> Maybe(Backends)]
          /\ pokedFrom \in [Keys -> SUBSET Backends]
      BY <1>1 DEF Init, Maybe
    <3>3. /\ hookPc \in [Hooks -> {"idle", "compare", "clear", "wake",
                                   "evaluate"}]
          /\ hookSaw \in [Hooks -> Maybe(Idents)]
          /\ \A h \in Hooks : hookPc[h] # "compare"
      BY <1>1 DEF Init, Maybe
    <3>4. /\ ident \in Idents /\ flips \in Nat /\ faults \in Nat
          /\ pc = "read" /\ stopPc = "running" /\ lastIdent \in Maybe(Idents)
          /\ cur \in Maybe(Keys) /\ be \in Maybe(Backends)
      BY <1>1 DEF Init, Maybe
    <3>5. /\ members = {} /\ ended = {} /\ exiting = {} /\ wanted = {}
          /\ have = {} /\ todo = {} /\ pollKeys = {}
      BY <1>1 DEF Init
    <3>6. /\ pollPc \in [Dests -> {"wait", "send", "apply", "deliver"}]
          /\ pollFrom \in [Dests -> Maybe(Backends)]
          /\ pollCat \in [Dests -> Nat] /\ seenCat \in [Dests -> Nat]
          /\ \A d \in Dests : pollPc[d] # "apply"
      BY <1>1 DEF Init, Maybe
    <3> QED
      BY <3>1, <3>2, <3>3, <3>4, <3>5, <3>6 DEF TypeOK
  <2>2. pc = "read" /\ stopPc = "running"
    BY <1>1 DEF Init
  <2> QED
    BY <2>1, <2>2 DEF Inv, StoppedStaysEmpty, Stopped, ExitsStopped,
                      PassCovers, Ahead, WantedCovers
<1>2. Inv /\ [Next]_vars => Inv'
  BY TypeStep, StoppedStep, CoverStep DEF Inv
<1> QED
  BY <1>1, <1>2, PTL DEF Spec

\* Type correctness of the registry and the goroutines around it.
THEOREM RegistryTypeOK == Spec => []TypeOK
<1>1. Inv => TypeOK
  BY DEF Inv
<1> QED
  BY <1>1, RegistryInvariant, PTL

\* No collector is registered once Stop has latched the registry closed.
THEOREM RegistryStoppedStaysEmpty == Spec => []StoppedStaysEmpty
<1>1. Inv => StoppedStaysEmpty
  BY DEF Inv
<1> QED
  BY <1>1, RegistryInvariant, PTL

\* The refresh loop never waits while a wanted graph has no collector and no
\* further pass is owed.
THEOREM RegistryNoMemberMissed == Spec => []NoMemberMissed
<1>1. Inv => NoMemberMissed
  BY DEF Inv, PassCovers, Ahead, NoMemberMissed
<1> QED
  BY <1>1, RegistryInvariant, PTL
=============================================================================
