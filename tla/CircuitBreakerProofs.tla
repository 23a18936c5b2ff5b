------------------------ MODULE CircuitBreakerProofs ------------------------
(***************************************************************************)
(* Proofs about CircuitBreaker, for any set of workers on each axis, any   *)
(* set of concurrent operators, any trip threshold and any provider        *)
(* binding.                                                                *)
(***************************************************************************)
EXTENDS CircuitBreaker, FiniteSetTheorems, TLAPS

\* What TallyMatchesWindow says of one window.
WindowInv(win) ==
  /\ win.consecErrors = Total(win.classCounts)
  /\ win.consecDeterministic = 0 <=> win.lastDeterministicClass = "other"
  /\ win.consecDeterministic > 0 =>
       /\ IsDeterministicTerminal(win.lastDeterministicClass)
       /\ win.consecDeterministic <= win.classCounts[win.lastDeterministicClass]

\* A breaker holds a channel exactly while it is paused, and every channel it
\* ever made is that one or closed.
ChannelInv(b) ==
  /\ b.paused <=> b.resumed # 0
  /\ b.resumed <= b.made
  /\ \A c \in 1 .. b.made : c \in b.closed \/ c = b.resumed

\* What RunningBelowThresholds says of one breaker, with its channels.
BreakerInv(b) ==
  /\ ~b.paused => /\ b.window.consecErrors < TripThreshold
                  /\ b.window.consecDeterministic < FastTripThreshold
  /\ WindowInv(b.window)
  /\ ChannelInv(b)

\* A parked worker selects on a channel its breaker did make.
ParkedOnMade ==
  \A w \in Workers : pc[w] = "parked" => ch[w] \in 1 .. breaker[AxisOf[w]].made

Inv ==
  /\ TypeOK
  /\ \A a \in Axis : BreakerInv(breaker[a])
  /\ ParkedOnMade

\* The empty window satisfies the window's invariant.
LEMMA EmptyWindow ==
  /\ emptyWindow \in Window
  /\ WindowInv(emptyWindow)
  /\ emptyWindow.consecErrors = 0
  /\ emptyWindow.consecDeterministic = 0
  BY DEF emptyWindow, Window, WindowInv, NoErrors, ErrClass, Total,
         IsDeterministicTerminal

\* recordOK keeps the latch as it is; resume unlatches, and closes the channel.
LEMMA ClearedBreaker ==
  /\ newCircuitBreaker \in Breaker
  /\ BreakerInv(newCircuitBreaker)
  /\ \A b \in Breaker : BreakerInv(b) =>
       /\ recordOK(b) \in Breaker
       /\ BreakerInv(recordOK(b))
       /\ recordOK(b).paused = b.paused
       /\ recordOK(b).window.consecErrors = 0
       /\ recordOK(b).made = b.made
       /\ resume(b) \in Breaker
       /\ BreakerInv(resume(b))
       /\ ~resume(b).paused
       /\ resume(b).made = b.made
<1>1. newCircuitBreaker \in Breaker
  BY EmptyWindow DEF Breaker, newCircuitBreaker, Reason
<1>2. BreakerInv(newCircuitBreaker)
  BY EmptyWindow, BreakerAssumption
     DEF BreakerInv, ChannelInv, newCircuitBreaker, FastTripThreshold
<1>3. ASSUME NEW b \in Breaker, BreakerInv(b)
      PROVE  /\ recordOK(b) \in Breaker
             /\ BreakerInv(recordOK(b))
             /\ recordOK(b).paused = b.paused
             /\ recordOK(b).window.consecErrors = 0
             /\ recordOK(b).made = b.made
  <2>1. /\ recordOK(b) \in Breaker
        /\ recordOK(b).paused = b.paused
        /\ recordOK(b).window = emptyWindow
        /\ recordOK(b).resumed = b.resumed
        /\ recordOK(b).made = b.made
        /\ recordOK(b).closed = b.closed
    BY EmptyWindow DEF Breaker, recordOK
  <2>2. BreakerInv(recordOK(b))
    BY <1>3, <2>1, EmptyWindow, BreakerAssumption
       DEF BreakerInv, ChannelInv, FastTripThreshold
  <2> QED BY <2>1, <2>2, EmptyWindow
<1>4. ASSUME NEW b \in Breaker, BreakerInv(b)
      PROVE  /\ resume(b) \in Breaker
             /\ BreakerInv(resume(b))
             /\ ~resume(b).paused
             /\ resume(b).made = b.made
  <2>1. /\ resume(b) \in Breaker
        /\ resume(b).paused = FALSE
        /\ resume(b).window = emptyWindow
        /\ resume(b).resumed = IF b.paused THEN 0 ELSE b.resumed
        /\ resume(b).made = b.made
        /\ resume(b).closed = IF b.paused /\ b.resumed # 0
                                THEN b.closed \cup {b.resumed} ELSE b.closed
    BY EmptyWindow DEF Breaker, resume, Reason
  <2>2. ChannelInv(resume(b))
    BY <1>4, <2>1 DEF BreakerInv, ChannelInv, Breaker
  <2>3. BreakerInv(resume(b))
    BY <2>1, <2>2, EmptyWindow, BreakerAssumption DEF BreakerInv, FastTripThreshold
  <2> QED BY <2>1, <2>3
<1> QED BY <1>1, <1>2, <1>3, <1>4

\* Latching keeps the window. A running axis gets a channel nobody has seen;
\* a paused one keeps the channel its waiters select on.
LEMMA Latched ==
  ASSUME NEW b \in Breaker, ChannelInv(b), NEW r \in Reason
  PROVE  /\ tripLocked(b, r) \in Breaker
         /\ ChannelInv(tripLocked(b, r))
         /\ tripLocked(b, r).paused
         /\ tripLocked(b, r).window = b.window
         /\ tripLocked(b, r).made >= b.made
<1> DEFINE makes == ~b.paused /\ b.resumed = 0
           t == tripLocked(b, r)
<1>1. /\ t.paused = TRUE
      /\ t.window = b.window
      /\ t.made = IF makes THEN b.made + 1 ELSE b.made
      /\ t.resumed = IF makes THEN b.made + 1 ELSE b.resumed
      /\ t.closed = b.closed
      /\ t \in Breaker
  BY DEF Breaker, tripLocked
<1> HIDE DEF t
<1>2. b.made \in Nat /\ b.resumed \in Nat /\ b.paused \in BOOLEAN
  BY DEF Breaker
<1>3. ChannelInv(t)
  BY <1>1, <1>2 DEF ChannelInv
<1> QED BY <1>1, <1>2, <1>3 DEF t

\* What pause() leaves behind.
LEMMA TrippedBreaker ==
  ASSUME NEW b \in Breaker, BreakerInv(b), NEW r \in Reason
  PROVE  /\ tripLocked(b, r) \in Breaker
         /\ BreakerInv(tripLocked(b, r))
         /\ tripLocked(b, r).paused
         /\ tripLocked(b, r).window = b.window
         /\ tripLocked(b, r).made >= b.made
  BY Latched DEF BreakerInv

\* One errored call adds one to the window and to its class, and keeps the
\* streak inside the tally.
LEMMA CountedWindow ==
  ASSUME NEW win \in Window, WindowInv(win), NEW class \in ErrClass
  PROVE  /\ countError(win, class) \in Window
         /\ WindowInv(countError(win, class))
         /\ countError(win, class).consecErrors = win.consecErrors + 1
<1> DEFINE c == countError(win, class)
<1>1. advanceDeterministicStreak(win, class) \in Nat
  BY DEF advanceDeterministicStreak, Window
<1>2. /\ c \in Window
      /\ c.consecErrors = win.consecErrors + 1
      /\ c.classCounts = [win.classCounts EXCEPT ![class] = @ + 1]
      /\ c.consecDeterministic = advanceDeterministicStreak(win, class)
      /\ c.lastDeterministicClass =
           IF IsDeterministicTerminal(class) THEN class ELSE "other"
  BY <1>1 DEF countError, Window, ErrClass
<1> HIDE DEF c
<1>3. c.consecErrors = Total(c.classCounts)
  BY <1>2 DEF Total, WindowInv, Window, ErrClass
<1>4. CASE ~IsDeterministicTerminal(class)
  <2>1. c.consecDeterministic = 0 /\ c.lastDeterministicClass = "other"
    BY <1>2, <1>4 DEF advanceDeterministicStreak
  <2> QED BY <1>2, <1>3, <2>1 DEF WindowInv, c
<1>5. CASE IsDeterministicTerminal(class)
  <2>1. /\ class # "other"
        /\ c.lastDeterministicClass = class
        /\ c.classCounts[class] = win.classCounts[class] + 1
        /\ win.classCounts[class] \in Nat
        /\ win.consecDeterministic \in Nat
    BY <1>2, <1>5 DEF IsDeterministicTerminal, Window
  <2>2. CASE class = win.lastDeterministicClass
    <3>1. c.consecDeterministic = win.consecDeterministic + 1
      BY <1>2, <1>5, <2>2 DEF advanceDeterministicStreak
    <3>2. win.consecDeterministic <= win.classCounts[class]
      BY <2>1, <2>2 DEF WindowInv
    <3> QED BY <1>2, <1>3, <1>5, <2>1, <3>1, <3>2 DEF WindowInv, c
  <2>3. CASE class # win.lastDeterministicClass
    <3>1. c.consecDeterministic = 1
      BY <1>2, <1>5, <2>3 DEF advanceDeterministicStreak
    <3> QED BY <1>2, <1>3, <1>5, <2>1, <3>1 DEF WindowInv, c
  <2> QED BY <2>2, <2>3
<1> QED BY <1>4, <1>5

\* An errored call leaves the axis latched or still short of both thresholds.
LEMMA ErroredBreaker ==
  ASSUME NEW b \in Breaker, BreakerInv(b), NEW class \in ErrClass
  PROVE  /\ recordErr(b, class) \in Breaker
         /\ BreakerInv(recordErr(b, class))
         /\ b.paused => recordErr(b, class).paused
         /\ recordErr(b, class).window.consecErrors = b.window.consecErrors + 1
         /\ recordErr(b, class).made >= b.made
<1> DEFINE win == countError(b.window, class)
           counted == [b EXCEPT !.window = win]
<1>1. /\ win \in Window
      /\ WindowInv(win)
      /\ win.consecErrors = b.window.consecErrors + 1
  BY CountedWindow DEF Breaker, BreakerInv
<1> HIDE DEF win
<1>2. tripReason(win) \in Reason
  BY DEF tripReason, Reason
<1>3. tripReason(win) = "" => /\ win.consecErrors < TripThreshold
                              /\ win.consecDeterministic < FastTripThreshold
  BY <1>1, BreakerAssumption DEF tripReason, Window, FastTripThreshold
<1>4. /\ counted \in Breaker
      /\ counted.paused = b.paused
      /\ counted.window = win
      /\ counted.made = b.made
      /\ counted.resumed = b.resumed
      /\ counted.closed = b.closed
  BY <1>1 DEF Breaker
<1>5. ChannelInv(counted)
  BY <1>4 DEF BreakerInv, ChannelInv
<1>6. recordErr(b, class) = IF ~b.paused /\ tripReason(win) # ""
                              THEN tripLocked(counted, tripReason(win))
                              ELSE counted
  BY DEF recordErr, win
<1> HIDE DEF counted
<1>7. b.made \in Nat
  BY DEF Breaker
<1>8. CASE ~b.paused /\ tripReason(win) # ""
  <2>1. recordErr(b, class) = tripLocked(counted, tripReason(win))
    BY <1>6, <1>8
  <2>2. /\ tripLocked(counted, tripReason(win)) \in Breaker
        /\ ChannelInv(tripLocked(counted, tripReason(win)))
        /\ tripLocked(counted, tripReason(win)).paused
        /\ tripLocked(counted, tripReason(win)).window = win
        /\ tripLocked(counted, tripReason(win)).made >= b.made
    BY <1>2, <1>4, <1>5, Latched
  <2> QED BY <1>1, <2>1, <2>2 DEF BreakerInv
<1>9. CASE ~(~b.paused /\ tripReason(win) # "")
  <2>1. recordErr(b, class) = counted
    BY <1>6, <1>9
  <2>2. b.paused \/ tripReason(win) = ""
    BY <1>9
  <2>3. ~counted.paused => /\ win.consecErrors < TripThreshold
                           /\ win.consecDeterministic < FastTripThreshold
    BY <1>3, <1>4, <2>2
  <2>4. BreakerInv(counted)
    BY <1>1, <1>4, <1>5, <2>3 DEF BreakerInv
  <2>5. /\ b.paused => counted.paused
        /\ counted.window.consecErrors = b.window.consecErrors + 1
        /\ counted.made >= b.made
    BY <1>1, <1>4, <1>7
  <2> QED BY <1>4, <2>1, <2>4, <2>5
<1> QED BY <1>8, <1>9

\* The dominant class is one of the six.
LEMMA DominantClassType ==
  ASSUME NEW b PROVE dominantClass(b) \in ErrClass
<1> DEFINE i == CHOOSE k \in 1..6 : isDominant(b, k)
<1>1. CASE \E k \in 1..6 : isDominant(b, k)
  <2>1. i \in 1..6
    BY <1>1, Zenon
  <2>2. \A k \in 1..6 : classSeverityOrder[k] \in ErrClass
    <3> SUFFICES ASSUME NEW k \in 1..6 PROVE classSeverityOrder[k] \in ErrClass
      OBVIOUS
    <3>1. k = 1 \/ k = 2 \/ k = 3 \/ k = 4 \/ k = 5 \/ k = 6
      OBVIOUS
    <3> QED BY <3>1 DEF classSeverityOrder, ErrClass
  <2> QED BY <1>1, <2>1, <2>2 DEF dominantClass
<1>2. CASE ~\E k \in 1..6 : isDominant(b, k)
  BY <1>2 DEF dominantClass, ErrClass
<1> QED BY <1>1, <1>2

\* The inductive invariant: types, each breaker's own invariant with that of
\* its channels, and parked workers on channels that were made.
THEOREM BreakerInvariant == Spec => []Inv
<1>1. Init => Inv
  <2> SUFFICES ASSUME Init PROVE Inv
    OBVIOUS
  <2>1. \A a \in Axis : breaker[a] = newCircuitBreaker
    BY DEF Init
  <2>2. TypeOK
    <3>1. breaker \in [Axis -> Breaker]
      BY ClearedBreaker DEF Init
    <3> QED BY <3>1 DEF Init, TypeOK, WorkerState, OperatorState, ErrClass
  <2>3. ParkedOnMade
    BY DEF Init, ParkedOnMade
  <2> QED BY ClearedBreaker, <2>1, <2>2, <2>3 DEF Inv
<1>2. Inv /\ [Next]_vars => Inv'
  <2> SUFFICES ASSUME Inv, [Next]_vars PROVE Inv'
    OBVIOUS
  <2>0. /\ \A a \in Axis : breaker[a] \in Breaker /\ BreakerInv(breaker[a])
        /\ breaker \in [Axis -> Breaker]
        /\ AxisOf \in [Workers -> Axis]
        /\ {"summary", "embed"} = Axis
    BY BreakerAssumption DEF Inv, TypeOK, Axis
  <2> USE DEF WorkerState, OperatorState
  <2>1. ASSUME NEW w \in Workers, TakeWork(w) PROVE Inv'
    BY <2>1 DEF TakeWork, Goto, Inv, TypeOK, ParkedOnMade
  <2>2. ASSUME NEW w \in Workers, WaitResumed(w) PROVE Inv'
    <3>1. /\ breaker[AxisOf[w]].paused =>
               breaker[AxisOf[w]].resumed \in 1 .. breaker[AxisOf[w]].made
          /\ breaker[AxisOf[w]].resumed \in Nat
      BY <2>0 DEF BreakerInv, ChannelInv, Breaker
    <3> QED BY <2>2, <3>1 DEF WaitResumed, Goto, Inv, TypeOK, ParkedOnMade
  <2>21. ASSUME NEW w \in Workers, WaitWoken(w) PROVE Inv'
    BY <2>21 DEF WaitWoken, Goto, Inv, TypeOK, ParkedOnMade
  <2>3. ASSUME NEW w \in Workers, WaitCancelled(w) PROVE Inv'
    BY <2>3 DEF WaitCancelled, Goto, Inv, TypeOK, ParkedOnMade
  <2>4. ASSUME NEW w \in Workers, Invoke(w) PROVE Inv'
    BY <2>4 DEF Invoke, Goto, Inv, TypeOK, ParkedOnMade
  <2>5. ASSUME NEW w \in Workers, CallOK(w) PROVE Inv'
    <3> DEFINE a == AxisOf[w]
    <3>1. /\ recordOK(breaker[a]) \in Breaker
          /\ BreakerInv(recordOK(breaker[a]))
          /\ recordOK(breaker[a]).made = breaker[a].made
      BY <2>0, ClearedBreaker
    <3>2. TypeOK'
      BY <2>0, <2>5, <3>1 DEF CallOK, Goto, Update, Inv, TypeOK
    <3>3. \A x \in Axis : BreakerInv(breaker'[x])
      BY <2>0, <2>5, <3>1 DEF CallOK, Update
    <3>4. ParkedOnMade'
      BY <2>0, <2>5, <3>1 DEF CallOK, Goto, Update, Inv, TypeOK, ParkedOnMade
    <3> QED BY <3>2, <3>3, <3>4 DEF Inv
  <2>6. ASSUME NEW w \in Workers, NEW class \in ClassesSeen, CallErr(w, class)
        PROVE Inv'
    <3> DEFINE a == AxisOf[w]
               b == recordErr(breaker[a], class)
    <3>0. a \in Axis /\ class \in ErrClass
      BY <2>0, BreakerAssumption
    <3>1. /\ b \in Breaker
          /\ BreakerInv(b)
          /\ b.made >= breaker[a].made
          /\ b.made \in Nat /\ breaker[a].made \in Nat
      BY <2>0, <3>0, ErroredBreaker DEF Breaker
    <3>2. breaker' = [breaker EXCEPT ![a] = b]
      BY <2>6 DEF CallErr, Update
    <3>3. dominantClass(b) \in ErrClass
      BY DominantClassType
    <3>4. TypeOK'
      BY <2>0, <2>6, <3>0, <3>1, <3>2, <3>3
         DEF CallErr, Goto, Inv, TypeOK
    <3>5. \A x \in Axis : BreakerInv(breaker'[x])
      BY <2>0, <3>0, <3>1, <3>2
    <3>6. ParkedOnMade'
      BY <2>0, <2>6, <3>0, <3>1, <3>2
         DEF CallErr, Goto, Inv, TypeOK, ParkedOnMade
    <3> QED BY <3>4, <3>5, <3>6 DEF Inv
  <2>7. ASSUME NEW w \in Workers, CallUnrecorded(w) PROVE Inv'
    BY <2>7 DEF CallUnrecorded, Goto, Inv, TypeOK, ParkedOnMade
  <2>8. ASSUME NEW w \in Workers, EscalateRead(w) PROVE Inv'
    BY <2>8 DEF EscalateRead, Goto, Inv, TypeOK, ParkedOnMade, ErrClass
  <2>9. ASSUME NEW w \in Workers, EscalatePause(w) PROVE Inv'
    <3> DEFINE o == Other(AxisOf[w])
               b == tripLocked(breaker[o], "crossTrip")
    <3>0. o \in Axis
      BY <2>0 DEF Other, Axis
    <3>1. /\ b \in Breaker /\ BreakerInv(b)
          /\ b.made >= breaker[o].made
          /\ b.made \in Nat /\ breaker[o].made \in Nat
      BY <2>0, <3>0, TrippedBreaker DEF Reason, Breaker
    <3>2. breaker' = [breaker EXCEPT ![o] = b]
      BY <2>9 DEF EscalatePause, Update
    <3>3. TypeOK'
      BY <2>0, <2>9, <3>0, <3>1, <3>2
         DEF EscalatePause, Goto, Inv, TypeOK
    <3>4. \A x \in Axis : BreakerInv(breaker'[x])
      BY <2>0, <3>0, <3>1, <3>2
    <3>5. ParkedOnMade'
      BY <2>0, <2>9, <3>0, <3>1, <3>2
         DEF EscalatePause, Goto, Inv, TypeOK, ParkedOnMade
    <3> QED BY <3>3, <3>4, <3>5 DEF Inv
  <2>10. ASSUME NEW w \in Workers, Exit(w) PROVE Inv'
    BY <2>10 DEF Exit, Goto, Inv, TypeOK, ParkedOnMade
  <2>11. ASSUME NEW o \in Operators, NEW a \in Axis,
                Update(a, tripLocked(breaker[a], "operator")),
                pc' = pc, opc' \in [Operators -> OperatorState],
                UNCHANGED <<ch, cancelled, late, resumes, tripClass>>
         PROVE Inv'
    <3> DEFINE b == tripLocked(breaker[a], "operator")
    <3>1. /\ b \in Breaker /\ BreakerInv(b)
          /\ b.made >= breaker[a].made
          /\ b.made \in Nat /\ breaker[a].made \in Nat
      BY <2>0, TrippedBreaker DEF Reason, Breaker
    <3>2. breaker' = [breaker EXCEPT ![a] = b]
      BY <2>11 DEF Update
    <3>3. TypeOK'
      BY <2>0, <2>11, <3>1, <3>2 DEF Inv, TypeOK
    <3>4. \A x \in Axis : BreakerInv(breaker'[x])
      BY <2>0, <3>1, <3>2
    <3>5. ParkedOnMade'
      BY <2>0, <2>11, <3>1, <3>2 DEF Inv, TypeOK, ParkedOnMade
    <3> QED BY <3>3, <3>4, <3>5 DEF Inv
  <2>12. ASSUME NEW o \in Operators, NEW a \in Axis, ResumeAxis(a),
                opc' \in [Operators -> OperatorState], resumes' \in Nat
         PROVE Inv'
    <3> DEFINE b == resume(breaker[a])
    <3>1. b \in Breaker /\ BreakerInv(b) /\ b.made = breaker[a].made
      BY <2>0, ClearedBreaker
    <3>2. breaker' = [breaker EXCEPT ![a] = b]
      BY <2>12 DEF ResumeAxis, Update
    <3>3. TypeOK'
      BY <2>0, <2>12, <3>1, <3>2
         DEF ResumeAxis, Inv, TypeOK
    <3>4. \A x \in Axis : BreakerInv(breaker'[x])
      BY <2>0, <3>1, <3>2
    <3>5. ParkedOnMade'
      BY <2>0, <2>12, <3>1, <3>2
         DEF ResumeAxis, Inv, TypeOK, ParkedOnMade
    <3> QED BY <3>3, <3>4, <3>5 DEF Inv
  <2>13. ASSUME NEW o \in Operators, Operator(o) PROVE Inv'
    <3>1. opc' \in [Operators -> OperatorState]
      BY <2>13 DEF Operator, PauseSummary, PauseEmbed, ResumeSummary,
                   ResumeEmbed, OpGoto, Inv, TypeOK
    <3>6. resumes' \in Nat
      BY <2>13 DEF Operator, PauseSummary, PauseEmbed, ResumeSummary,
                   ResumeEmbed, Inv, TypeOK
    <3>2. CASE PauseSummary(o)
      BY <2>0, <2>11, <3>1, <3>2 DEF PauseSummary
    <3>3. CASE PauseEmbed(o)
      BY <2>0, <2>11, <3>1, <3>3 DEF PauseEmbed
    <3>4. CASE ResumeSummary(o)
      BY <2>0, <2>12, <3>1, <3>4, <3>6 DEF ResumeSummary
    <3>5. CASE ResumeEmbed(o)
      BY <2>0, <2>12, <3>1, <3>5, <3>6 DEF ResumeEmbed
    <3> QED BY <2>13, <3>2, <3>3, <3>4, <3>5 DEF Operator
  <2>14. CASE Cancel
    BY <2>14 DEF Cancel, Inv, TypeOK, ParkedOnMade
  <2>15. CASE UNCHANGED vars
    BY <2>15 DEF vars, Inv, TypeOK, ParkedOnMade
  <2>16. ASSUME NEW w \in Workers, Worker(w) PROVE Inv'
    BY <2>16, <2>1, <2>2, <2>21, <2>3, <2>4, <2>5, <2>6, <2>7, <2>8, <2>9, <2>10
       DEF Worker
  <2> QED BY <2>13, <2>14, <2>15, <2>16 DEF Next
<1> QED BY <1>1, <1>2, PTL DEF Spec

\* The variables of a breaker state machine keep their types.
THEOREM BreakerTypeOK == Spec => []TypeOK
<1>1. Inv => TypeOK
  BY DEF Inv
<1> QED BY <1>1, BreakerInvariant, PTL

\* However pauses and resumes fall between the read of the channel and the
\* select on it, a parked worker's channel is closed or will be closed by the
\* next resume(). It rests on what the breaker does with its channels: one per
\* pause, kept while paused, closed before it is forgotten.
THEOREM BreakerNoLostWakeup == Spec => []NoLostWakeup
<1>1. Inv => NoLostWakeup
  <2> SUFFICES ASSUME Inv, NEW w \in Workers, pc[w] = "parked"
               PROVE  \/ ch[w] \in breaker[AxisOf[w]].closed
                      \/ /\ breaker[AxisOf[w]].paused
                         /\ ch[w] = breaker[AxisOf[w]].resumed
    BY DEF NoLostWakeup
  <2>1. ch[w] \in 1 .. breaker[AxisOf[w]].made
    BY DEF Inv, ParkedOnMade
  <2>2. ChannelInv(breaker[AxisOf[w]])
    BY BreakerAssumption DEF Inv, BreakerInv
  <2> QED BY <2>1, <2>2 DEF ChannelInv
<1> QED BY <1>1, BreakerInvariant, PTL

\* A running axis is short of both trip thresholds.
THEOREM BreakerRunningBelowThresholds == Spec => []RunningBelowThresholds
<1>1. Inv => RunningBelowThresholds
  BY DEF Inv, BreakerInv, RunningBelowThresholds
<1> QED BY <1>1, BreakerInvariant, PTL

\* The per-class tally adds up to the zero-success window.
THEOREM BreakerTallyMatchesWindow == Spec => []TallyMatchesWindow
<1>1. Inv => TallyMatchesWindow
  BY DEF Inv, BreakerInv, WindowInv, TallyMatchesWindow
<1> QED BY <1>1, BreakerInvariant, PTL
-----------------------------------------------------------------------------
(***************************************************************************)
(* The bound on a storm.  StormOverrunBounded is not inductive: while an   *)
(* axis is latched, every worker past its gate may still add one error, so *)
(* the workers past the gate are counted in.                               *)
(***************************************************************************)
StormInv ==
  ~cancelled => \A a \in Axis : breaker[a].paused =>
    breaker[a].window.consecErrors + 1 + Cardinality(PastGate(a))
      <= TripThreshold + Cardinality(WorkersOf(a))

\* Both cardinalities are numbers, in any state.
LEMMA Cardinalities ==
  ASSUME NEW a \in Axis
  PROVE  /\ Cardinality(WorkersOf(a)) \in Nat
         /\ Cardinality(PastGate(a)) \in Nat
         /\ Cardinality(PastGate(a)) <= Cardinality(WorkersOf(a))
         /\ IsFiniteSet(PastGate(a))
<1>1. IsFiniteSet(WorkersOf(a))
  BY BreakerAssumption, FS_Subset DEF WorkersOf
<1>2. PastGate(a) \subseteq WorkersOf(a)
  BY DEF PastGate
<1>3. /\ IsFiniteSet(PastGate(a))
      /\ Cardinality(PastGate(a)) <= Cardinality(WorkersOf(a))
  BY <1>1, <1>2, FS_Subset
<1> QED BY <1>1, <1>3, FS_CardinalityType

\* A call that returns takes its worker out of the set past the gate.
LEMMA CallReturns ==
  ASSUME TypeOK, NEW w \in Workers, pc[w] = "calling",
         NEW to \in {"idle", "tripped"}, pc' = [pc EXCEPT ![w] = to]
  PROVE  /\ Cardinality(PastGate(AxisOf[w])')
               = Cardinality(PastGate(AxisOf[w])) - 1
         /\ PastGate(Other(AxisOf[w]))' = PastGate(Other(AxisOf[w]))
<1> DEFINE a == AxisOf[w]
<1>0. a \in Axis /\ Other(a) # a
  BY BreakerAssumption DEF Axis, Other
<1>1. w \in PastGate(a)
  BY DEF PastGate, WorkersOf
<1>2. PastGate(a)' = PastGate(a) \ {w}
  BY DEF PastGate, WorkersOf, TypeOK
<1>3. Cardinality(PastGate(a) \ {w}) = Cardinality(PastGate(a)) - 1
  BY <1>0, <1>1, Cardinalities, FS_RemoveElement
<1>4. PastGate(Other(a))' = PastGate(Other(a))
  BY <1>0 DEF PastGate, WorkersOf, TypeOK
<1> QED BY <1>0, <1>2, <1>3, <1>4, Cardinalities

\* Every other step of a worker leaves both sets as they are or fills the one
\* of a running axis.
LEMMA GateSteps ==
  ASSUME Inv, NEW w \in Workers, ~cancelled,
         \/ TakeWork(w) \/ WaitResumed(w) \/ WaitWoken(w)
         \/ WaitCancelled(w) \/ Invoke(w) \/ EscalateRead(w) \/ Exit(w)
  PROVE  /\ breaker' = breaker
         /\ \A a \in Axis : breaker[a].paused => PastGate(a)' = PastGate(a)
<1>1. breaker' = breaker
  BY DEF TakeWork, WaitResumed, WaitWoken, WaitCancelled, Invoke,
         EscalateRead, Exit
<1>2. ASSUME NEW a \in Axis, breaker[a].paused PROVE PastGate(a)' = PastGate(a)
  <2>1. \A v \in WorkersOf(a) : pc'[v] \in {"passed", "calling"} <=>
                                  pc[v] \in {"passed", "calling"}
    <3> SUFFICES ASSUME NEW v \in WorkersOf(a)
                 PROVE  pc'[v] \in {"passed", "calling"} <=>
                          pc[v] \in {"passed", "calling"}
      OBVIOUS
    <3>1. v \in Workers /\ AxisOf[v] = a
      BY DEF WorkersOf
    <3> QED
      BY <1>2, <3>1 DEF TakeWork, WaitResumed, WaitWoken, WaitCancelled,
           Invoke, EscalateRead, Exit, Goto, Inv, TypeOK
  <2> QED BY <2>1 DEF PastGate, WorkersOf
<1> QED BY <1>1, <1>2

\* A storm costs fewer calls beyond the trip threshold than the axis has
\* workers, until the Start context is cancelled.
THEOREM BreakerStormBounded == Spec => []StormOverrunBounded
<1>1. Init => StormInv
  <2>1. Init => \A a \in Axis : ~breaker[a].paused
    <3> SUFFICES ASSUME Init, NEW a \in Axis PROVE ~breaker[a].paused
      OBVIOUS
    <3>1. breaker[a] = newCircuitBreaker
      BY DEF Init
    <3>2. ~newCircuitBreaker.paused
      BY Zenon DEF newCircuitBreaker
    <3> QED BY <3>1, <3>2
  <2> QED BY <2>1 DEF StormInv
<1>2. Inv /\ StormInv /\ [Next]_vars => StormInv'
  <2> SUFFICES ASSUME Inv, StormInv, [Next]_vars, ~cancelled',
                      NEW a \in Axis, breaker'[a].paused
               PROVE  breaker'[a].window.consecErrors + 1
                        + Cardinality(PastGate(a)')
                        <= TripThreshold + Cardinality(WorkersOf(a))
    BY DEF StormInv, WorkersOf
  <2> DEFINE E == breaker[a].window.consecErrors
             G == Cardinality(PastGate(a))
             N == Cardinality(WorkersOf(a))
  <2>0. /\ ~cancelled
        /\ TypeOK
        /\ \A x \in Axis : breaker[x] \in Breaker /\ BreakerInv(breaker[x])
        /\ AxisOf \in [Workers -> Axis]
        /\ {"summary", "embed"} = Axis
    <3>1. cancelled' \in BOOLEAN /\ (cancelled => cancelled')
      BY DEF Next, Worker, Operator, vars, Inv, TypeOK, TakeWork, WaitResumed,
             WaitWoken, WaitCancelled, Invoke, CallOK, CallErr, CallUnrecorded,
             EscalateRead, EscalatePause, Exit, PauseSummary, PauseEmbed,
             ResumeSummary, ResumeEmbed, ResumeAxis, Cancel
    <3> QED BY <3>1, BreakerAssumption DEF Inv, TypeOK, Axis
  <2>1. /\ E \in Nat /\ G \in Nat /\ N \in Nat /\ G <= N
        /\ TripThreshold \in Nat /\ TripThreshold >= 1
    BY <2>0, Cardinalities, BreakerAssumption DEF Breaker, Window
  <2>2. breaker[a].paused => E + 1 + G <= TripThreshold + N
    BY <2>0 DEF StormInv
  <2>3. ~breaker[a].paused => E + 1 <= TripThreshold
    BY <2>0, <2>1 DEF BreakerInv
  <2> HIDE DEF E, G, N
  <2>4. E + 1 + G <= TripThreshold + N
    BY <2>1, <2>2, <2>3
  <2>5. ASSUME breaker'[a].window = breaker[a].window, PastGate(a)' = PastGate(a)
        PROVE  breaker'[a].window.consecErrors + 1 + Cardinality(PastGate(a)')
                 <= TripThreshold + N
    BY <2>4, <2>5 DEF E, G
  <2>6. ASSUME NEW w \in Workers,
               \/ TakeWork(w) \/ WaitResumed(w) \/ WaitWoken(w)
               \/ WaitCancelled(w) \/ Invoke(w) \/ EscalateRead(w) \/ Exit(w)
        PROVE  breaker'[a].window.consecErrors + 1 + Cardinality(PastGate(a)')
                 <= TripThreshold + N
    BY <2>0, <2>5, <2>6, GateSteps
  <2>7. ASSUME NEW w \in Workers, NEW to \in {"idle", "tripped"},
               pc[w] = "calling", pc' = [pc EXCEPT ![w] = to],
               NEW b \in Breaker, breaker' = [breaker EXCEPT ![AxisOf[w]] = b],
               b.window.consecErrors
                 <= breaker[AxisOf[w]].window.consecErrors + 1
        PROVE  breaker'[a].window.consecErrors + 1 + Cardinality(PastGate(a)')
                 <= TripThreshold + N
    <3>1. CASE a = AxisOf[w]
      <4>1. Cardinality(PastGate(a)') = G - 1
        BY <2>0, <2>7, <3>1, CallReturns DEF G
      <4>3. breaker'[a] = b
        BY <2>0, <2>7, <3>1 DEF TypeOK
      <4>4. b.window.consecErrors \in Nat
        BY DEF Breaker, Window
      <4>5. b.window.consecErrors <= E + 1
        BY <2>7, <3>1 DEF E
      <4> QED BY <2>1, <2>4, <4>1, <4>3, <4>4, <4>5
    <3>2. CASE a # AxisOf[w]
      <4>1. a = Other(AxisOf[w])
        BY <2>0, <3>2 DEF Other, Axis
      <4>2. PastGate(a)' = PastGate(a)
        BY <2>0, <2>7, <4>1, CallReturns
      <4>3. breaker'[a] = breaker[a]
        BY <2>7, <2>0, <3>2 DEF TypeOK
      <4> QED BY <2>5, <4>2, <4>3
    <3> QED BY <3>1, <3>2
  <2>8. ASSUME NEW w \in Workers, CallOK(w)
        PROVE  breaker'[a].window.consecErrors + 1 + Cardinality(PastGate(a)')
                 <= TripThreshold + N
    <3> DEFINE b == recordOK(breaker[AxisOf[w]])
    <3>1. b \in Breaker /\ b.window.consecErrors = 0
      BY <2>0, ClearedBreaker
    <3>2. breaker[AxisOf[w]].window.consecErrors \in Nat
      BY <2>0 DEF Breaker, Window
    <3>3. /\ pc[w] = "calling"
          /\ pc' = [pc EXCEPT ![w] = "idle"]
          /\ breaker' = [breaker EXCEPT ![AxisOf[w]] = b]
      BY <2>8 DEF CallOK, Goto, Update
    <3>4. b.window.consecErrors <= breaker[AxisOf[w]].window.consecErrors + 1
      BY <3>1, <3>2
    <3> HIDE DEF b
    <3> QED BY <2>7, <3>1, <3>3, <3>4
  <2>9. ASSUME NEW w \in Workers, NEW class \in ClassesSeen, CallErr(w, class)
        PROVE  breaker'[a].window.consecErrors + 1 + Cardinality(PastGate(a)')
                 <= TripThreshold + N
    <3> DEFINE b == recordErr(breaker[AxisOf[w]], class)
               t == IF ~breaker[AxisOf[w]].paused /\ b.paused
                      THEN "tripped" ELSE "idle"
    <3>1. b \in Breaker /\ b.window.consecErrors
                              = breaker[AxisOf[w]].window.consecErrors + 1
      BY <2>0, ErroredBreaker, BreakerAssumption
    <3>2. breaker[AxisOf[w]].window.consecErrors \in Nat
      BY <2>0 DEF Breaker, Window
    <3>3. /\ pc[w] = "calling"
          /\ pc' = [pc EXCEPT ![w] = t]
          /\ breaker' = [breaker EXCEPT ![AxisOf[w]] = b]
      BY <2>9 DEF CallErr, Goto, Update
    <3>4. t \in {"idle", "tripped"}
      OBVIOUS
    <3>5. b.window.consecErrors <= breaker[AxisOf[w]].window.consecErrors + 1
      BY <3>1, <3>2
    <3> HIDE DEF b, t
    <3> QED BY <2>7, <3>1, <3>3, <3>4, <3>5
  <2>10. ASSUME NEW w \in Workers, CallUnrecorded(w)
         PROVE  breaker'[a].window.consecErrors + 1 + Cardinality(PastGate(a)')
                  <= TripThreshold + N
    <3> DEFINE b == breaker[AxisOf[w]]
    <3>1. b \in Breaker /\ b.window.consecErrors \in Nat
      BY <2>0 DEF Breaker, Window
    <3>2. /\ pc[w] = "calling"
          /\ pc' = [pc EXCEPT ![w] = "idle"]
          /\ breaker' = [breaker EXCEPT ![AxisOf[w]] = b]
      BY <2>10, <2>0 DEF CallUnrecorded, Goto, TypeOK
    <3>3. b.window.consecErrors <= breaker[AxisOf[w]].window.consecErrors + 1
      BY <3>1
    <3> HIDE DEF b
    <3> QED BY <2>7, <3>1, <3>2, <3>3
  <2>11. ASSUME NEW w \in Workers, EscalatePause(w)
         PROVE  breaker'[a].window.consecErrors + 1 + Cardinality(PastGate(a)')
                  <= TripThreshold + N
    <3>1. breaker'[a].window = breaker[a].window
      BY <2>0, <2>11 DEF EscalatePause, Update, tripLocked, TypeOK, Other, Axis
    <3>2. PastGate(a)' = PastGate(a)
      BY <2>0, <2>11 DEF EscalatePause, Goto, PastGate, WorkersOf, TypeOK
    <3> QED BY <2>5, <3>1, <3>2
  <2>12. ASSUME NEW o \in Operators, Operator(o)
         PROVE  breaker'[a].window.consecErrors + 1 + Cardinality(PastGate(a)')
                  <= TripThreshold + N
    <3>1. CASE PauseSummary(o) \/ PauseEmbed(o)
      <4>0. \A x \in Axis : tripLocked(breaker[x], "operator").window
                               = breaker[x].window
        BY <2>0, TrippedBreaker DEF Reason
      <4>1. breaker'[a].window = breaker[a].window
        BY <2>0, <3>1, <4>0 DEF PauseSummary, PauseEmbed, Update, TypeOK
      <4>2. PastGate(a)' = PastGate(a)
        BY <3>1 DEF PauseSummary, PauseEmbed, PastGate, WorkersOf
      <4> QED BY <2>5, <4>1, <4>2
    <3>2. ASSUME NEW x \in Axis, ResumeAxis(x)
          PROVE  breaker'[a].window.consecErrors + 1 + Cardinality(PastGate(a)')
                   <= TripThreshold + N
      <4>0. ~resume(breaker[x]).paused
        BY <2>0, ClearedBreaker
      <4>1. a # x
        BY <2>0, <3>2, <4>0 DEF ResumeAxis, Update, TypeOK
      <4>2. breaker'[a].window = breaker[a].window
        BY <2>0, <3>2, <4>1 DEF ResumeAxis, Update, TypeOK
      <4>3. PastGate(a)' = PastGate(a)
        BY <2>0, <3>2 DEF ResumeAxis, PastGate, WorkersOf, TypeOK
      <4> QED BY <2>5, <4>2, <4>3
    <3> QED BY <2>0, <2>12, <3>1, <3>2 DEF Operator, ResumeSummary, ResumeEmbed
  <2>13. CASE Cancel
    BY <2>13 DEF Cancel
  <2>14. CASE UNCHANGED vars
    <3>1. PastGate(a)' = PastGate(a)
      BY <2>14 DEF vars, PastGate, WorkersOf
    <3>2. breaker'[a].window = breaker[a].window
      BY <2>14 DEF vars
    <3> QED BY <2>5, <3>1, <3>2 DEF N
  <2>15. ASSUME NEW w \in Workers, Worker(w)
         PROVE  breaker'[a].window.consecErrors + 1 + Cardinality(PastGate(a)')
                  <= TripThreshold + N
    BY <2>15, <2>6, <2>8, <2>9, <2>10, <2>11 DEF Worker
  <2> QED BY <2>12, <2>13, <2>14, <2>15 DEF Next, N
<1>3. Inv /\ StormInv => StormOverrunBounded
  <2> SUFFICES ASSUME Inv, StormInv, ~cancelled, NEW a \in Axis
               PROVE  breaker[a].window.consecErrors + 1
                        <= TripThreshold + Cardinality(WorkersOf(a))
    BY DEF StormOverrunBounded
  <2>1. /\ breaker[a].window.consecErrors \in Nat
        /\ ~breaker[a].paused =>
             breaker[a].window.consecErrors < TripThreshold
        /\ breaker[a].paused =>
             breaker[a].window.consecErrors + 1 + Cardinality(PastGate(a))
               <= TripThreshold + Cardinality(WorkersOf(a))
    BY DEF Inv, TypeOK, Breaker, Window, BreakerInv, StormInv
  <2> QED BY <2>1, Cardinalities, BreakerAssumption
<1> QED BY <1>1, <1>2, <1>3, BreakerInvariant, PTL DEF Spec
=============================================================================
