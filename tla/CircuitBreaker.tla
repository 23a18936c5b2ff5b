--------------------------- MODULE CircuitBreaker ---------------------------
(***************************************************************************)
(* The per-axis circuit breakers of the client pipeline                    *)
(* (internal/pipeline/circuit_breaker.go), the shared-cause escalation     *)
(* between the two axes (escalation.go), the operator's whole-pipeline     *)
(* pause and resume (pipeline_control.go) and the worker goroutines that   *)
(* wait at a breaker and record the outcome of every provider call into it *)
(* (summaryGroupOnce, embedGroupOnce and their error handlers).            *)
(*                                                                         *)
(* One critical section of the code is one step here.  The breaker's mutex *)
(* covers one method, so what a worker does between two methods            *)
(* interleaves with everybody else: the read of the resume channel and the *)
(* select on it, the wait at the gate and the call it lets through, the    *)
(* trip and the status() that escalateOnTrip reads later, that read and    *)
(* the pause() of the other axis, and the two halves of PausePipeline and  *)
(* of ResumePipeline.                                                      *)
(***************************************************************************)
EXTENDS Naturals, FiniteSets

CONSTANTS
  Workers,          \* worker goroutines of both axes
  AxisOf,           \* the axis each worker serves
  Operators,        \* concurrent callers of PausePipeline / ResumePipeline
  TripThreshold,    \* consecutive errored calls that latch an axis
  ClassesSeen,      \* the error classes the providers of this instance return
  SummaryProvider,  \* provider names; "" is an axis with none
  EmbedProvider,
  MaxLateCalls,     \* bound on calls begun after the Start context is cancelled
  MaxResumes        \* bound on calls of ResumePipeline

Axis == {"summary", "embed"}

Other(a) == IF a = "summary" THEN "embed" ELSE "summary"

ErrClass == {"other", "parse", "truncation", "authQuota",
             "timeoutTransport", "invalidRequest"}

ASSUME BreakerAssumption ==
  /\ AxisOf \in [Workers -> Axis]
  /\ IsFiniteSet(Workers)
  /\ TripThreshold \in Nat \ {0}
  /\ ClassesSeen \subseteq ErrClass
  /\ MaxLateCalls \in Nat
  /\ MaxResumes \in Nat

WorkersOf(a) == {w \in Workers : AxisOf[w] = a}

VARIABLES
  breaker,    \* breaker[a]: the circuitBreaker of axis a
  pc,         \* pc[w]: where worker w stands
  ch,         \* ch[w]: the resume channel w read in waitResumed, 0 before
  opc,        \* opc[o]: where operator o stands between the two breakers
  cancelled,  \* the context given to Pipeline.Start has been cancelled
  late,       \* calls begun after that
  resumes,    \* calls of ResumePipeline so far
  tripClass   \* history: while w stands at "tripped", the dominant class
              \* when its recordErr latched the axis

vars == <<breaker, pc, ch, opc, cancelled, late, resumes, tripClass>>
-----------------------------------------------------------------------------
(***************************************************************************)
(* The breaker, as operations on its record.  A resume channel is known by *)
(* the number of its make(): resumed is the current one, 0 for nil, made   *)
(* the last one created and closed the ones resume() has closed.           *)
(***************************************************************************)
FastTripThreshold == 2

IsDeterministicTerminal(class) ==
  class \in {"parse", "invalidRequest", "truncation"}

NoErrors == [c \in ErrClass |-> 0]

\* "" is a running axis; the other reasons say which path latched it.
Reason == {"", "errorRound", "fastTrip", "operator", "crossTrip"}

\* The zero-success window: consecutive errors, their per-class tally, and
\* the streak of one deterministic class at its end ("other": no streak).
emptyWindow ==
  [consecErrors |-> 0, classCounts |-> NoErrors, consecDeterministic |-> 0,
   lastDeterministicClass |-> "other"]

newCircuitBreaker ==
  [paused |-> FALSE, reason |-> "", window |-> emptyWindow,
   resumed |-> 0, made |-> 0, closed |-> {}]

\* Mutant: a success forgets to clear the per-class tally.
MutRecordOKKeepsTally(b) ==
  [b EXCEPT !.window = [emptyWindow EXCEPT !.classCounts = b.window.classCounts]]

recordOK(b) == [b EXCEPT !.window = emptyWindow]

\* Mutant: a second pause of a paused axis makes another channel.
MutTripLockedRemakes(b, reason) ==
  [b EXCEPT !.reason = reason, !.paused = TRUE,
            !.made = b.made + 1, !.resumed = b.made + 1]

\* A paused breaker only gets the new reason; a running one is latched and
\* given a channel, unless it still has one.
tripLocked(b, reason) ==
  LET makes == ~b.paused /\ b.resumed = 0
  IN  [paused |-> TRUE, reason |-> reason, window |-> b.window,
       made |-> IF makes THEN b.made + 1 ELSE b.made,
       resumed |-> IF makes THEN b.made + 1 ELSE b.resumed,
       closed |-> b.closed]

\* A deterministic class extends its own streak or restarts it at one; any
\* other class ends the streak.
advanceDeterministicStreak(win, class) ==
  IF ~IsDeterministicTerminal(class) THEN 0
  ELSE IF class = win.lastDeterministicClass THEN win.consecDeterministic + 1
  ELSE 1

countError(win, class) ==
  [consecErrors |-> win.consecErrors + 1,
   classCounts |-> [win.classCounts EXCEPT ![class] = @ + 1],
   consecDeterministic |-> advanceDeterministicStreak(win, class),
   lastDeterministicClass |->
     IF IsDeterministicTerminal(class) THEN class ELSE "other"]

\* Mutant: the window trips one error late.
MutTripReasonLate(win) ==
  IF win.consecDeterministic >= FastTripThreshold THEN "fastTrip"
  ELSE IF win.consecErrors > TripThreshold THEN "errorRound"
  ELSE ""

\* The reason a window latches a running axis with, "" when it does not.
tripReason(win) ==
  IF win.consecDeterministic >= FastTripThreshold THEN "fastTrip"
  ELSE IF win.consecErrors >= TripThreshold THEN "errorRound"
  ELSE ""

\* A call that finds the axis paused counts, and latches nothing.
recordErr(b, class) ==
  LET win     == countError(b.window, class)
      counted == [b EXCEPT !.window = win]
  IN  IF ~b.paused /\ tripReason(win) # ""
        THEN tripLocked(counted, tripReason(win)) ELSE counted

\* resume() empties the window even on a running axis; a paused one is
\* unlatched, its channel closed and forgotten.
resume(b) ==
  [paused |-> FALSE, reason |-> "", window |-> emptyWindow,
   resumed |-> IF b.paused THEN 0 ELSE b.resumed,
   made |-> b.made,
   closed |-> IF b.paused /\ b.resumed # 0 THEN b.closed \cup {b.resumed}
              ELSE b.closed]

classSeverityOrder == <<"parse", "truncation", "authQuota", "invalidRequest",
                        "timeoutTransport", "other">>

\* The i-th class of the severity order has the highest count of the window
\* and every more severe class has a lower one.
isDominant(b, i) ==
  LET n(j) == b.window.classCounts[classSeverityOrder[j]]
  IN  /\ n(i) > 0
      /\ \A j \in 1..6 : n(j) < n(i) \/ (n(j) = n(i) /\ i <= j)

\* "other" for an empty window.
dominantClass(b) ==
  IF \E i \in 1..6 : isDominant(b, i)
    THEN classSeverityOrder[CHOOSE i \in 1..6 : isDominant(b, i)]
    ELSE "other"

sharedProvider == SummaryProvider # "" /\ SummaryProvider = EmbedProvider
-----------------------------------------------------------------------------
WorkerState == {"idle", "gate", "parked", "passed", "calling", "tripped",
                "crossing", "exited"}

OperatorState == {"idle", "pausing", "resuming"}

Window == [consecErrors: Nat, classCounts: [ErrClass -> Nat],
           consecDeterministic: Nat, lastDeterministicClass: ErrClass]

Breaker == [paused: BOOLEAN, reason: Reason, window: Window,
            resumed: Nat, made: Nat, closed: SUBSET Nat]

\* Every variable has its type (the fields of circuitBreaker, the places of
\* the workers and of the operators).
TypeOK ==
  /\ breaker \in [Axis -> Breaker]
  /\ pc \in [Workers -> WorkerState]
  /\ ch \in [Workers -> Nat]
  /\ opc \in [Operators -> OperatorState]
  /\ cancelled \in BOOLEAN
  /\ late \in Nat
  /\ resumes \in Nat
  /\ tripClass \in [Workers -> ErrClass]

Init ==
  /\ breaker = [a \in Axis |-> newCircuitBreaker]
  /\ pc = [w \in Workers |-> "idle"]
  /\ ch = [w \in Workers |-> 0]
  /\ opc = [o \in Operators |-> "idle"]
  /\ cancelled = FALSE
  /\ late = 0
  /\ resumes = 0
  /\ tripClass = [w \in Workers |-> "other"]

Goto(w, from, to) == pc[w] = from /\ pc' = [pc EXCEPT ![w] = to]

Update(a, b) == breaker' = [breaker EXCEPT ![a] = b]
-----------------------------------------------------------------------------
(***************************************************************************)
(* A worker.  One round is one provider call: a stride of a lease, or one  *)
(* part of an oversize split.                                              *)
(***************************************************************************)

\* The next batch or stride.  Once the context is cancelled the stride loop
\* breaks, but the worker's select may still take a buffered batch.
TakeWork(w) ==
  /\ Goto(w, "idle", "gate")
  /\ cancelled => late < MaxLateCalls
  /\ late' = IF cancelled THEN late + 1 ELSE late
  /\ UNCHANGED <<breaker, ch, opc, cancelled, resumes, tripClass>>

\* Mutant: the gate does not look at the latch.
MutWaitResumedOpen(w) ==
  /\ Goto(w, "gate", "passed")
  /\ UNCHANGED <<breaker, ch, opc, cancelled, late, resumes, tripClass>>

\* waitResumed, under the lock: a running axis lets the worker through, of a
\* paused one it takes the channel to select on.
WaitResumed(w) ==
  LET b == breaker[AxisOf[w]]
  IN  /\ Goto(w, "gate", IF b.paused THEN "parked" ELSE "passed")
      /\ ch' = IF b.paused THEN [ch EXCEPT ![w] = b.resumed] ELSE ch
      /\ UNCHANGED <<breaker, opc, cancelled, late, resumes, tripClass>>

\* The select outside the lock finds its channel closed, and the loop looks
\* at the latch again. A nil channel is never ready.
WaitWoken(w) ==
  /\ ch[w] \in breaker[AxisOf[w]].closed
  /\ Goto(w, "parked", "gate")
  /\ ch' = [ch EXCEPT ![w] = 0]
  /\ UNCHANGED <<breaker, opc, cancelled, late, resumes, tripClass>>

\* Mutant: waitResumed waits for the resume even when the context is done.
MutWaitCancelledNeedsResume(w) ==
  /\ cancelled
  /\ ~breaker[AxisOf[w]].paused
  /\ Goto(w, "parked", "passed")
  /\ ch' = [ch EXCEPT ![w] = 0]
  /\ UNCHANGED <<breaker, opc, cancelled, late, resumes, tripClass>>

\* The ctx.Done arm of waitResumed: the worker goes on to its call.
WaitCancelled(w) ==
  /\ cancelled
  /\ Goto(w, "parked", "passed")
  /\ ch' = [ch EXCEPT ![w] = 0]
  /\ UNCHANGED <<breaker, opc, cancelled, late, resumes, tripClass>>

\* embedRPM.wait and backoff.wait have elapsed; the provider is called.
Invoke(w) ==
  /\ Goto(w, "passed", "calling")
  /\ UNCHANGED <<breaker, ch, opc, cancelled, late, resumes, tripClass>>

CallOK(w) ==
  /\ Goto(w, "calling", "idle")
  /\ Update(AxisOf[w], recordOK(breaker[AxisOf[w]]))
  /\ UNCHANGED <<ch, opc, cancelled, late, resumes, tripClass>>

\* An errored call, transient or terminal, of one class.
CallErr(w, class) ==
  LET a     == AxisOf[w]
      after == recordErr(breaker[a], class)
      trips == ~breaker[a].paused /\ after.paused
  IN  /\ Goto(w, "calling", IF trips THEN "tripped" ELSE "idle")
      /\ Update(a, after)
      /\ tripClass' = IF trips
                        THEN [tripClass EXCEPT ![w] = dominantClass(after)]
                        ELSE tripClass
      /\ UNCHANGED <<ch, opc, cancelled, late, resumes>>

\* A size refusal is split before the breaker sees it, and a panic unwinds
\* past the record sites into the batch's recover.
CallUnrecorded(w) ==
  /\ Goto(w, "calling", "idle")
  /\ UNCHANGED <<breaker, ch, opc, cancelled, late, resumes, tripClass>>

\* escalateOnTrip, first lock: status() of the axis that tripped.
EscalateRead(w) ==
  /\ Goto(w, "tripped",
          IF dominantClass(breaker[AxisOf[w]]) = "authQuota" /\ sharedProvider
            THEN "crossing" ELSE "idle")
  /\ tripClass' = [tripClass EXCEPT ![w] = "other"]
  /\ UNCHANGED <<breaker, ch, opc, cancelled, late, resumes>>

\* escalateOnTrip, second lock: pause() of the other axis.
EscalatePause(w) ==
  LET o == Other(AxisOf[w])
  IN  /\ Goto(w, "crossing", "idle")
      /\ Update(o, tripLocked(breaker[o], "crossTrip"))
      /\ UNCHANGED <<ch, opc, cancelled, late, resumes, tripClass>>

\* The ctx.Done arm of the worker's own select.
Exit(w) ==
  /\ cancelled
  /\ Goto(w, "idle", "exited")
  /\ UNCHANGED <<breaker, ch, opc, cancelled, late, resumes, tripClass>>
-----------------------------------------------------------------------------
(***************************************************************************)
(* Operators, and the cancellation of the Start context.                   *)
(***************************************************************************)

OpGoto(o, from, to) == opc[o] = from /\ opc' = [opc EXCEPT ![o] = to]

\* PausePipeline: the summary breaker, then the embed breaker.
PauseSummary(o) ==
  /\ OpGoto(o, "idle", "pausing")
  /\ Update("summary", tripLocked(breaker["summary"], "operator"))
  /\ UNCHANGED <<pc, ch, cancelled, late, resumes, tripClass>>

PauseEmbed(o) ==
  /\ OpGoto(o, "pausing", "idle")
  /\ Update("embed", tripLocked(breaker["embed"], "operator"))
  /\ UNCHANGED <<pc, ch, cancelled, late, resumes, tripClass>>

ResumeAxis(a) ==
  /\ Update(a, resume(breaker[a]))
  /\ UNCHANGED <<pc, ch, cancelled, late, tripClass>>

\* ResumePipeline: the summary breaker, then the embed breaker.
ResumeSummary(o) ==
  /\ resumes < MaxResumes
  /\ resumes' = resumes + 1
  /\ OpGoto(o, "idle", "resuming")
  /\ ResumeAxis("summary")

ResumeEmbed(o) ==
  /\ OpGoto(o, "resuming", "idle")
  /\ ResumeAxis("embed")
  /\ UNCHANGED resumes

Cancel ==
  /\ ~cancelled
  /\ cancelled' = TRUE
  /\ UNCHANGED <<breaker, pc, ch, opc, late, resumes, tripClass>>
-----------------------------------------------------------------------------
Worker(w) ==
  \/ TakeWork(w)
  \/ WaitResumed(w)
  \/ WaitWoken(w)
  \/ WaitCancelled(w)
  \/ Invoke(w)
  \/ CallOK(w)
  \/ \E class \in ClassesSeen : CallErr(w, class)
  \/ CallUnrecorded(w)
  \/ EscalateRead(w)
  \/ EscalatePause(w)
  \/ Exit(w)

Operator(o) ==
  \/ PauseSummary(o)
  \/ PauseEmbed(o)
  \/ ResumeSummary(o)
  \/ ResumeEmbed(o)

Next ==
  \/ \E w \in Workers : Worker(w)
  \/ \E o \in Operators : Operator(o)
  \/ Cancel

Spec == Init /\ [][Next]_vars

\* Goroutines are scheduled and provider calls return (every transport has a
\* deadline).  Nothing obliges an operator to begin an operation, nor the
\* context to be cancelled.  The two ctx.Done arms are fair on their own: a
\* select picks at random among its ready arms, so a cancelled context is not
\* passed over for ever in favour of batches or of resumes.
Fairness ==
  \A w \in Workers : /\ WF_vars(Worker(w))
                     /\ SF_vars(Exit(w))
                     /\ SF_vars(WaitCancelled(w))

FairSpec == Spec /\ Fairness
-----------------------------------------------------------------------------
(***************************************************************************)
(* Properties.                                                             *)
(***************************************************************************)

\* No lost wake-up. The channel a worker selects on was read under a lock it
\* no longer holds; however many pauses and resumes come in between, that
\* channel is closed, or it is the one the paused breaker holds and the next
\* resume() will close. Nobody waits on a channel the breaker has forgotten.
NoLostWakeup ==
  \A w \in Workers : pc[w] = "parked" =>
    LET b == breaker[AxisOf[w]]
    IN  ch[w] \in b.closed \/ (b.paused /\ ch[w] = b.resumed)

\* A running axis is always short of both trip conditions, whatever mix of
\* successes, resumes and late failures came before: no window is carried
\* over a resume, and no axis runs on past a threshold it has reached.
RunningBelowThresholds ==
  \A a \in Axis : ~breaker[a].paused =>
    /\ breaker[a].window.consecErrors < TripThreshold
    /\ breaker[a].window.consecDeterministic < FastTripThreshold

\* The sum of a per-class tally.
Total(counts) ==
  counts["other"] + counts["parse"] + counts["truncation"]
    + counts["authQuota"] + counts["timeoutTransport"]
    + counts["invalidRequest"]

\* The tally rendered in the auto-trip reason adds up to the window it
\* describes, and the deterministic streak lies inside it: autoTripReason's
\* "total == sum(classCounts) == consecErrors".
TallyMatchesWindow ==
  \A a \in Axis :
    LET win == breaker[a].window IN
      /\ win.consecErrors = Total(win.classCounts)
      /\ win.consecDeterministic = 0 <=> win.lastDeterministicClass = "other"
      /\ win.consecDeterministic > 0 =>
           /\ IsDeterministicTerminal(win.lastDeterministicClass)
           /\ win.consecDeterministic
                <= win.classCounts[win.lastDeterministicClass]

\* Workers of axis a that are past the gate and have not recorded yet.
PastGate(a) == {w \in WorkersOf(a) : pc[w] \in {"passed", "calling"}}

\* The latch bounds the spend of a storm: until shutdown, the errored calls
\* of one window exceed the threshold by less than the calls that were
\* already past the gate when the axis latched, one per worker.
StormOverrunBounded ==
  ~cancelled => \A a \in Axis :
    breaker[a].window.consecErrors + 1
      <= TripThreshold + Cardinality(WorkersOf(a))

\* Once the Start context is cancelled every worker exits, also one parked
\* at a latched breaker: the ctx.Done arm of waitResumed.
CancelDrainsWorkers ==
  cancelled ~> \A w \in Workers : pc[w] = "exited"
-----------------------------------------------------------------------------
(***************************************************************************)
(* Further claims of comments.  No recorded run checks them; the README    *)
(* names an instance that refutes each.                                    *)
(***************************************************************************)

\* Manual pause and resume act on the whole pipeline: with no operation in
\* progress, an operator's latch is on both axes or on neither.
OperatorLatchIsWhole ==
  (\A o \in Operators : opc[o] = "idle") =>
    (breaker["summary"].reason = "operator" <=>
       breaker["embed"].reason = "operator")

\* What escalateOnTrip claims: a worker whose recordErr latched its axis on a
\* dominant auth/quota class, with one provider serving both axes, goes on to
\* latch the other axis.
EscalationFollowsTrip ==
  [][\A w \in Workers :
       pc[w] = "tripped" /\ pc'[w] # "tripped"
         /\ tripClass[w] = "authQuota" /\ sharedProvider
       => pc'[w] = "crossing"]_vars
=============================================================================
