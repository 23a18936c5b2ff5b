------------------------ MODULE TranscriptSyncProofs ------------------------
(***************************************************************************)
(* The safety of TranscriptSync for every corpus, batch size and number of *)
(* failures.  What is inductive is where the object of a file is between   *)
(* the parse and the end of its batch (Flow), what the tracker says of it  *)
(* there (Accounted), who owns the temp objects (Owned) and, until two     *)
(* passes overlap, how it compares with what the server holds (Ahead).     *)
(***************************************************************************)
EXTENDS TranscriptSync, FiniteSetTheorems, TLAPS

Versions == 0 .. MaxWrites + 1

Rollups == [at : Versions, schema : 0 .. MaxSchema]

Objects == [stat : Versions, content : Versions]

Producing == {"none", "queued", "parse", "acquire", "send", "done"}

Verdicts == {"none", "pending", "failed", "confirmed", "completed"}

Phases == {"off", "run", "put", "confirm", "advance"}

PassStates ==
  [phase : Phases, batch : Seq(Files), rest : Seq(Files), slots : Int,
   mode : Modes, cancelled : BOOLEAN]

Shape ==
  /\ writes \in 0 .. MaxWrites
  /\ file \in [Files -> Versions]
  /\ \A f \in Files : file[f] <= writes + 1
  /\ idle \in [Files -> BOOLEAN]
  /\ overdue \in [Files -> BOOLEAN]
  /\ schema \in 1 .. MaxSchema
  /\ cursor \in [Files -> Rollups]
  /\ cloud \in [Files -> Rollups]
  /\ temps \subseteq Passes \X Files
  /\ pass \in [Passes -> PassStates]
  /\ prod \in [Passes -> [Files -> Producing]]
  /\ obj \in [Passes -> [Files -> Objects]]
  /\ tracker \in [Passes -> [Files -> Verdicts]]
  /\ streak \in 0 .. Escalation
  /\ failing \subseteq Files
  /\ leaked \in BOOLEAN

Once(s) == \A a, b \in DOMAIN s : s[a] = s[b] => a = b

Sending(p) == {f \in Files : prod[p][f] = "send"}

InBatch(p) == ToSet(pass[p].batch)

InRest(p) == ToSet(pass[p].rest)

\* An object is with one producer or once in the batch, and each of those that
\* are past the budget holds a slot.
Flow(p) ==
  /\ Once(pass[p].batch)
  /\ Once(pass[p].rest)
  /\ InRest(p) \subseteq InBatch(p)
  /\ \A f \in InBatch(p) : prod[p][f] = "done"
  /\ Len(pass[p].batch) <= BatchSize
  /\ pass[p].slots = Len(pass[p].batch) + Cardinality(Sending(p))
  /\ pass[p].phase = "off" =>
       /\ pass[p].batch = <<>> /\ ~ pass[p].cancelled
       /\ \A f \in Files : prod[p][f] = "none"

\* Where a pass that goes on accounts for a file it prepared.
Accounted(p) ==
  ~ pass[p].cancelled =>
    \A f \in Files :
      /\ tracker[p][f] = "pending" =>
           \/ prod[p][f] \in {"acquire", "send"}
           \/ f \in InBatch(p) /\ pass[p].phase \in {"run", "put"}
           \/ f \in InRest(p) /\ pass[p].phase = "confirm"
      /\ tracker[p][f] = "confirmed" =>
           \/ f \in InBatch(p) /\ pass[p].phase = "confirm"
           \/ f \in InRest(p) /\ pass[p].phase = "advance"

\* A temp object on disk belongs to a producer or to the batch.
Owned ==
  leaked \/ \A p \in Passes, f \in Files :
              <<p, f>> \in temps =>
                prod[p][f] \in {"acquire", "send"} \/ f \in InBatch(p)

\* The object of f that the pass has yet to submit.
Unsubmitted(p, f) ==
  \/ prod[p][f] \in {"acquire", "send"}
  \/ f \in InBatch(p) /\ pass[p].phase \in {"run", "put"}
  \/ f \in InRest(p) /\ pass[p].phase = "confirm"

\* Where the consumer has an object that is confirmed and not yet recorded.
Unrecorded(p, f) ==
  \/ f \in InBatch(p) \ InRest(p) /\ pass[p].phase = "confirm"
  \/ f \in InRest(p) /\ pass[p].phase = "advance"

\* The server holds nothing newer than the session.
Behind(f) == cloud[f].at <= file[f] /\ cloud[f].schema <= schema

\* The server holds nothing newer than an object that is not submitted, and has
\* every object that is confirmed.
AheadOf(p, f) ==
  /\ prod[p][f] = "parse" \/ Unsubmitted(p, f) =>
       cloud[f].at <= obj[p][f].stat /\ obj[p][f].stat <= file[f]
  /\ Unsubmitted(p, f) =>
       obj[p][f].stat <= obj[p][f].content /\ obj[p][f].content <= file[f]
  /\ tracker[p][f] = "confirmed" =>
       /\ Unrecorded(p, f)
       /\ obj[p][f].stat <= cloud[f].at
       /\ cloud[f].schema = schema

Ahead ==
  /\ \A f \in Files : Behind(f)
  /\ \A p \in Passes, f \in Files : AheadOf(p, f)


-----------------------------------------------------------------------------
(* Sequences of files. *)

\* The elements of a sequence, and how receiving and sending change them.
LEMMA Elements ==
  ASSUME NEW S, NEW s \in Seq(S)
  PROVE  /\ ToSet(s) \subseteq S
         /\ ToSet(<<>>) = {}
         /\ \A x : x \in ToSet(s) <=> \E k \in DOMAIN s : s[k] = x
         /\ \A e \in S : ToSet(Append(s, e)) = ToSet(s) \cup {e}
         /\ s # <<>> => /\ Head(s) \in ToSet(s)
                        /\ ToSet(s) = ToSet(Tail(s)) \cup {Head(s)}
<1>1. \A e \in S : ToSet(Append(s, e)) = ToSet(s) \cup {e}
  <2> SUFFICES ASSUME NEW e \in S
               PROVE  ToSet(Append(s, e)) = ToSet(s) \cup {e}
    OBVIOUS
  <2>1. Append(s, e)[Len(s) + 1] = e /\ Len(s) + 1 \in DOMAIN Append(s, e)
    OBVIOUS
  <2>2. \A k \in DOMAIN s : Append(s, e)[k] = s[k] /\ k \in DOMAIN Append(s, e)
    OBVIOUS
  <2>3. \A k \in DOMAIN Append(s, e) : k \in DOMAIN s \/ k = Len(s) + 1
    OBVIOUS
  <2> QED
    BY <2>1, <2>2, <2>3 DEF ToSet
<1>2. ASSUME s # <<>>
      PROVE  /\ Head(s) \in ToSet(s)
             /\ ToSet(s) = ToSet(Tail(s)) \cup {Head(s)}
  <2>1. Head(s) = s[1] /\ 1 \in DOMAIN s
    BY <1>2
  <2>2. \A k \in DOMAIN Tail(s) : Tail(s)[k] = s[k + 1] /\ k + 1 \in DOMAIN s
    BY <1>2
  <2>3. \A k \in DOMAIN s : k = 1 \/ (k - 1 \in DOMAIN Tail(s)
                                        /\ Tail(s)[k - 1] = s[k])
    BY <1>2
  <2>4. \A x \in ToSet(Tail(s)) : x \in ToSet(s)
    BY <2>2 DEF ToSet
  <2>5. \A x \in ToSet(s) : x \in ToSet(Tail(s)) \/ x = Head(s)
    BY <2>1, <2>3 DEF ToSet
  <2>6. Head(s) \in ToSet(s)
    BY <2>1, Zenon DEF ToSet
  <2> QED
    BY <2>4, <2>5, <2>6
<1>3. /\ ToSet(s) \subseteq S /\ ToSet(<<>>) = {}
      /\ \A x : x \in ToSet(s) <=> \E k \in DOMAIN s : s[k] = x
  BY DEF ToSet
<1> QED
  BY <1>1, <1>2, <1>3, Zenon

\* Appending a new element and dropping the first keep a sequence without
\* repetitions.
LEMMA OnceProp ==
  ASSUME NEW S, NEW s \in Seq(S), Once(s)
  PROVE  /\ Once(<<>>)
         /\ \A e \in S : e \notin ToSet(s) => Once(Append(s, e))
         /\ s # <<>> => Once(Tail(s)) /\ Head(s) \notin ToSet(Tail(s))
<1>1. ASSUME NEW e \in S, e \notin ToSet(s)
      PROVE  Once(Append(s, e))
  <2>1. \A k \in DOMAIN s : s[k] # e
    BY <1>1 DEF ToSet
  <2>2. \A k \in DOMAIN Append(s, e) :
          \/ k \in DOMAIN s /\ Append(s, e)[k] = s[k]
          \/ k = Len(s) + 1 /\ Append(s, e)[k] = e
    OBVIOUS
  <2> QED
    BY <2>1, <2>2 DEF Once
<1>2. ASSUME s # <<>>
      PROVE  Once(Tail(s)) /\ Head(s) \notin ToSet(Tail(s))
  <2>1. Head(s) = s[1] /\ 1 \in DOMAIN s
    BY <1>2
  <2>2. \A k \in DOMAIN Tail(s) : /\ Tail(s)[k] = s[k + 1]
                                  /\ k + 1 \in DOMAIN s
                                  /\ k \in Nat /\ k >= 1
    BY <1>2
  <2> QED
    BY <2>1, <2>2 DEF Once, ToSet
<1>3. Once(<<>>)
  BY DEF Once
<1> QED
  BY <1>1, <1>2, <1>3

\* A prefix and what is left of a sequence hold its elements, and hold none
\* twice if the sequence does not.
LEMMA Split ==
  ASSUME NEW S, NEW s \in Seq(S), NEW n \in 1 .. Len(s)
  PROVE  /\ SubSeq(s, n + 1, Len(s)) \in Seq(S)
         /\ ToSet(s) = ToSet(SubSeq(s, 1, n)) \cup ToSet(SubSeq(s, n + 1, Len(s)))
         /\ Once(s) =>
              /\ Once(SubSeq(s, n + 1, Len(s)))
              /\ ToSet(SubSeq(s, 1, n)) \cap ToSet(SubSeq(s, n + 1, Len(s))) = {}
<1> DEFINE a == SubSeq(s, 1, n)
           b == SubSeq(s, n + 1, Len(s))
<1>1. /\ DOMAIN a = 1 .. n
      /\ \A k \in 1 .. n : a[k] = s[k]
  OBVIOUS
<1>2. /\ b \in Seq(S)
      /\ DOMAIN b = 1 .. Len(s) - n
      /\ \A k \in 1 .. Len(s) - n : b[k] = s[n + k]
  OBVIOUS
<1>3. Len(s) \in Nat /\ DOMAIN s = 1 .. Len(s)
  OBVIOUS
<1> HIDE DEF a, b
<1>4. \A x : x \in ToSet(s) <=> x \in ToSet(a) \/ x \in ToSet(b)
  <2>1. \A k \in 1 .. n : k \in DOMAIN s
    BY <1>3
  <2>2. \A k \in 1 .. Len(s) - n : n + k \in DOMAIN s
    BY <1>3
  <2>3. \A k \in DOMAIN s : k \in 1 .. n \/ k - n \in 1 .. Len(s) - n
    BY <1>3
  <2>4. \A k \in DOMAIN s : k - n \in 1 .. Len(s) - n => b[k - n] = s[k]
    BY <1>2, <1>3
  <2>5. \A x \in ToSet(a) : x \in ToSet(s)
    BY <1>1, <2>1 DEF ToSet
  <2>6. \A x \in ToSet(b) : x \in ToSet(s)
    BY <1>2, <2>2 DEF ToSet
  <2>7. \A x \in ToSet(s) : x \in ToSet(a) \/ x \in ToSet(b)
    BY <1>1, <1>2, <2>3, <2>4 DEF ToSet
  <2> QED
    BY <2>5, <2>6, <2>7
<1>5. ASSUME Once(s)
      PROVE  Once(b) /\ ToSet(a) \cap ToSet(b) = {}
  <2>1. Once(b)
    <3> SUFFICES ASSUME NEW k \in DOMAIN b, NEW l \in DOMAIN b, b[k] = b[l]
                 PROVE  k = l
      BY DEF Once
    <3>1. /\ k \in Int /\ l \in Int /\ n \in Int
          /\ n + k \in DOMAIN s /\ n + l \in DOMAIN s
      BY <1>2, <1>3
    <3>2. s[n + k] = s[n + l]
      BY <1>2
    <3>3. n + k = n + l
      BY <1>5, <3>1, <3>2, Zenon DEF Once
    <3> QED
      BY <3>1, <3>3
  <2>2. ASSUME NEW x \in ToSet(a), x \in ToSet(b)
        PROVE  FALSE
    <3>1. PICK k \in 1 .. n : x = s[k]
      BY <1>1, <2>2 DEF ToSet
    <3>2. PICK l \in 1 .. Len(s) - n : x = s[n + l]
      BY <1>2, <2>2 DEF ToSet
    <3>3. /\ k \in DOMAIN s /\ n + l \in DOMAIN s
          /\ k # n + l
      BY <1>3
    <3> QED
      BY <1>5, <3>1, <3>2, <3>3, Zenon DEF Once
  <2> QED
    BY <2>1, <2>2
<1> QED
  BY <1>2, <1>4, <1>5 DEF a, b

\* sealAndPutBatch keeps exactly the elements at the positions it picked.
LEMMA PickedExact ==
  ASSUME NEW S, NEW s \in Seq(S), NEW D, D \subseteq DOMAIN s,
         NEW t \in Picked(s, D)
  PROVE  /\ t \in Seq(S)
         /\ ToSet(t) = {s[k] : k \in D}
         /\ Once(s) => Once(t)
<1> DEFINE n == Cardinality(D)
<1>1. IsFiniteSet(D) /\ n \in Nat
  <2>1. DOMAIN s = 1 .. Len(s) /\ Len(s) \in Nat
    OBVIOUS
  <2>2. IsFiniteSet(1 .. Len(s))
    BY <2>1, FS_Interval
  <2> QED
    BY <2>1, <2>2, FS_Subset, FS_CardinalityType
<1>2. PICK f \in [1 .. n -> D] :
        /\ \A a, b \in 1 .. n : a < b => f[a] < f[b]
        /\ t = [k \in 1 .. n |-> s[f[k]]]
  BY DEF Picked
<1>3. \A k \in 1 .. n : f[k] \in D /\ f[k] \in DOMAIN s /\ f[k] \in Nat
                          /\ t[k] = s[f[k]] /\ s[f[k]] \in S
  BY <1>2
<1>4. t \in Seq(S) /\ DOMAIN t = 1 .. n
  <2>1. t \in [1 .. n -> S]
    BY <1>2, <1>3
  <2> QED
    BY <1>1, <2>1
<1>5. \A a, b \in 1 .. n : f[a] = f[b] => a = b
  <2> SUFFICES ASSUME NEW a \in 1 .. n, NEW b \in 1 .. n, f[a] = f[b], a # b
               PROVE  FALSE
    OBVIOUS
  <2>1. a < b \/ b < a
    BY <1>1
  <2> QED
    BY <1>2, <1>3, <2>1
<1>6. \A x \in D : \E k \in 1 .. n : f[k] = x
  <2>1. f \in Injection(1 .. n, D)
    BY <1>2, <1>5 DEF Injection, IsInjective
  <2>2. Cardinality(1 .. n) = n
    BY <1>1, FS_Interval
  <2>3. f \in Surjection(1 .. n, D)
    BY <1>1, <2>1, <2>2, FS_Injection
  <2> QED
    BY <2>3 DEF Surjection
<1>7. ToSet(t) = {s[k] : k \in D}
  BY <1>3, <1>4, <1>6 DEF ToSet
<1>8. Once(s) => Once(t)
  BY <1>3, <1>4, <1>5 DEF Once
<1> QED
  BY <1>4, <1>7, <1>8

-----------------------------------------------------------------------------
(* What an action does to the state of a pass. *)

\* The consumer of p after a step; the others are untouched.
PassIs(p, phase, batch, rest, slots, mode, cancelled) ==
  /\ pass' \in [Passes -> PassStates]
  /\ pass'[p].phase = phase
  /\ pass'[p].batch = batch
  /\ pass'[p].rest = rest
  /\ pass'[p].slots = slots
  /\ pass'[p].mode = mode
  /\ pass'[p].cancelled = cancelled
  /\ \A q \in Passes : q # p => pass'[q] = pass[q]

\* Only the entry of pass p and file f of a table changes.
OnlyAt(before, after, p, f) ==
  /\ \A q \in Passes : q # p => after[q] = before[q]
  /\ \A g \in Files : g # f => after[p][g] = before[p][g]

\* Only the entries of pass p change.
OnlyOf(before, after, p) ==
  \A q \in Passes : q # p => after[q] = before[q]

\* The fields of a pass.
LEMMA PassFields ==
  ASSUME NEW p \in Passes, pass \in [Passes -> PassStates]
  PROVE  /\ pass[p].phase \in Phases
         /\ pass[p].batch \in Seq(Files)
         /\ pass[p].rest \in Seq(Files)
         /\ pass[p].slots \in Int
         /\ pass[p].mode \in Modes
         /\ pass[p].cancelled \in BOOLEAN
BY DEF PassStates

\* The ways in which actions change a pass.
LEMMA PassMoves ==
  ASSUME NEW p \in Passes, pass \in [Passes -> PassStates]
  PROVE  LET c == pass[p]
         IN  /\ \A ph \in Phases : Step(p, ph) =>
                  PassIs(p, ph, c.batch, c.rest, c.slots, c.mode, c.cancelled)
             /\ pass' = [pass EXCEPT ![p] = NoPass] =>
                  PassIs(p, "off", <<>>, <<>>, 0, "daemon", FALSE)
             /\ \A m \in Modes :
                  pass' = [pass EXCEPT ![p] =
                             [NoPass EXCEPT !.phase = "run", !.mode = m]] =>
                    PassIs(p, "run", <<>>, <<>>, 0, m, FALSE)
             /\ \A n \in Int : pass' = [pass EXCEPT ![p].slots = n] =>
                  PassIs(p, c.phase, c.batch, c.rest, n, c.mode, c.cancelled)
             /\ \A b \in Seq(Files) : pass' = [pass EXCEPT ![p].batch = b] =>
                  PassIs(p, c.phase, b, c.rest, c.slots, c.mode, c.cancelled)
             /\ \A r \in Seq(Files) : pass' = [pass EXCEPT ![p].rest = r] =>
                  PassIs(p, c.phase, c.batch, r, c.slots, c.mode, c.cancelled)
             /\ pass' = [pass EXCEPT ![p].cancelled = TRUE] =>
                  PassIs(p, c.phase, c.batch, c.rest, c.slots, c.mode, TRUE)
             /\ \A r \in Seq(Files), ph \in Phases :
                  pass' = [pass EXCEPT ![p].rest = r, ![p].phase = ph] =>
                    PassIs(p, ph, c.batch, r, c.slots, c.mode, c.cancelled)
             /\ Release(p) =>
                  PassIs(p, "run", <<>>, <<>>, c.slots - Len(c.batch), c.mode,
                         c.cancelled)
<1> DEFINE c == pass[p]
<1>1. /\ <<>> \in Seq(Files) /\ "daemon" \in Modes
      /\ "off" \in Phases /\ "run" \in Phases
      /\ Len(c.batch) \in Int
  BY DEF Modes, Phases, PassStates
<1>2. ASSUME NEW ph \in Phases, Step(p, ph)
      PROVE  PassIs(p, ph, c.batch, c.rest, c.slots, c.mode, c.cancelled)
  BY <1>1, <1>2 DEF Step, PassIs, PassStates
<1>3. ASSUME pass' = [pass EXCEPT ![p] = NoPass]
      PROVE  PassIs(p, "off", <<>>, <<>>, 0, "daemon", FALSE)
  BY <1>1, <1>3 DEF NoPass, PassIs, PassStates
<1>4. ASSUME NEW m \in Modes,
             pass' = [pass EXCEPT ![p] =
                        [NoPass EXCEPT !.phase = "run", !.mode = m]]
      PROVE  PassIs(p, "run", <<>>, <<>>, 0, m, FALSE)
  <2>1. /\ NoPass \in PassStates
        /\ NoPass.batch = <<>> /\ NoPass.rest = <<>> /\ NoPass.slots = 0
        /\ NoPass.cancelled = FALSE
    BY <1>1 DEF NoPass, PassStates
  <2> DEFINE d == [NoPass EXCEPT !.phase = "run", !.mode = m]
  <2>2. /\ d \in PassStates /\ d.phase = "run" /\ d.mode = m
        /\ d.batch = NoPass.batch /\ d.rest = NoPass.rest
        /\ d.slots = NoPass.slots /\ d.cancelled = NoPass.cancelled
    BY <1>1, <2>1 DEF PassStates
  <2>3. pass' = [pass EXCEPT ![p] = d]
    BY <1>4
  <2> HIDE DEF d
  <2>4. /\ pass' \in [Passes -> PassStates] /\ pass'[p] = d
        /\ \A q \in Passes : q # p => pass'[q] = pass[q]
    BY <2>2, <2>3
  <2> QED
    BY <2>1, <2>2, <2>4 DEF PassIs
<1>5. ASSUME NEW n \in Int, pass' = [pass EXCEPT ![p].slots = n]
      PROVE  PassIs(p, c.phase, c.batch, c.rest, n, c.mode, c.cancelled)
  BY <1>1, <1>5 DEF PassIs, PassStates
<1>6. ASSUME NEW b \in Seq(Files), pass' = [pass EXCEPT ![p].batch = b]
      PROVE  PassIs(p, c.phase, b, c.rest, c.slots, c.mode, c.cancelled)
  BY <1>1, <1>6 DEF PassIs, PassStates
<1>7. ASSUME NEW r \in Seq(Files), pass' = [pass EXCEPT ![p].rest = r]
      PROVE  PassIs(p, c.phase, c.batch, r, c.slots, c.mode, c.cancelled)
  BY <1>1, <1>7 DEF PassIs, PassStates
<1>8. ASSUME pass' = [pass EXCEPT ![p].cancelled = TRUE]
      PROVE  PassIs(p, c.phase, c.batch, c.rest, c.slots, c.mode, TRUE)
  BY <1>1, <1>8 DEF PassIs, PassStates
<1>9. ASSUME NEW r \in Seq(Files), NEW ph \in Phases,
             pass' = [pass EXCEPT ![p].rest = r, ![p].phase = ph]
      PROVE  PassIs(p, ph, c.batch, r, c.slots, c.mode, c.cancelled)
  BY <1>1, <1>9 DEF PassIs, PassStates
<1>10. ASSUME Release(p)
      PROVE  PassIs(p, "run", <<>>, <<>>, c.slots - Len(c.batch), c.mode,
                    c.cancelled)
  <2> DEFINE d == [c EXCEPT !.phase = "run", !.batch = <<>>, !.rest = <<>>,
                            !.slots = c.slots - Len(c.batch)]
  <2>1. c \in PassStates /\ c.slots - Len(c.batch) \in Int
    BY <1>1 DEF PassStates
  <2>2. pass' = [pass EXCEPT ![p] = d]
    BY <1>10 DEF Release
  <2>3. /\ d \in PassStates /\ d.phase = "run" /\ d.mode = c.mode
        /\ d.batch = <<>> /\ d.rest = <<>>
        /\ d.slots = c.slots - Len(c.batch) /\ d.cancelled = c.cancelled
    BY <1>1, <2>1 DEF PassStates
  <2> HIDE DEF d
  <2>4. /\ pass' \in [Passes -> PassStates] /\ pass'[p] = d
        /\ \A q \in Passes : q # p => pass'[q] = pass[q]
    BY <2>2, <2>3
  <2> QED
    BY <2>3, <2>4 DEF PassIs
<1> QED
  BY <1>2, <1>3, <1>4, <1>5, <1>6, <1>7, <1>8, <1>9, <1>10

\* The version at the Stat and the one that was parsed are noted in the object
\* of f.
LEMMA SetObject ==
  ASSUME NEW p \in Passes, NEW f \in Files, NEW v \in Versions,
         obj \in [Passes -> [Files -> Objects]]
  PROVE  /\ obj' = [obj EXCEPT ![p][f].stat = v] =>
              /\ obj' \in [Passes -> [Files -> Objects]]
              /\ obj'[p][f].stat = v
              /\ OnlyAt(obj, obj', p, f)
         /\ obj' = [obj EXCEPT ![p][f].content = v] =>
              /\ obj' \in [Passes -> [Files -> Objects]]
              /\ obj'[p][f].stat = obj[p][f].stat
              /\ obj'[p][f].content = v
              /\ OnlyAt(obj, obj', p, f)
<1>1. obj[p][f] \in Objects
  OBVIOUS
<1>2. ASSUME obj' = [obj EXCEPT ![p][f].stat = v]
      PROVE  /\ obj' \in [Passes -> [Files -> Objects]]
             /\ obj'[p][f].stat = v
             /\ OnlyAt(obj, obj', p, f)
  <2> DEFINE d == [obj[p][f] EXCEPT !.stat = v]
  <2>1. d \in Objects /\ d.stat = v
    BY <1>1 DEF Objects
  <2>2. obj' = [obj EXCEPT ![p][f] = d]
    BY <1>2
  <2> HIDE DEF d
  <2>3. /\ obj' \in [Passes -> [Files -> Objects]]
        /\ obj'[p][f] = d
        /\ OnlyAt(obj, obj', p, f)
    BY <2>1, <2>2 DEF OnlyAt
  <2> QED
    BY <2>1, <2>3
<1>3. ASSUME obj' = [obj EXCEPT ![p][f].content = v]
      PROVE  /\ obj' \in [Passes -> [Files -> Objects]]
             /\ obj'[p][f].stat = obj[p][f].stat
             /\ obj'[p][f].content = v
             /\ OnlyAt(obj, obj', p, f)
  <2> DEFINE d == [obj[p][f] EXCEPT !.content = v]
  <2>1. d \in Objects /\ d.content = v /\ d.stat = obj[p][f].stat
    BY <1>1 DEF Objects
  <2>2. obj' = [obj EXCEPT ![p][f] = d]
    BY <1>3
  <2> HIDE DEF d
  <2>3. /\ obj' \in [Passes -> [Files -> Objects]]
        /\ obj'[p][f] = d
        /\ OnlyAt(obj, obj', p, f)
    BY <2>1, <2>2 DEF OnlyAt
  <2> QED
    BY <2>1, <2>3
<1> QED
  BY <1>2, <1>3

\* The constants.
LEMMA Constants ==
  /\ IsFiniteSet(Files) /\ BatchSize \in Nat \ {0} /\ MaxWrites \in Nat
  /\ Escalation \in Nat \ {0} /\ MaxSchema \in Nat \ {0}
  /\ 0 \in Versions /\ 1 \in Versions
  /\ Nothing \in Rollups
  /\ NoObject \in Objects
<1>1. /\ IsFiniteSet(Files) /\ BatchSize \in Nat \ {0} /\ MaxWrites \in Nat
      /\ Escalation \in Nat \ {0} /\ MaxSchema \in Nat \ {0}
  BY TranscriptAssumption
<1>2. 0 \in Versions /\ 1 \in Versions
  BY <1>1 DEF Versions
<1>3. 0 \in 0 .. MaxSchema
  BY <1>1
<1> QED
  BY <1>1, <1>2, <1>3 DEF Nothing, NoObject, Objects, Rollups

\* The smaller of two numbers.
LEMMA MinOfTwo ==
  ASSUME NEW a \in Int, NEW b \in Int
  PROVE  Min({a, b}) \in {a, b} /\ Min({a, b}) <= a /\ Min({a, b}) <= b
<1>1. \E x \in {a, b} : \A y \in {a, b} : x <= y
  <2>1. CASE a <= b
    BY <2>1
  <2>2. CASE b <= a
    BY <2>2
  <2> QED
    BY <2>1, <2>2
<1> DEFINE Least(x) == x \in {a, b} /\ \A y \in {a, b} : x <= y
<1>2. \E x : Least(x)
  BY <1>1
<1>3. Min({a, b}) = CHOOSE x : Least(x)
  BY Zenon DEF Min
<1>4. Least(CHOOSE x : Least(x))
  BY <1>2, Zenon
<1> QED
  BY <1>3, <1>4

\* The health record of a pass counts failures up to the escalation.
LEMMA RecordShape ==
  ASSUME streak \in 0 .. Escalation, NEW errored, NEW bad \in SUBSET Files, NEW good,
         Record(errored, bad, good)
  PROVE  streak' \in 0 .. Escalation /\ failing' \subseteq Files
<1>1. streak + 1 \in Int /\ Escalation \in Int /\ 0 <= streak
  BY Constants
<1> DEFINE m == Min({streak + 1, Escalation})
<1>2. m \in {streak + 1, Escalation} /\ m <= Escalation
  BY <1>1, MinOfTwo
<1>3. streak' = m \/ streak' = 0
  BY DEF Record
<1> HIDE DEF m
<1> QED
  BY <1>1, <1>2, <1>3, Constants DEF Record

\* The outcomes of a set of files.
LEMMA OutcomesOf ==
  ASSUME NEW p \in Passes, NEW S, NEW o \in Verdicts,
         tracker \in [Passes -> [Files -> Verdicts]]
  PROVE  /\ Outcomes(p, S, o) \in [Passes -> [Files -> Verdicts]]
         /\ \A f \in Files : Outcomes(p, S, o)[p][f] =
                               IF f \in S THEN o ELSE tracker[p][f]
         /\ OnlyOf(tracker, Outcomes(p, S, o), p)
BY DEF Outcomes, OnlyOf

\* The ways in which actions change the tables of a pass.
LEMMA TableMoves ==
  ASSUME Shape, NEW p \in Passes, NEW f \in Files
  PROVE  /\ \A s \in Producing : Produce(p, f, s) =>
              /\ prod' \in [Passes -> [Files -> Producing]]
              /\ prod'[p][f] = s
              /\ OnlyAt(prod, prod', p, f)
         /\ \A o \in Verdicts : tracker' = [tracker EXCEPT ![p][f] = o] =>
              /\ tracker' \in [Passes -> [Files -> Verdicts]]
              /\ tracker'[p][f] = o
              /\ OnlyAt(tracker, tracker', p, f)
         /\ obj' = [obj EXCEPT ![p][f] = NoObject] =>
              /\ obj' \in [Passes -> [Files -> Objects]]
              /\ OnlyAt(obj, obj', p, f)
<1>1. /\ prod \in [Passes -> [Files -> Producing]]
      /\ tracker \in [Passes -> [Files -> Verdicts]]
      /\ obj \in [Passes -> [Files -> Objects]]
  BY DEF Shape
<1>2. NoObject \in Objects
  BY Constants
<1>3. ASSUME NEW s \in Producing, Produce(p, f, s)
      PROVE  /\ prod' \in [Passes -> [Files -> Producing]]
             /\ prod'[p][f] = s
             /\ OnlyAt(prod, prod', p, f)
  BY <1>1, <1>3 DEF OnlyAt, Produce
<1>4. ASSUME NEW o \in Verdicts, tracker' = [tracker EXCEPT ![p][f] = o]
      PROVE  /\ tracker' \in [Passes -> [Files -> Verdicts]]
             /\ tracker'[p][f] = o
             /\ OnlyAt(tracker, tracker', p, f)
  BY <1>1, <1>4 DEF OnlyAt
<1>5. ASSUME obj' = [obj EXCEPT ![p][f] = NoObject]
      PROVE  /\ obj' \in [Passes -> [Files -> Objects]]
             /\ OnlyAt(obj, obj', p, f)
  BY <1>1, <1>2, <1>5 DEF OnlyAt
<1> QED
  BY <1>3, <1>4, <1>5

\* The release of a batch touches only the objects of the batch.
LEMMA ReleaseMoves ==
  ASSUME Shape, NEW p \in Passes, Release(p)
  PROVE  /\ obj' \in [Passes -> [Files -> Objects]]
         /\ OnlyOf(obj, obj', p)
         /\ \A f \in Files : f \notin InBatch(p) => obj'[p][f] = obj[p][f]
         /\ \A q \in Passes, f \in Files :
              <<q, f>> \in temps' <=>
                <<q, f>> \in temps /\ ~ (q = p /\ f \in InBatch(p))
         /\ temps' \subseteq Passes \X Files
<1>1. obj \in [Passes -> [Files -> Objects]] /\ temps \subseteq Passes \X Files
  BY DEF Shape
<1>2. NoObject \in Objects
  BY Constants
<1>3. obj' = [obj EXCEPT ![p] = [f \in Files |->
                IF f \in InBatch(p) THEN NoObject ELSE obj[p][f]]]
  BY DEF Release, InBatch
<1>4. temps' = temps \ {<<p, f>> : f \in InBatch(p)}
  BY DEF Release, InBatch
<1> HIDE DEF InBatch
<1>5. /\ obj' \in [Passes -> [Files -> Objects]]
      /\ OnlyOf(obj, obj', p)
      /\ \A f \in Files : f \notin InBatch(p) => obj'[p][f] = obj[p][f]
  BY <1>1, <1>2, <1>3 DEF OnlyOf
<1> QED
  BY <1>1, <1>4, <1>5

\* The end of a pass, and its beginning.
LEMMA ForgetMoves ==
  ASSUME Shape, NEW p \in Passes, Forget(p)
  PROVE  /\ PassIs(p, "off", <<>>, <<>>, 0, "daemon", FALSE)
         /\ prod' \in [Passes -> [Files -> Producing]]
         /\ \A f \in Files : prod'[p][f] = "none"
         /\ OnlyOf(prod, prod', p)
         /\ obj' \in [Passes -> [Files -> Objects]]
         /\ OnlyOf(obj, obj', p)
         /\ tracker' \in [Passes -> [Files -> Verdicts]]
         /\ \A f \in Files : tracker'[p][f] = "none"
         /\ OnlyOf(tracker, tracker', p)
<1>1. /\ prod \in [Passes -> [Files -> Producing]]
      /\ tracker \in [Passes -> [Files -> Verdicts]]
      /\ obj \in [Passes -> [Files -> Objects]]
      /\ pass \in [Passes -> PassStates]
  BY DEF Shape
<1>2. NoObject \in Objects /\ "none" \in Producing /\ "none" \in Verdicts
  BY Constants DEF Producing, Verdicts
<1>3. PassIs(p, "off", <<>>, <<>>, 0, "daemon", FALSE)
  BY <1>1, PassMoves DEF Forget
<1>4. /\ prod' \in [Passes -> [Files -> Producing]]
      /\ \A f \in Files : prod'[p][f] = "none"
      /\ OnlyOf(prod, prod', p)
  BY <1>1, <1>2 DEF Forget, OnlyOf
<1>5. obj' \in [Passes -> [Files -> Objects]] /\ OnlyOf(obj, obj', p)
  BY <1>1, <1>2 DEF Forget, OnlyOf
<1>6. /\ tracker' \in [Passes -> [Files -> Verdicts]]
      /\ \A f \in Files : tracker'[p][f] = "none"
      /\ OnlyOf(tracker, tracker', p)
  BY <1>1, <1>2 DEF Forget, OnlyOf
<1> QED
  BY <1>3, <1>4, <1>5, <1>6

\* What the server stores for the objects of A.
LEMMA LandedOf ==
  ASSUME Shape, NEW p \in Passes, NEW A, A \subseteq Files
  PROVE  /\ Landed(p, A) \in [Files -> Rollups]
         /\ \A f \in A : /\ Landed(p, A)[f].at = obj[p][f].content
                         /\ Landed(p, A)[f].schema = schema
         /\ \A f \in Files \ A : Landed(p, A)[f] = cloud[f]
<1>1. /\ obj \in [Passes -> [Files -> Objects]]
      /\ cloud \in [Files -> Rollups]
      /\ schema \in 0 .. MaxSchema
  BY Constants DEF Shape
<1>2. \A f \in Files : obj[p][f].content \in Versions
  BY <1>1 DEF Objects
<1>3. \A f \in Files : [at |-> obj[p][f].content, schema |-> schema] \in Rollups
  BY <1>1, <1>2 DEF Rollups
<1> QED
  BY <1>1, <1>3 DEF Landed

\* The tracker after a confirm of A that fails B.
Answered(p, A, B) ==
  [Outcomes(p, B, "failed") EXCEPT ![p] =
     [f \in Files |-> IF f \in A THEN "confirmed" ELSE @[f]]]

\* What it says of a file.
LEMMA ConfirmedOf ==
  ASSUME Shape, NEW p \in Passes, NEW A, NEW B,
         tracker' = Answered(p, A, B)
  PROVE  /\ tracker' \in [Passes -> [Files -> Verdicts]]
         /\ OnlyOf(tracker, tracker', p)
         /\ \A f \in Files : tracker'[p][f] =
                               IF f \in A THEN "confirmed"
                               ELSE IF f \in B THEN "failed" ELSE tracker[p][f]
<1>1. tracker \in [Passes -> [Files -> Verdicts]]
  BY DEF Shape
<1>2. "failed" \in Verdicts /\ "confirmed" \in Verdicts
  BY DEF Verdicts
<1> DEFINE u == Outcomes(p, B, "failed")
<1>3. /\ u \in [Passes -> [Files -> Verdicts]]
      /\ \A f \in Files : u[p][f] = IF f \in B THEN "failed" ELSE tracker[p][f]
      /\ OnlyOf(tracker, u, p)
  BY <1>1, <1>2, OutcomesOf
<1> DEFINE t == [u EXCEPT ![p] = [f \in Files |-> IF f \in A THEN "confirmed"
                                                   ELSE u[p][f]]]
<1>4. tracker' = t
  BY DEF Answered
<1> HIDE DEF u
<1>5. /\ t \in [Passes -> [Files -> Verdicts]]
      /\ OnlyOf(tracker, t, p)
      /\ \A f \in Files : t[p][f] = IF f \in A THEN "confirmed" ELSE u[p][f]
  BY <1>2, <1>3 DEF OnlyOf
<1> HIDE DEF t
<1> QED
  BY <1>3, <1>4, <1>5

-----------------------------------------------------------------------------
(* Objects flow from the producers through the batch. *)

\* How one producer changes the number of those that are sending.
LEMMA SendingMoves ==
  ASSUME Shape, NEW p \in Passes, NEW f \in Files, OnlyAt(prod, prod', p, f)
  PROVE  /\ Cardinality(Sending(p)) \in Nat
         /\ prod[p][f] # "send" /\ prod'[p][f] # "send" =>
              Cardinality(Sending(p)') = Cardinality(Sending(p))
         /\ prod[p][f] # "send" /\ prod'[p][f] = "send" =>
              Cardinality(Sending(p)') = Cardinality(Sending(p)) + 1
         /\ prod[p][f] = "send" /\ prod'[p][f] # "send" =>
              Cardinality(Sending(p)') = Cardinality(Sending(p)) - 1
<1>1. IsFiniteSet(Sending(p)) /\ Cardinality(Sending(p)) \in Nat
  <2>1. Sending(p) \in SUBSET Files
    BY DEF Sending
  <2> QED
    BY <2>1, Constants, FS_Subset, FS_CardinalityType
<1>2. \A g \in Files : g # f => prod'[p][g] = prod[p][g]
  BY DEF OnlyAt
<1>3. ASSUME prod[p][f] # "send", prod'[p][f] # "send"
      PROVE  Sending(p)' = Sending(p)
  BY <1>2, <1>3 DEF Sending
<1>4. ASSUME prod[p][f] # "send", prod'[p][f] = "send"
      PROVE  Cardinality(Sending(p)') = Cardinality(Sending(p)) + 1
  <2>1. Sending(p)' = Sending(p) \cup {f} /\ f \notin Sending(p)
    BY <1>2, <1>4 DEF Sending
  <2> QED
    BY <1>1, <2>1, FS_AddElement
<1>5. ASSUME prod[p][f] = "send", prod'[p][f] # "send"
      PROVE  Cardinality(Sending(p)') = Cardinality(Sending(p)) - 1
  <2>1. Sending(p)' = Sending(p) \ {f} /\ f \in Sending(p)
    BY <1>2, <1>5 DEF Sending
  <2> QED
    BY <1>1, <2>1, FS_RemoveElement
<1> QED
  BY <1>1, <1>3, <1>4, <1>5

\* What is true of a pass stays true when its state is not touched.
LEMMA Untouched ==
  ASSUME NEW q \in Passes, pass'[q] = pass[q], prod'[q] = prod[q]
  PROVE  /\ Flow(q) => Flow(q)'
         /\ tracker'[q] = tracker[q] /\ Accounted(q) => Accounted(q)'
<1>1. /\ InBatch(q)' = InBatch(q) /\ InRest(q)' = InRest(q)
      /\ Sending(q)' = Sending(q)
  BY DEF InBatch, InRest, Sending
<1>2. Flow(q) => Flow(q)'
  BY <1>1 DEF Flow
<1>3. tracker'[q] = tracker[q] /\ Accounted(q) => Accounted(q)'
  BY <1>1 DEF Accounted
<1> QED
  BY <1>2, <1>3

\* A producer that works on f, up to the budget.
LEMMA FlowProduces ==
  ASSUME Shape, NEW p \in Passes, NEW f \in Files, Flow(p),
         prod[p][f] \in {"queued", "parse", "acquire", "send"},
         prod'[p][f] \notin {"none", "queued"},
         OnlyAt(prod, prod', p, f),
         pass'[p].phase = pass[p].phase,
         pass'[p].batch = pass[p].batch,
         pass'[p].rest = pass[p].rest,
         pass'[p].slots = pass[p].slots
                            + (IF prod'[p][f] = "send" THEN 1 ELSE 0)
                            - (IF prod[p][f] = "send" THEN 1 ELSE 0)
  PROVE  Flow(p)' /\ InBatch(p)' = InBatch(p) /\ InRest(p)' = InRest(p)
           /\ f \notin InBatch(p) /\ pass[p].phase # "off"
<1>1. InBatch(p)' = InBatch(p) /\ InRest(p)' = InRest(p)
  BY DEF InBatch, InRest
<1>2. f \notin InBatch(p) /\ pass[p].phase # "off"
  BY DEF Flow
<1>3. \A g \in Files : g # f => prod'[p][g] = prod[p][g]
  BY DEF OnlyAt
<1>4. InBatch(p) \subseteq Files /\ Len(pass[p].batch) \in Nat /\ pass[p].slots \in Int
  <2>1. pass[p].batch \in Seq(Files) /\ pass[p].slots \in Int
    BY PassFields DEF Shape
  <2> QED
    BY <2>1, Elements DEF InBatch
<1>5. \A g \in InBatch(p) : prod'[p][g] = "done"
  BY <1>2, <1>3, <1>4 DEF Flow
<1>6. pass'[p].slots = Len(pass[p].batch) + Cardinality(Sending(p)')
  <2> HIDE DEF Sending
  <2>1. pass[p].slots = Len(pass[p].batch) + Cardinality(Sending(p))
    BY DEF Flow
  <2>2. CASE prod'[p][f] = "send" /\ prod[p][f] = "send"
    <3>1. Sending(p)' = Sending(p)
      BY <1>3, <2>2 DEF Sending
    <3> QED
      BY <1>4, <2>1, <2>2, <3>1
  <2>3. CASE ~ (prod'[p][f] = "send" /\ prod[p][f] = "send")
    BY <1>4, <2>1, <2>3, SendingMoves
  <2> QED
    BY <2>2, <2>3
<1> QED
  BY <1>1, <1>2, <1>5, <1>6 DEF Flow

\* The consumer receives an object.
LEMMA FlowReceives ==
  ASSUME Shape, NEW p \in Passes, NEW f \in Files, Flow(p),
         prod[p][f] = "send", prod'[p][f] = "done",
         OnlyAt(prod, prod', p, f),
         pass[p].phase = "run", pass'[p].phase = "run",
         Len(pass[p].batch) < BatchSize,
         pass'[p].batch = Append(pass[p].batch, f),
         pass'[p].rest = pass[p].rest,
         pass'[p].slots = pass[p].slots
  PROVE  Flow(p)' /\ InBatch(p)' = InBatch(p) \cup {f} /\ InRest(p)' = InRest(p)
<1>1. pass[p].batch \in Seq(Files) /\ Len(pass[p].batch) \in Nat
  BY PassFields DEF Shape
<1>2. f \notin InBatch(p) /\ InBatch(p) \subseteq Files
  BY <1>1, Elements DEF Flow, InBatch
<1>3. InBatch(p)' = InBatch(p) \cup {f} /\ InRest(p)' = InRest(p)
  BY <1>1, Elements DEF InBatch, InRest
<1>4. Once(pass'[p].batch)
  BY <1>1, <1>2, OnceProp DEF Flow, InBatch
<1>5. \A g \in Files : g # f => prod'[p][g] = prod[p][g]
  BY DEF OnlyAt
<1>6. \A g \in InBatch(p)' : prod'[p][g] = "done"
  BY <1>2, <1>3, <1>5 DEF Flow
<1>7. Len(pass'[p].batch) = Len(pass[p].batch) + 1
  BY <1>1
<1>8. Cardinality(Sending(p)') = Cardinality(Sending(p)) - 1
      /\ Cardinality(Sending(p)) \in Nat
  BY SendingMoves
<1>9. Len(pass'[p].batch) <= BatchSize
      /\ pass'[p].slots = Len(pass'[p].batch) + Cardinality(Sending(p)')
  BY <1>1, <1>7, <1>8, Constants DEF Flow
<1> QED
  BY <1>3, <1>4, <1>6, <1>9 DEF Flow

\* The consumer works on its batch.
LEMMA FlowShips ==
  ASSUME Shape, NEW p \in Passes, Flow(p), prod'[p] = prod[p],
         pass[p].phase # "off", pass'[p].phase # "off",
         pass'[p].batch = pass[p].batch,
         Once(pass'[p].rest), InRest(p)' \subseteq InBatch(p),
         pass'[p].slots = pass[p].slots
  PROVE  Flow(p)' /\ InBatch(p)' = InBatch(p)
<1>1. InBatch(p)' = InBatch(p) /\ Sending(p)' = Sending(p)
  BY DEF InBatch, Sending
<1> QED
  BY <1>1 DEF Flow

\* The batch is given back, whole.
LEMMA FlowReleases ==
  ASSUME Shape, NEW p \in Passes, Flow(p), prod'[p] = prod[p],
         pass'[p].phase = "run",
         pass'[p].batch = <<>>, pass'[p].rest = <<>>,
         pass'[p].slots = pass[p].slots - Len(pass[p].batch)
  PROVE  Flow(p)' /\ InBatch(p)' = {} /\ InRest(p)' = {}
<1>1. InBatch(p)' = {} /\ InRest(p)' = {} /\ Sending(p)' = Sending(p)
  BY DEF InBatch, InRest, Sending, ToSet
<1>2. Once(<<>>) /\ Len(<<>>) = 0
  BY DEF Once
<1>3. /\ pass[p].slots \in Int /\ Len(pass[p].batch) \in Nat
      /\ Cardinality(Sending(p)) \in Nat
  <2>1. Sending(p) \in SUBSET Files
    BY DEF Sending
  <2> QED
    BY <2>1, Constants, FS_Subset, FS_CardinalityType, PassFields DEF Shape
<1>4. pass'[p].slots = Len(pass'[p].batch) + Cardinality(Sending(p)')
  BY <1>1, <1>2, <1>3 DEF Flow
<1>5. Len(pass'[p].batch) <= BatchSize
  BY <1>2, Constants
<1> QED
  BY <1>1, <1>2, <1>4, <1>5 DEF Flow

\* A pass begins, and a pass ends.
LEMMA FlowBegins ==
  ASSUME NEW p \in Passes,
         \/ pass'[p].phase = "run" /\ \A f \in Files : prod'[p][f] = "queued"
         \/ /\ pass'[p].phase = "off" /\ ~ pass'[p].cancelled
            /\ \A f \in Files : prod'[p][f] = "none",
         pass'[p].batch = <<>>, pass'[p].rest = <<>>, pass'[p].slots = 0
  PROVE  Flow(p)' /\ InBatch(p)' = {} /\ InRest(p)' = {}
<1>1. InBatch(p)' = {} /\ InRest(p)' = {} /\ Sending(p)' = {}
  BY DEF InBatch, InRest, Sending, ToSet
<1>2. Once(<<>>) /\ Len(<<>>) = 0
  BY DEF Once
<1>3. pass'[p].slots = Len(pass'[p].batch) + Cardinality(Sending(p)')
  BY <1>1, <1>2, FS_EmptySet
<1>4. Len(pass'[p].batch) <= BatchSize
  BY <1>2, Constants
<1> QED
  BY <1>1, <1>2, <1>3, <1>4 DEF Flow

-----------------------------------------------------------------------------
(* The steps of a pass. *)

Inv ==
  /\ Shape
  /\ \A p \in Passes : Flow(p)
  /\ \A p \in Passes : Accounted(p)
  /\ Owned

\* A temp object is with the producer of f or in the batch.
Held(p, f) == prod[p][f] \in {"acquire", "send"} \/ f \in InBatch(p)

\* A step of pass p leaves the other passes as they are.
LEMMA Assemble ==
  ASSUME Inv, NEW p \in Passes,
         Shape', Flow(p)', Accounted(p)',
         \A q \in Passes : q # p => pass'[q] = pass[q],
         \A q \in Passes : q # p => prod'[q] = prod[q],
         \A q \in Passes : q # p => tracker'[q] = tracker[q],
         leaked' = leaked,
         \A q \in Passes, g \in Files :
           q # p /\ <<q, g>> \in temps' => <<q, g>> \in temps,
         leaked \/ \A g \in Files : <<p, g>> \in temps' => Held(p, g)'
  PROVE  Inv'
<1>1. \A q \in Passes : Flow(q)' /\ Accounted(q)'
  BY Untouched DEF Inv
<1>2. ASSUME ~ leaked, NEW q \in Passes, NEW g \in Files, <<q, g>> \in temps', q # p
      PROVE  Held(q, g)'
  <2>1. Held(q, g)
    BY <1>2 DEF Inv, Owned, Held
  <2>2. Held(q, g)' <=> Held(q, g)
    BY <1>2 DEF Held, InBatch
  <2> QED
    BY <2>1, <2>2
<1>3. leaked \/ \A q \in Passes, g \in Files : <<q, g>> \in temps' => Held(q, g)'
  BY <1>2, Zenon
<1>4. Owned'
  BY <1>3 DEF Owned, Held
<1> QED
  BY <1>1, <1>4 DEF Inv

\* What a pass does leaves the sessions, the cursors and the cloud alone, unless
\* it says so.
LEMMA ShapeKept ==
  ASSUME Shape, UNCHANGED <<world, shipped, health>>,
         temps' \subseteq Passes \X Files,
         pass' \in [Passes -> PassStates],
         prod' \in [Passes -> [Files -> Producing]],
         obj' \in [Passes -> [Files -> Objects]],
         tracker' \in [Passes -> [Files -> Verdicts]]
  PROVE  Shape'
BY DEF Shape, world, shipped, health

\* What Shape says of the tables.
LEMMA ShapeTables ==
  ASSUME Shape
  PROVE  /\ temps \subseteq Passes \X Files
         /\ pass \in [Passes -> PassStates]
         /\ prod \in [Passes -> [Files -> Producing]]
         /\ obj \in [Passes -> [Files -> Objects]]
         /\ tracker \in [Passes -> [Files -> Verdicts]]
BY DEF Shape

\* The states of producers and outcomes.
LEMMA Names ==
  /\ {"none", "queued", "parse", "acquire", "send", "done"} \subseteq Producing
  /\ {"none", "pending", "failed", "confirmed", "completed"} \subseteq Verdicts
  /\ {"off", "run", "put", "confirm", "advance"} \subseteq Phases
BY DEF Producing, Verdicts, Phases

\* What a producer leaves of its pass.
ProducesBy(p, f) ==
  /\ f \notin InBatch(p)
  /\ prod[p][f] \in {"queued", "parse", "acquire", "send"}
  /\ InBatch(p)' = InBatch(p) /\ InRest(p)' = InRest(p)
  /\ pass'[p].phase = pass[p].phase
  /\ OnlyAt(prod, prod', p, f)
  /\ OnlyAt(tracker, tracker', p, f)
  /\ UNCHANGED <<world, shipped>>

\* A producer works on f, up to the budget: it starts, prepares, acquires a slot
\* or gives up.
LEMMA Produces ==
  ASSUME Inv, NEW p \in Passes, NEW f \in Files,
         UNCHANGED <<world, shipped, health>>,
         prod[p][f] \in {"queued", "parse", "acquire", "send"},
         prod' \in [Passes -> [Files -> Producing]],
         prod'[p][f] \notin {"none", "queued"},
         OnlyAt(prod, prod', p, f),
         NEW n \in Int,
         n = pass[p].slots + (IF prod'[p][f] = "send" THEN 1 ELSE 0)
                           - (IF prod[p][f] = "send" THEN 1 ELSE 0),
         PassIs(p, pass[p].phase, pass[p].batch, pass[p].rest, n, pass[p].mode,
                pass[p].cancelled),
         obj' \in [Passes -> [Files -> Objects]],
         tracker' \in [Passes -> [Files -> Verdicts]],
         OnlyAt(tracker, tracker', p, f),
         tracker'[p][f] = "confirmed" => tracker[p][f] = "confirmed",
         tracker'[p][f] = "pending" =>
           \/ prod'[p][f] \in {"acquire", "send"} \/ pass[p].cancelled
           \/ tracker[p][f] = "pending" /\ prod[p][f] \notin {"acquire", "send"},
         temps' \subseteq Passes \X Files,
         \A q \in Passes, g \in Files :
           <<q, g>> # <<p, f>> /\ <<q, g>> \in temps' => <<q, g>> \in temps,
         <<p, f>> \in temps' =>
           \/ prod'[p][f] \in {"acquire", "send"}
           \/ <<p, f>> \in temps /\ prod[p][f] \notin {"acquire", "send"}
  PROVE  Inv' /\ ProducesBy(p, f)
<1>0. Shape /\ Flow(p) /\ Accounted(p) /\ Owned
  BY DEF Inv
<1>1. Shape'
  BY <1>0, ShapeKept DEF PassIs
<1>2. Flow(p)' /\ InBatch(p)' = InBatch(p) /\ InRest(p)' = InRest(p)
      /\ f \notin InBatch(p)
  BY <1>0, FlowProduces DEF PassIs
<1>3. f \notin InRest(p)
  BY <1>0, <1>2 DEF Flow
<1>4. \A g \in Files : g # f => /\ prod'[p][g] = prod[p][g]
                                /\ tracker'[p][g] = tracker[p][g]
  BY DEF OnlyAt
<1>5. pass'[p].phase = pass[p].phase /\ pass'[p].cancelled = pass[p].cancelled
  BY DEF PassIs
<1>6. Accounted(p)'
  <2>1. ~ pass[p].cancelled => tracker[p][f] # "confirmed"
    BY <1>0, <1>2, <1>3 DEF Accounted
  <2>2. ~ pass[p].cancelled /\ tracker[p][f] = "pending" =>
          prod[p][f] \in {"acquire", "send"}
    BY <1>0, <1>2, <1>3 DEF Accounted
  <2>3. ~ pass[p].cancelled /\ tracker'[p][f] = "pending" =>
          prod'[p][f] \in {"acquire", "send"}
    BY <2>2
  <2> QED
    BY <1>0, <1>2, <1>4, <1>5, <2>1, <2>3 DEF Accounted
<1>7. leaked \/ \A g \in Files : <<p, g>> \in temps' => Held(p, g)'
  <2>1. leaked \/ \A g \in Files : <<p, g>> \in temps => Held(p, g)
    BY <1>0 DEF Owned, Held
  <2>2. \A g \in Files : g # f /\ Held(p, g) => Held(p, g)'
    BY <1>2, <1>4 DEF Held
  <2>3. \A g \in Files : g # f /\ <<p, g>> \in temps' => <<p, g>> \in temps
    OBVIOUS
  <2>4. <<p, f>> \in temps' => Held(p, f)' \/ (<<p, f>> \in temps /\ ~ Held(p, f))
    <3>1. prod'[p][f] \in {"acquire", "send"} => Held(p, f)'
      BY DEF Held
    <3>2. prod[p][f] \notin {"acquire", "send"} => ~ Held(p, f)
      BY <1>2 DEF Held
    <3> QED
      BY <3>1, <3>2, Zenon
  <2> QED
    BY <2>1, <2>2, <2>3, <2>4
<1>8. /\ \A q \in Passes : q # p => pass'[q] = pass[q]
      /\ \A q \in Passes : q # p => prod'[q] = prod[q]
      /\ \A q \in Passes : q # p => tracker'[q] = tracker[q]
      /\ leaked' = leaked
      /\ \A q \in Passes, g \in Files :
           q # p /\ <<q, g>> \in temps' => <<q, g>> \in temps
  BY DEF OnlyAt, PassIs, health
<1> QED
  BY <1>1, <1>2, <1>5, <1>6, <1>7, <1>8, Assemble DEF ProducesBy

\* A step that leaves the consumers alone.
LEMMA SamePass ==
  ASSUME Shape, NEW p \in Passes, pass' = pass
  PROVE  /\ pass[p].slots \in Int
         /\ PassIs(p, pass[p].phase, pass[p].batch, pass[p].rest, pass[p].slots,
                   pass[p].mode, pass[p].cancelled)
BY PassFields, ShapeTables DEF PassIs

\* prepareFile: the Stat.
LEMMA StatStep ==
  ASSUME Inv, NEW p \in Passes, NEW f \in Files, Stat(p, f)
  PROVE  Inv' /\ ProducesBy(p, f)
<1>0. Shape
  BY DEF Inv
<1>1. /\ prod[p][f] = "queued"
      /\ pass' = pass /\ temps' = temps
      /\ UNCHANGED <<world, shipped, health>>
  BY DEF Stat
<1>2. /\ prod' \in [Passes -> [Files -> Producing]]
      /\ prod'[p][f] \in {"done", "parse"}
      /\ OnlyAt(prod, prod', p, f)
  BY <1>0, TableMoves, Names DEF Stat
<1>3. /\ tracker' \in [Passes -> [Files -> Verdicts]]
      /\ tracker'[p][f] = tracker[p][f] \/ tracker'[p][f] = "failed"
      /\ OnlyAt(tracker, tracker', p, f)
  <2>1. CASE tracker' = tracker
    BY <1>0, <2>1, ShapeTables DEF OnlyAt
  <2>2. CASE tracker' = [tracker EXCEPT ![p][f] = "failed"]
    BY <1>0, <2>2, TableMoves, Names
  <2> QED
    BY <2>1, <2>2 DEF Stat
<1>4. obj' \in [Passes -> [Files -> Objects]]
  <2>1. file[f] \in Versions
    BY <1>0 DEF Shape
  <2> QED
    BY <1>0, <2>1, ShapeTables, SetObject DEF Stat
<1>5. pass[p].slots = pass[p].slots + (IF prod'[p][f] = "send" THEN 1 ELSE 0)
                                    - (IF prod[p][f] = "send" THEN 1 ELSE 0)
  BY <1>0, <1>1, <1>2, SamePass
<1> QED
  BY <1>0, <1>1, <1>2, <1>3, <1>4, <1>5, SamePass, ShapeTables, Produces

\* prepareFile: the parse.
LEMMA ParseStep ==
  ASSUME Inv, NEW p \in Passes, NEW f \in Files, Parse(p, f)
  PROVE  Inv' /\ ProducesBy(p, f)
<1>0. Shape
  BY DEF Inv
<1>1. /\ prod[p][f] = "parse"
      /\ pass' = pass
      /\ UNCHANGED <<world, shipped, health>>
  BY DEF Parse
<1>2. PICK v \in obj[p][f].stat .. file[f] :
        IF v = 0
        THEN /\ Produce(p, f, "done")
             /\ UNCHANGED <<obj, tracker, temps>>
        ELSE /\ Produce(p, f, "acquire")
             /\ obj' = [obj EXCEPT ![p][f].content = v]
             /\ tracker' = [tracker EXCEPT ![p][f] = "pending"]
             /\ temps' = temps \cup {<<p, f>>}
  BY DEF Parse
<1>3. v \in Versions
  <2>1. obj[p][f] \in Objects /\ file[f] \in Versions
    BY <1>0 DEF Shape
  <2>2. obj[p][f].stat \in Versions
    BY <2>1 DEF Objects
  <2> QED
    BY <2>1, <2>2, Constants DEF Versions
<1>4. CASE v = 0
  <2>1. /\ prod' \in [Passes -> [Files -> Producing]]
        /\ prod'[p][f] = "done"
        /\ OnlyAt(prod, prod', p, f)
    BY <1>0, <1>2, <1>4, TableMoves, Names
  <2>2. obj' = obj /\ tracker' = tracker /\ temps' = temps
    BY <1>2, <1>4
  <2>3. OnlyAt(tracker, tracker', p, f)
    BY <2>2 DEF OnlyAt
  <2>4. pass[p].slots = pass[p].slots + (IF prod'[p][f] = "send" THEN 1 ELSE 0)
                                      - (IF prod[p][f] = "send" THEN 1 ELSE 0)
    BY <1>0, <1>1, <2>1, SamePass
  <2> QED
    BY <1>0, <1>1, <2>1, <2>2, <2>3, <2>4, SamePass, ShapeTables, Produces
<1>5. CASE v # 0
  <2>1. /\ prod' \in [Passes -> [Files -> Producing]]
        /\ prod'[p][f] = "acquire"
        /\ OnlyAt(prod, prod', p, f)
    BY <1>0, <1>2, <1>5, TableMoves, Names
  <2>2. /\ tracker' \in [Passes -> [Files -> Verdicts]]
        /\ tracker'[p][f] = "pending"
        /\ OnlyAt(tracker, tracker', p, f)
    BY <1>0, <1>2, <1>5, TableMoves, Names
  <2>3. obj' \in [Passes -> [Files -> Objects]]
    BY <1>0, <1>2, <1>3, <1>5, ShapeTables, SetObject
  <2>4. temps' = temps \cup {<<p, f>>}
    BY <1>2, <1>5
  <2>5. /\ temps' \subseteq Passes \X Files
        /\ \A q \in Passes, g \in Files :
             <<q, g>> # <<p, f>> /\ <<q, g>> \in temps' => <<q, g>> \in temps
    BY <1>0, <2>4, ShapeTables
  <2>6. pass[p].slots = pass[p].slots + (IF prod'[p][f] = "send" THEN 1 ELSE 0)
                                      - (IF prod[p][f] = "send" THEN 1 ELSE 0)
    BY <1>0, <1>1, <2>1, SamePass
  <2> QED
    BY <1>0, <1>1, <2>1, <2>2, <2>3, <2>5, <2>6, SamePass, Produces
<1> QED
  BY <1>4, <1>5

\* prepareFile fails, and the spawning stops.
LEMMA NotPreparedStep ==
  ASSUME Inv, NEW p \in Passes, NEW f \in Files,
         PrepareFails(p, f) \/ NotSpawned(p, f)
  PROVE  Inv' /\ ProducesBy(p, f)
<1>0. Shape
  BY DEF Inv
<1>1. /\ prod[p][f] \in {"queued", "parse"}
      /\ pass' = pass /\ temps' = temps /\ obj' = obj
      /\ UNCHANGED <<world, shipped, health>>
  BY DEF PrepareFails, NotSpawned
<1>2. /\ prod' \in [Passes -> [Files -> Producing]]
      /\ prod'[p][f] = "done"
      /\ OnlyAt(prod, prod', p, f)
  BY <1>0, TableMoves, Names DEF PrepareFails, NotSpawned
<1>3. /\ tracker' \in [Passes -> [Files -> Verdicts]]
      /\ tracker'[p][f] = tracker[p][f] \/ tracker'[p][f] = "failed"
      /\ OnlyAt(tracker, tracker', p, f)
  <2>1. CASE tracker' = tracker
    BY <1>0, <2>1, ShapeTables DEF OnlyAt
  <2>2. CASE tracker' = [tracker EXCEPT ![p][f] = "failed"]
    BY <1>0, <2>2, TableMoves, Names
  <2> QED
    BY <2>1, <2>2 DEF PrepareFails, NotSpawned
<1>4. pass[p].slots = pass[p].slots + (IF prod'[p][f] = "send" THEN 1 ELSE 0)
                                    - (IF prod[p][f] = "send" THEN 1 ELSE 0)
  BY <1>0, <1>1, <1>2, SamePass
<1> QED
  BY <1>0, <1>1, <1>2, <1>3, <1>4, SamePass, ShapeTables, Produces

\* A slot of the budget.
LEMMA AcquireStep ==
  ASSUME Inv, NEW p \in Passes, NEW f \in Files, Acquire(p, f)
  PROVE  Inv' /\ ProducesBy(p, f)
<1>0. Shape
  BY DEF Inv
<1>1. /\ prod[p][f] = "acquire"
      /\ temps' = temps /\ obj' = obj /\ tracker' = tracker
      /\ UNCHANGED <<world, shipped, health>>
      /\ pass' = [pass EXCEPT ![p].slots = pass[p].slots + 1]
  BY DEF Acquire
<1>2. /\ prod' \in [Passes -> [Files -> Producing]]
      /\ prod'[p][f] = "send"
      /\ OnlyAt(prod, prod', p, f)
  BY <1>0, TableMoves, Names DEF Acquire
<1>3. OnlyAt(tracker, tracker', p, f)
  BY <1>1 DEF OnlyAt
<1> DEFINE n == pass[p].slots + 1
<1>4. n \in Int /\ n = pass[p].slots + (IF prod'[p][f] = "send" THEN 1 ELSE 0)
                                      - (IF prod[p][f] = "send" THEN 1 ELSE 0)
  BY <1>0, <1>1, <1>2, PassFields, ShapeTables
<1>5. PassIs(p, pass[p].phase, pass[p].batch, pass[p].rest, n, pass[p].mode,
             pass[p].cancelled)
  BY <1>0, <1>1, <1>4, PassMoves, ShapeTables
<1> HIDE DEF n
<1> QED
  BY <1>0, <1>1, <1>2, <1>3, <1>4, <1>5, ShapeTables, Produces

\* The context ends while a producer waits.
LEMMA GiveUpStep ==
  ASSUME Inv, NEW p \in Passes, NEW f \in Files, GiveUp(p, f)
  PROVE  Inv' /\ ProducesBy(p, f)
<1>0. Shape
  BY DEF Inv
<1> DEFINE n == IF prod[p][f] = "send" THEN pass[p].slots - 1 ELSE pass[p].slots
<1>1. /\ prod[p][f] \in {"acquire", "send"} /\ pass[p].cancelled
      /\ tracker' = tracker
      /\ UNCHANGED <<world, shipped, health>>
      /\ pass' = [pass EXCEPT ![p].slots = n]
      /\ temps' = temps \ {<<p, f>>}
      /\ obj' = [obj EXCEPT ![p][f] = NoObject]
  BY DEF GiveUp
<1>2. /\ prod' \in [Passes -> [Files -> Producing]]
      /\ prod'[p][f] = "done"
      /\ OnlyAt(prod, prod', p, f)
  BY <1>0, TableMoves, Names DEF GiveUp
<1>3. OnlyAt(tracker, tracker', p, f)
  BY <1>1 DEF OnlyAt
<1>4. n \in Int /\ n = pass[p].slots + (IF prod'[p][f] = "send" THEN 1 ELSE 0)
                                      - (IF prod[p][f] = "send" THEN 1 ELSE 0)
  BY <1>0, <1>1, <1>2, PassFields, ShapeTables
<1> HIDE DEF n
<1>5. PassIs(p, pass[p].phase, pass[p].batch, pass[p].rest, n, pass[p].mode,
             pass[p].cancelled)
  BY <1>0, <1>1, <1>4, PassMoves, ShapeTables
<1>6. obj' \in [Passes -> [Files -> Objects]]
  BY <1>0, <1>1, TableMoves
<1>7. temps' \subseteq Passes \X Files /\ <<p, f>> \notin temps'
      /\ \A q \in Passes, g \in Files : <<q, g>> \in temps' => <<q, g>> \in temps
  BY <1>0, <1>1, ShapeTables
<1> QED
  BY <1>0, <1>1, <1>2, <1>3, <1>4, <1>5, <1>6, <1>7, ShapeTables, Produces

\* The consumer receives an object.
LEMMA SendStep ==
  ASSUME Inv, NEW p \in Passes, NEW f \in Files, Send(p, f)
  PROVE  /\ Inv'
         /\ InBatch(p)' = InBatch(p) \cup {f} /\ InRest(p)' = InRest(p)
         /\ pass[p].phase = "run" /\ pass'[p].phase = "run"
         /\ OnlyAt(prod, prod', p, f) /\ prod[p][f] = "send" /\ prod'[p][f] = "done"
<1>0. Shape /\ Flow(p) /\ Accounted(p) /\ Owned
  BY DEF Inv
<1>1. /\ prod[p][f] = "send" /\ pass[p].phase = "run"
      /\ Len(pass[p].batch) < BatchSize
      /\ temps' = temps /\ obj' = obj /\ tracker' = tracker
      /\ UNCHANGED <<world, shipped, health>>
      /\ pass' = [pass EXCEPT ![p].batch = Append(pass[p].batch, f)]
  BY DEF Send
<1>2. /\ prod' \in [Passes -> [Files -> Producing]]
      /\ prod'[p][f] = "done"
      /\ OnlyAt(prod, prod', p, f)
  BY <1>0, TableMoves, Names DEF Send
<1> DEFINE b == Append(pass[p].batch, f)
<1>3. b \in Seq(Files)
  BY <1>0, PassFields, ShapeTables
<1>4. PassIs(p, pass[p].phase, b, pass[p].rest, pass[p].slots, pass[p].mode,
             pass[p].cancelled)
  <2> HIDE DEF b
  <2>1. pass' = [pass EXCEPT ![p].batch = b]
    BY <1>1 DEF b
  <2> QED
    BY <1>0, <1>3, <2>1, PassMoves, ShapeTables
<1>5. Shape'
  BY <1>0, <1>1, <1>2, <1>4, ShapeKept, ShapeTables DEF PassIs
<1>6. Flow(p)' /\ InBatch(p)' = InBatch(p) \cup {f} /\ InRest(p)' = InRest(p)
  BY <1>0, <1>1, <1>2, <1>4, FlowReceives DEF PassIs
<1>7. \A g \in Files : g # f => prod'[p][g] = prod[p][g]
  BY <1>2 DEF OnlyAt
<1>8. pass'[p].phase = "run" /\ pass'[p].cancelled = pass[p].cancelled
  BY <1>1, <1>4 DEF PassIs
<1>9. Accounted(p)'
  BY <1>0, <1>1, <1>6, <1>7, <1>8 DEF Accounted
<1>10. leaked \/ \A g \in Files : <<p, g>> \in temps' => Held(p, g)'
  <2>1. leaked \/ \A g \in Files : <<p, g>> \in temps => Held(p, g)
    BY <1>0 DEF Owned, Held
  <2>2. \A g \in Files : Held(p, g) => Held(p, g)'
    BY <1>6, <1>7 DEF Held
  <2> QED
    BY <1>1, <2>1, <2>2
<1>11. /\ \A q \in Passes : q # p => pass'[q] = pass[q]
       /\ \A q \in Passes : q # p => prod'[q] = prod[q]
       /\ \A q \in Passes : q # p => tracker'[q] = tracker[q]
       /\ leaked' = leaked
  BY <1>1, <1>2, <1>4 DEF OnlyAt, PassIs, health
<1> QED
  BY <1>1, <1>2, <1>5, <1>6, <1>8, <1>9, <1>10, <1>11, Assemble

\* What the consumer leaves of its pass while it works on a batch.
ShipsBy(p, phase, S) ==
  /\ InBatch(p)' = InBatch(p) /\ InRest(p)' = S
  /\ pass'[p].phase = phase
  /\ prod' = prod

\* The consumer works on its batch.
LEMMA Ships ==
  ASSUME Inv, NEW p \in Passes, Shape',
         prod' = prod, temps' = temps, leaked' = leaked,
         OnlyOf(tracker, tracker', p),
         NEW phase, NEW rest, NEW cancelled,
         PassIs(p, phase, pass[p].batch, rest, pass[p].slots, pass[p].mode,
                cancelled),
         pass[p].phase # "off", phase # "off",
         Once(rest), ToSet(rest) \subseteq InBatch(p),
         InBatch(p)' = InBatch(p) /\ InRest(p)' = ToSet(rest) => Accounted(p)'
  PROVE  Inv' /\ ShipsBy(p, phase, ToSet(rest))
<1>0. Shape /\ Flow(p) /\ Owned
  BY DEF Inv
<1>1. InRest(p)' = ToSet(rest)
  BY DEF InRest, PassIs
<1>2. prod'[p] = prod[p]
  OBVIOUS
<1>3. Flow(p)' /\ InBatch(p)' = InBatch(p)
  BY <1>0, <1>1, <1>2, FlowShips DEF PassIs
<1>4. leaked \/ \A g \in Files : <<p, g>> \in temps' => Held(p, g)'
  <2>1. leaked \/ \A g \in Files : <<p, g>> \in temps => Held(p, g)
    BY <1>0 DEF Owned, Held
  <2>2. \A g \in Files : Held(p, g) => Held(p, g)'
    BY <1>3 DEF Held
  <2> QED
    BY <2>1, <2>2
<1>5. /\ \A q \in Passes : q # p => pass'[q] = pass[q]
      /\ \A q \in Passes : q # p => prod'[q] = prod[q]
      /\ \A q \in Passes : q # p => tracker'[q] = tracker[q]
  BY DEF OnlyOf, PassIs
<1> QED
  BY <1>1, <1>3, <1>4, <1>5, Assemble DEF PassIs, ShipsBy

\* What is left of a pass when its batch is put away.
ReleasesBy(p) ==
  /\ InBatch(p)' = {} /\ InRest(p)' = {}
  /\ pass'[p].phase = "run"
  /\ prod' = prod

\* The batch is put away.
LEMMA Releases ==
  ASSUME Inv, NEW p \in Passes, Release(p),
         UNCHANGED <<world, shipped, health, prod>>,
         tracker' \in [Passes -> [Files -> Verdicts]],
         OnlyOf(tracker, tracker', p),
         InBatch(p)' = {} /\ InRest(p)' = {} => Accounted(p)'
  PROVE  Inv' /\ ReleasesBy(p)
<1>0. Shape /\ Flow(p) /\ Owned
  BY DEF Inv
<1>1. PassIs(p, "run", <<>>, <<>>, pass[p].slots - Len(pass[p].batch),
             pass[p].mode, pass[p].cancelled)
  BY <1>0, PassMoves, ShapeTables
<1>2. /\ obj' \in [Passes -> [Files -> Objects]]
      /\ \A q \in Passes, f \in Files :
           <<q, f>> \in temps' <=>
             <<q, f>> \in temps /\ ~ (q = p /\ f \in InBatch(p))
      /\ temps' \subseteq Passes \X Files
  BY <1>0, ReleaseMoves
<1>3. Shape'
  BY <1>0, <1>1, <1>2, ShapeKept, ShapeTables DEF PassIs
<1>4. Flow(p)' /\ InBatch(p)' = {} /\ InRest(p)' = {}
  BY <1>0, <1>1, FlowReleases DEF PassIs
<1>5. leaked \/ \A g \in Files : <<p, g>> \in temps' => Held(p, g)'
  <2>1. leaked \/ \A g \in Files : <<p, g>> \in temps => Held(p, g)
    BY <1>0 DEF Owned, Held
  <2>2. \A g \in Files : Held(p, g) => Held(p, g)' \/ g \in InBatch(p)
    BY DEF Held
  <2> QED
    BY <1>2, <2>1, <2>2
<1>6. /\ \A q \in Passes : q # p => pass'[q] = pass[q]
      /\ \A q \in Passes : q # p => prod'[q] = prod[q]
      /\ \A q \in Passes : q # p => tracker'[q] = tracker[q]
      /\ leaked' = leaked
  BY <1>1 DEF OnlyOf, PassIs, health
<1> QED
  BY <1>1, <1>2, <1>3, <1>4, <1>5, <1>6, Assemble DEF PassIs, ReleasesBy

\* The facts of a pass that its consumer uses.
LEMMA BatchFacts ==
  ASSUME Inv, NEW p \in Passes
  PROVE  /\ Shape /\ Flow(p) /\ Accounted(p)
         /\ pass[p].batch \in Seq(Files) /\ pass[p].rest \in Seq(Files)
         /\ Once(pass[p].batch) /\ Once(pass[p].rest)
         /\ InBatch(p) = ToSet(pass[p].batch) /\ InRest(p) = ToSet(pass[p].rest)
         /\ InRest(p) \subseteq InBatch(p) /\ InBatch(p) \subseteq Files
         /\ \A f \in InBatch(p) : prod[p][f] = "done"
<1>1. Shape /\ Flow(p) /\ Accounted(p)
  BY DEF Inv
<1>2. pass[p].batch \in Seq(Files) /\ pass[p].rest \in Seq(Files)
  BY <1>1, PassFields, ShapeTables
<1> QED
  BY <1>1, <1>2, Elements DEF Flow, InBatch, InRest

\* The request for the signed locations, and its failure.
LEMMA PresignStep ==
  ASSUME Inv, NEW p \in Passes, Presign(p) \/ Cancel(p)
  PROVE  /\ Inv'
         /\ \/ pass[p].phase = "run" /\ ShipsBy(p, "put", InRest(p))
            \/ pass[p].phase # "off" /\ ShipsBy(p, pass[p].phase, InRest(p))
<1>0. /\ Shape /\ Flow(p) /\ Accounted(p)
      /\ Once(pass[p].rest) /\ InRest(p) = ToSet(pass[p].rest)
      /\ InRest(p) \subseteq InBatch(p)
  BY BatchFacts
<1>1. /\ temps' = temps /\ obj' = obj /\ tracker' = tracker /\ prod' = prod
      /\ leaked' = leaked
      /\ UNCHANGED <<world, shipped, health>>
      /\ pass[p].phase # "off"
  BY DEF Presign, Assembled, Cancel, health
<1>2. OnlyOf(tracker, tracker', p)
  BY <1>1 DEF OnlyOf
<1>3. CASE Presign(p)
  <2>1. pass[p].phase = "run" /\ Step(p, "put")
    BY <1>3 DEF Presign, Assembled
  <2>2. PassIs(p, "put", pass[p].batch, pass[p].rest, pass[p].slots, pass[p].mode,
               pass[p].cancelled)
    BY <1>0, <2>1, PassMoves, ShapeTables, Names
  <2>3. Shape'
    BY <1>0, <1>1, <2>2, ShapeKept, ShapeTables DEF PassIs
  <2>4. ASSUME InBatch(p)' = InBatch(p), InRest(p)' = ToSet(pass[p].rest)
        PROVE  Accounted(p)'
    <3>1. pass'[p].phase = "put" /\ pass'[p].cancelled = pass[p].cancelled
      BY <2>2 DEF PassIs
    <3> QED
      BY <1>0, <1>1, <2>1, <2>4, <3>1 DEF Accounted
  <2>5. Inv' /\ ShipsBy(p, "put", ToSet(pass[p].rest))
    BY <1>0, <1>1, <1>2, <2>2, <2>3, <2>4, Ships
  <2> QED
    BY <1>0, <2>1, <2>5
<1>4. CASE Cancel(p)
  <2>1. pass' = [pass EXCEPT ![p].cancelled = TRUE]
    BY <1>4 DEF Cancel
  <2>2. PassIs(p, pass[p].phase, pass[p].batch, pass[p].rest, pass[p].slots,
               pass[p].mode, TRUE)
    BY <1>0, <2>1, PassMoves, ShapeTables
  <2>3. Shape'
    BY <1>0, <1>1, <2>2, ShapeKept, ShapeTables DEF PassIs
  <2>4. Accounted(p)'
    BY <2>2 DEF Accounted, PassIs
  <2>5. Inv' /\ ShipsBy(p, pass[p].phase, ToSet(pass[p].rest))
    BY <1>0, <1>1, <1>2, <2>2, <2>3, <2>4, Ships
  <2> QED
    BY <1>0, <1>1, <2>5
<1> QED
  BY <1>3, <1>4

\* failBatch after the request.
LEMMA PresignFailsStep ==
  ASSUME Inv, NEW p \in Passes, PresignFails(p)
  PROVE  /\ Inv' /\ ReleasesBy(p) /\ pass[p].phase = "run"
         /\ \A f \in Files : tracker'[p][f] = "confirmed" =>
              tracker[p][f] = "confirmed"
<1>0. /\ Shape /\ Flow(p) /\ Accounted(p)
      /\ InBatch(p) = ToSet(pass[p].batch)
      /\ InRest(p) \subseteq InBatch(p) /\ InBatch(p) \subseteq Files
  BY BatchFacts
<1>1. /\ pass[p].phase = "run" /\ prod' = prod
      /\ UNCHANGED <<world, shipped, health>>
      /\ tracker' = Outcomes(p, InBatch(p), "failed")
      /\ Release(p)
  BY <1>0 DEF PresignFails, Assembled
<1>2. /\ tracker' \in [Passes -> [Files -> Verdicts]]
      /\ \A f \in Files : tracker'[p][f] =
                            IF f \in InBatch(p) THEN "failed" ELSE tracker[p][f]
      /\ OnlyOf(tracker, tracker', p)
  BY <1>0, <1>1, OutcomesOf, Names, ShapeTables
<1>3. pass'[p].phase = "run" /\ pass'[p].cancelled = pass[p].cancelled
  BY <1>0, <1>1, PassMoves, ShapeTables DEF PassIs
<1>4. ASSUME InBatch(p)' = {}, InRest(p)' = {}
      PROVE  Accounted(p)'
  BY <1>0, <1>1, <1>2, <1>3, <1>4 DEF Accounted
<1> QED
  BY <1>0, <1>1, <1>2, <1>4, Releases

\* sealAndPutBatch.
LEMMA PutStep ==
  ASSUME Inv, NEW p \in Passes, Put(p)
  PROVE  /\ Inv' /\ pass[p].phase = "put"
         /\ \E S \in SUBSET Files : ShipsBy(p, "confirm", InBatch(p) \ S)
         /\ \A f \in Files : tracker'[p][f] = "confirmed" =>
              tracker[p][f] = "confirmed"
<1>0. /\ Shape /\ Flow(p) /\ Accounted(p)
      /\ pass[p].batch \in Seq(Files) /\ Once(pass[p].batch)
      /\ InBatch(p) = ToSet(pass[p].batch)
      /\ InRest(p) \subseteq InBatch(p) /\ InBatch(p) \subseteq Files
  BY BatchFacts
<1> DEFINE batch == pass[p].batch
           D(S) == {k \in DOMAIN batch : batch[k] \notin S}
<1>1. /\ pass[p].phase = "put"
      /\ temps' = temps /\ obj' = obj /\ prod' = prod /\ leaked' = leaked
      /\ UNCHANGED <<world, shipped, health>>
  BY DEF Put, health
<1>2. PICK S \in SUBSET ToSet(batch) :
        /\ tracker' = Outcomes(p, S, "failed")
        /\ \E up \in Picked(batch, D(S)) :
             pass' = [pass EXCEPT ![p].rest = up, ![p].phase = "confirm"]
  BY DEF Put
<1>3. PICK up \in Picked(batch, D(S)) :
        pass' = [pass EXCEPT ![p].rest = up, ![p].phase = "confirm"]
  BY <1>2
<1>4. D(S) \subseteq DOMAIN batch
  OBVIOUS
<1>5. up \in Seq(Files) /\ ToSet(up) = {batch[k] : k \in D(S)} /\ Once(up)
  <2> HIDE DEF D
  <2> QED
    BY <1>0, <1>3, <1>4, PickedExact
<1>6. ToSet(up) = InBatch(p) \ S
  BY <1>0, <1>5, Elements
<1>7. PassIs(p, "confirm", batch, up, pass[p].slots, pass[p].mode,
             pass[p].cancelled)
  BY <1>0, <1>3, <1>5, PassMoves, ShapeTables, Names
<1>8. /\ tracker' \in [Passes -> [Files -> Verdicts]]
      /\ \A f \in Files : tracker'[p][f] =
                            IF f \in S THEN "failed" ELSE tracker[p][f]
      /\ OnlyOf(tracker, tracker', p)
  BY <1>0, <1>2, OutcomesOf, Names, ShapeTables
<1>9. Shape'
  BY <1>0, <1>1, <1>7, <1>8, ShapeKept, ShapeTables DEF PassIs
<1>10. ASSUME InBatch(p)' = InBatch(p), InRest(p)' = ToSet(up)
       PROVE  Accounted(p)'
  <2>1. pass'[p].phase = "confirm" /\ pass'[p].cancelled = pass[p].cancelled
    BY <1>7 DEF PassIs
  <2> QED
    BY <1>0, <1>1, <1>6, <1>8, <1>10, <2>1 DEF Accounted
<1>11. Inv' /\ ShipsBy(p, "confirm", ToSet(up))
  BY <1>1, <1>5, <1>6, <1>7, <1>8, <1>9, <1>10, Ships
<1>12. S \in SUBSET Files
  BY <1>0
<1> QED
  BY <1>1, <1>6, <1>8, <1>11, <1>12

\* A prefix of what is left to confirm is submitted.
LEMMA Submitted ==
  ASSUME Inv, NEW p \in Passes, NEW n \in 1 .. Len(pass[p].rest),
         pass[p].phase = "confirm",
         pass' = [pass EXCEPT ![p].rest = SubSeq(@, n + 1, Len(@))]
  PROVE  LET sub == ToSet(SubSeq(pass[p].rest, 1, n))
             rest == SubSeq(pass[p].rest, n + 1, Len(pass[p].rest))
         IN  /\ sub \subseteq InRest(p) /\ sub \subseteq Files
             /\ ToSet(rest) = InRest(p) \ sub
             /\ Once(rest)
             /\ PassIs(p, "confirm", pass[p].batch, rest, pass[p].slots,
                       pass[p].mode, pass[p].cancelled)
<1>0. /\ Shape /\ pass[p].rest \in Seq(Files) /\ Once(pass[p].rest)
      /\ InRest(p) = ToSet(pass[p].rest) /\ InRest(p) \subseteq Files
  <2>1. /\ InRest(p) \subseteq InBatch(p) /\ InBatch(p) \subseteq Files
        /\ Shape /\ pass[p].rest \in Seq(Files) /\ Once(pass[p].rest)
        /\ InRest(p) = ToSet(pass[p].rest)
    BY BatchFacts
  <2> QED
    BY <2>1
<1> DEFINE s == pass[p].rest
           sub == ToSet(SubSeq(s, 1, n))
           rest == SubSeq(s, n + 1, Len(s))
<1>1. /\ rest \in Seq(Files)
      /\ ToSet(s) = sub \cup ToSet(rest)
      /\ Once(rest) /\ sub \cap ToSet(rest) = {}
  BY <1>0, Split
<1>2. pass' = [pass EXCEPT ![p].rest = rest]
  OBVIOUS
<1> HIDE DEF rest, sub
<1>3. PassIs(p, pass[p].phase, pass[p].batch, rest, pass[p].slots,
             pass[p].mode, pass[p].cancelled)
  BY <1>0, <1>1, <1>2, PassMoves, ShapeTables
<1>4. sub \subseteq InRest(p) /\ ToSet(rest) = InRest(p) \ sub
  BY <1>0, <1>1
<1> QED
  BY <1>0, <1>1, <1>3, <1>4 DEF rest, sub

\* What an answered confirm changes.
ConfirmsBy(p, sub, S) ==
  /\ sub \subseteq InRest(p) /\ sub \subseteq Files /\ S \subseteq sub
  /\ pass[p].phase = "confirm" /\ pass'[p].phase = "confirm"
  /\ pass'[p].cancelled = pass[p].cancelled
  /\ InBatch(p)' = InBatch(p)
  /\ InRest(p)' = InRest(p) \ sub
  /\ cloud' = Landed(p, sub \ S)
  /\ \A f \in Files : tracker'[p][f] = IF f \in sub \ S THEN "confirmed"
                                       ELSE IF f \in S THEN "failed"
                                       ELSE tracker[p][f]
  /\ prod' = prod /\ obj' = obj /\ UNCHANGED <<file, schema, cursor>>

\* confirmSubBatch.
LEMMA ConfirmStep ==
  ASSUME Inv, NEW p \in Passes, Confirm(p)
  PROVE  Inv' /\ \E sub, S \in SUBSET Files : ConfirmsBy(p, sub, S)
<1>0. /\ Shape /\ Flow(p) /\ Accounted(p)
      /\ InRest(p) \subseteq InBatch(p) /\ InBatch(p) \subseteq Files
      /\ InBatch(p) = ToSet(pass[p].batch)
  BY BatchFacts
<1>1. /\ pass[p].phase = "confirm"
      /\ temps' = temps /\ obj' = obj /\ prod' = prod /\ leaked' = leaked
      /\ UNCHANGED <<world, cursor, health>>
  BY DEF Confirm, health
<1>2. PICK n \in 1 .. Len(pass[p].rest) :
        \E S \in SUBSET ToSet(SubSeq(pass[p].rest, 1, n)) :
          LET sub == ToSet(SubSeq(pass[p].rest, 1, n))
          IN  /\ cloud' = Landed(p, sub \ S)
              /\ tracker' = [Outcomes(p, S, "failed") EXCEPT ![p] =
                               [f \in Files |-> IF f \in sub \ S THEN "confirmed"
                                                ELSE @[f]]]
              /\ pass' = [pass EXCEPT ![p].rest = SubSeq(@, n + 1, Len(@))]
  BY DEF Confirm
<1> DEFINE sub == ToSet(SubSeq(pass[p].rest, 1, n))
           rest == SubSeq(pass[p].rest, n + 1, Len(pass[p].rest))
<1>3. PICK S \in SUBSET sub :
        /\ cloud' = Landed(p, sub \ S)
        /\ tracker' = [Outcomes(p, S, "failed") EXCEPT ![p] =
                         [f \in Files |-> IF f \in sub \ S THEN "confirmed"
                                          ELSE @[f]]]
        /\ pass' = [pass EXCEPT ![p].rest = SubSeq(@, n + 1, Len(@))]
  BY <1>2
<1>4. /\ sub \subseteq InRest(p) /\ sub \subseteq Files
      /\ ToSet(rest) = InRest(p) \ sub
      /\ Once(rest)
      /\ PassIs(p, "confirm", pass[p].batch, rest, pass[p].slots,
                pass[p].mode, pass[p].cancelled)
  BY <1>1, <1>3, Submitted
<1> HIDE DEF sub, rest
<1>5. S \in SUBSET Files /\ (sub \ S) \in SUBSET Files
  BY <1>4
<1>6. /\ cloud' \in [Files -> Rollups]
      /\ tracker' \in [Passes -> [Files -> Verdicts]]
      /\ OnlyOf(tracker, tracker', p)
      /\ \A f \in Files : tracker'[p][f] = IF f \in sub \ S THEN "confirmed"
                                           ELSE IF f \in S THEN "failed"
                                           ELSE tracker[p][f]
  <2>1. cloud' \in [Files -> Rollups]
    BY <1>0, <1>3, <1>5, LandedOf
  <2> DEFINE A == sub \ S
  <2>2. tracker' = Answered(p, A, S)
    BY <1>3 DEF Answered
  <2> HIDE DEF A
  <2>3. /\ tracker' \in [Passes -> [Files -> Verdicts]]
        /\ OnlyOf(tracker, tracker', p)
        /\ \A f \in Files : tracker'[p][f] = IF f \in A THEN "confirmed"
                                             ELSE IF f \in S THEN "failed"
                                             ELSE tracker[p][f]
    BY <1>0, <2>2, ConfirmedOf
  <2> QED
    BY <2>1, <2>3 DEF A
<1>7. Shape'
  BY <1>0, <1>1, <1>4, <1>6 DEF Shape, PassIs, world, health
<1>8. pass'[p].phase = "confirm" /\ pass'[p].cancelled = pass[p].cancelled
      /\ InBatch(p)' = InBatch(p) /\ InRest(p)' = ToSet(rest)
  BY <1>4 DEF PassIs, InBatch, InRest
<1>9. Accounted(p)'
  BY <1>0, <1>1, <1>4, <1>6, <1>8 DEF Accounted
<1>10. Inv'
  BY <1>0, <1>1, <1>4, <1>6, <1>7, <1>9, Ships
<1>11. ConfirmsBy(p, sub, S)
  BY <1>1, <1>3, <1>4, <1>6, <1>8 DEF ConfirmsBy, world
<1>12. sub \in SUBSET Files
  BY <1>4
<1> QED
  BY <1>5, <1>10, <1>11, <1>12

\* What a confirm without an answer changes.
LosesBy(p, sub) ==
  /\ sub \subseteq InRest(p) /\ sub \subseteq Files
  /\ pass[p].phase = "confirm" /\ pass'[p].phase = "confirm"
  /\ InBatch(p)' = InBatch(p)
  /\ InRest(p)' = InRest(p) \ sub
  /\ cloud' = cloud \/ cloud' = Landed(p, sub)
  /\ \A f \in Files : tracker'[p][f] = IF f \in sub THEN "failed"
                                       ELSE tracker[p][f]
  /\ prod' = prod /\ obj' = obj /\ UNCHANGED <<file, schema, cursor>>

\* failSubmitted.
LEMMA ConfirmFailsStep ==
  ASSUME Inv, NEW p \in Passes, ConfirmFails(p)
  PROVE  Inv' /\ \E sub \in SUBSET Files : LosesBy(p, sub)
<1>0. /\ Shape /\ Flow(p) /\ Accounted(p)
      /\ InRest(p) \subseteq InBatch(p) /\ InBatch(p) \subseteq Files
      /\ InBatch(p) = ToSet(pass[p].batch)
  BY BatchFacts
<1>1. /\ pass[p].phase = "confirm"
      /\ temps' = temps /\ obj' = obj /\ prod' = prod /\ leaked' = leaked
      /\ UNCHANGED <<world, cursor, health>>
  BY DEF ConfirmFails, health
<1>2. PICK n \in 1 .. Len(pass[p].rest) :
        LET sub == ToSet(SubSeq(pass[p].rest, 1, n))
        IN  /\ cloud' \in {cloud, Landed(p, sub)}
            /\ tracker' = Outcomes(p, sub, "failed")
            /\ pass' = [pass EXCEPT ![p].rest = SubSeq(@, n + 1, Len(@))]
  BY DEF ConfirmFails
<1> DEFINE sub == ToSet(SubSeq(pass[p].rest, 1, n))
           rest == SubSeq(pass[p].rest, n + 1, Len(pass[p].rest))
<1>3. /\ cloud' \in {cloud, Landed(p, sub)}
      /\ tracker' = Outcomes(p, sub, "failed")
  BY <1>2
<1>4. /\ sub \subseteq InRest(p) /\ sub \subseteq Files
      /\ ToSet(rest) = InRest(p) \ sub
      /\ Once(rest)
      /\ PassIs(p, "confirm", pass[p].batch, rest, pass[p].slots,
                pass[p].mode, pass[p].cancelled)
  BY <1>1, <1>2, Submitted
<1> HIDE DEF sub, rest
<1>5. cloud' \in [Files -> Rollups]
  BY <1>0, <1>3, <1>4, LandedOf DEF Shape
<1>6. /\ tracker' \in [Passes -> [Files -> Verdicts]]
      /\ OnlyOf(tracker, tracker', p)
      /\ \A f \in Files : tracker'[p][f] = IF f \in sub THEN "failed"
                                           ELSE tracker[p][f]
  BY <1>0, <1>3, OutcomesOf, Names, ShapeTables
<1>7. Shape'
  BY <1>0, <1>1, <1>4, <1>5, <1>6 DEF Shape, PassIs, world, health
<1>8. pass'[p].phase = "confirm" /\ pass'[p].cancelled = pass[p].cancelled
      /\ InBatch(p)' = InBatch(p) /\ InRest(p)' = ToSet(rest)
  BY <1>4 DEF PassIs, InBatch, InRest
<1>9. Accounted(p)'
  BY <1>0, <1>1, <1>4, <1>6, <1>8 DEF Accounted
<1>10. Inv'
  BY <1>0, <1>1, <1>4, <1>6, <1>7, <1>9, Ships
<1>11. LosesBy(p, sub) /\ sub \in SUBSET Files
  BY <1>1, <1>3, <1>4, <1>6, <1>8 DEF LosesBy, world
<1> QED
  BY <1>10, <1>11

\* Every element of the batch is submitted.
LEMMA ConfirmsDoneStep ==
  ASSUME Inv, NEW p \in Passes, ConfirmsDone(p)
  PROVE  /\ Inv' /\ pass[p].phase = "confirm"
         /\ ShipsBy(p, "advance", InBatch(p))
<1>0. /\ Shape /\ Flow(p) /\ Accounted(p)
      /\ pass[p].batch \in Seq(Files) /\ Once(pass[p].batch)
      /\ InBatch(p) = ToSet(pass[p].batch) /\ InRest(p) = ToSet(pass[p].rest)
  BY BatchFacts
<1>1. /\ pass[p].phase = "confirm" /\ pass[p].rest = <<>>
      /\ temps' = temps /\ obj' = obj /\ prod' = prod /\ tracker' = tracker
      /\ leaked' = leaked
      /\ UNCHANGED <<world, shipped, health>>
      /\ pass' = [pass EXCEPT ![p].phase = "advance", ![p].rest = pass[p].batch]
  BY DEF ConfirmsDone, health
<1>2. PassIs(p, "advance", pass[p].batch, pass[p].batch, pass[p].slots,
             pass[p].mode, pass[p].cancelled)
  BY <1>0, <1>1, PassFields, ShapeTables, Names DEF PassIs, PassStates
<1>3. Shape'
  BY <1>0, <1>1, <1>2, ShapeKept, ShapeTables DEF PassIs
<1>4. InRest(p) = {}
  BY <1>0, <1>1, Elements
<1>5. ASSUME InBatch(p)' = InBatch(p), InRest(p)' = ToSet(pass[p].batch)
      PROVE  Accounted(p)'
  <2>1. pass'[p].phase = "advance" /\ pass'[p].cancelled = pass[p].cancelled
    BY <1>2 DEF PassIs
  <2> QED
    BY <1>0, <1>1, <1>4, <1>5, <2>1 DEF Accounted
<1>6. OnlyOf(tracker, tracker', p)
  BY <1>1 DEF OnlyOf
<1> QED
  BY <1>0, <1>1, <1>2, <1>3, <1>5, <1>6, Ships

\* The head of what is left to advance is put behind.
LEMMA Passed ==
  ASSUME Inv, NEW p \in Passes, pass[p].phase = "advance", pass[p].rest # <<>>,
         pass' = [pass EXCEPT ![p].rest = Tail(@)]
  PROVE  LET f == Head(pass[p].rest)
             rest == Tail(pass[p].rest)
         IN  /\ f \in InRest(p) /\ f \in InBatch(p) /\ f \in Files
             /\ ToSet(rest) = InRest(p) \ {f}
             /\ Once(rest)
             /\ PassIs(p, "advance", pass[p].batch, rest, pass[p].slots,
                       pass[p].mode, pass[p].cancelled)
<1>0. /\ Shape /\ pass[p].rest \in Seq(Files) /\ Once(pass[p].rest)
      /\ InRest(p) = ToSet(pass[p].rest) /\ InRest(p) \subseteq InBatch(p)
      /\ InBatch(p) \subseteq Files
  BY BatchFacts
<1> DEFINE f == Head(pass[p].rest)
           rest == Tail(pass[p].rest)
<1>1. rest \in Seq(Files)
  BY <1>0
<1>2. f \in InRest(p) /\ InRest(p) = ToSet(rest) \cup {f}
  BY <1>0, Elements
<1>3. Once(rest) /\ f \notin ToSet(rest)
  BY <1>0, OnceProp
<1>4. pass' = [pass EXCEPT ![p].rest = rest]
  OBVIOUS
<1> HIDE DEF f, rest
<1>5. PassIs(p, pass[p].phase, pass[p].batch, rest, pass[p].slots,
             pass[p].mode, pass[p].cancelled)
  BY <1>0, <1>1, <1>4, PassMoves, ShapeTables
<1> QED
  BY <1>0, <1>2, <1>3, <1>5 DEF f, rest

\* What the advance of f leaves of the pass.
AdvancesBy(p, f) ==
  /\ f \in InRest(p) /\ f \in InBatch(p) /\ f \in Files
  /\ pass[p].phase = "advance" /\ pass'[p].phase = "advance"
  /\ InBatch(p)' = InBatch(p) /\ InRest(p)' = InRest(p) \ {f}
  /\ prod' = prod /\ obj' = obj /\ UNCHANGED <<file, schema, cloud>>
  /\ \/ tracker' = tracker /\ tracker[p][f] # "confirmed"
     \/ /\ tracker[p][f] = "confirmed"
        /\ tracker'[p][f] \in {"completed", "failed"}
        /\ OnlyAt(tracker, tracker', p, f)

\* advanceCompletedFiles for one file, and its failure.
LEMMA AdvanceStep ==
  ASSUME Inv, NEW p \in Passes, Advance(p) \/ AdvanceFails(p)
  PROVE  Inv' /\ AdvancesBy(p, Head(pass[p].rest))
<1>0. /\ Shape /\ Flow(p) /\ Accounted(p)
      /\ InRest(p) \subseteq InBatch(p) /\ InBatch(p) \subseteq Files
      /\ InBatch(p) = ToSet(pass[p].batch)
  BY BatchFacts
<1> DEFINE f == Head(pass[p].rest)
           rest == Tail(pass[p].rest)
<1>1. /\ pass[p].phase = "advance" /\ pass[p].rest # <<>>
      /\ temps' = temps /\ obj' = obj /\ prod' = prod /\ leaked' = leaked
      /\ UNCHANGED <<file, idle, schema, consent, writes, cloud, health>>
      /\ pass' = [pass EXCEPT ![p].rest = Tail(@)]
  BY DEF Advance, AdvanceFails, health, world, shipped
<1>2. /\ f \in InRest(p) /\ f \in InBatch(p) /\ f \in Files
      /\ ToSet(rest) = InRest(p) \ {f}
      /\ Once(rest)
      /\ PassIs(p, "advance", pass[p].batch, rest, pass[p].slots,
                pass[p].mode, pass[p].cancelled)
  BY <1>1, Passed
<1>3. \/ /\ tracker[p][f] = "confirmed"
         /\ \/ tracker' = [tracker EXCEPT ![p][f] = "completed"]
            \/ tracker' = [tracker EXCEPT ![p][f] = "failed"]
      \/ tracker[p][f] # "confirmed" /\ tracker' = tracker
  BY DEF Advance, AdvanceFails, Advances
<1>4. cursor' \in [Files -> Rollups] /\ overdue' \in [Files -> BOOLEAN]
  <2>1. /\ cursor \in [Files -> Rollups] /\ overdue \in [Files -> BOOLEAN]
        /\ schema \in 0 .. MaxSchema /\ obj[p][f] \in Objects
    BY <1>0, <1>2, Constants DEF Shape
  <2>2. [at |-> obj[p][f].stat, schema |-> schema] \in Rollups
    BY <2>1 DEF Rollups, Objects
  <2>3. CASE UNCHANGED <<cursor, overdue>>
    BY <2>1, <2>3
  <2>4. CASE /\ cursor' = [cursor EXCEPT ![f] = [at |-> obj[p][f].stat,
                                                 schema |-> schema]]
             /\ overdue' = [overdue EXCEPT ![f] = FALSE]
    BY <1>2, <2>1, <2>2, <2>4
  <2> QED
    BY <2>3, <2>4 DEF Advance, AdvanceFails, world, shipped
<1> HIDE DEF f, rest
<1>5. /\ tracker' \in [Passes -> [Files -> Verdicts]]
      /\ \/ tracker' = tracker /\ tracker[p][f] # "confirmed"
         \/ /\ tracker[p][f] = "confirmed"
            /\ tracker'[p][f] \in {"completed", "failed"}
      /\ OnlyAt(tracker, tracker', p, f)
  <2>1. CASE tracker[p][f] # "confirmed" /\ tracker' = tracker
    BY <1>0, <2>1, ShapeTables DEF OnlyAt
  <2>2. CASE /\ tracker[p][f] = "confirmed"
             /\ \/ tracker' = [tracker EXCEPT ![p][f] = "completed"]
                \/ tracker' = [tracker EXCEPT ![p][f] = "failed"]
    BY <1>0, <1>2, <2>2, TableMoves, Names
  <2> QED
    BY <1>3, <2>1, <2>2
<1>6. Shape'
  BY <1>0, <1>1, <1>2, <1>4, <1>5 DEF Shape, PassIs, health
<1>7. pass'[p].phase = "advance" /\ pass'[p].cancelled = pass[p].cancelled
      /\ InBatch(p)' = InBatch(p) /\ InRest(p)' = ToSet(rest)
  BY <1>2 DEF PassIs, InBatch, InRest
<1>8. \A g \in Files : g # f => tracker'[p][g] = tracker[p][g]
  BY <1>5 DEF OnlyAt
<1>9. Accounted(p)'
  BY <1>0, <1>1, <1>2, <1>5, <1>7, <1>8 DEF Accounted
<1>10. OnlyOf(tracker, tracker', p)
  BY <1>5 DEF OnlyAt, OnlyOf
<1>11. Inv'
  BY <1>0, <1>1, <1>2, <1>6, <1>9, <1>10, Ships
<1>12. AdvancesBy(p, f)
  BY <1>1, <1>2, <1>5, <1>7 DEF AdvancesBy
<1> QED
  BY <1>11, <1>12 DEF f

\* shipBatch returns.
LEMMA ShippedStep ==
  ASSUME Inv, NEW p \in Passes, Shipped(p)
  PROVE  /\ Inv' /\ ReleasesBy(p) /\ pass[p].phase = "advance"
         /\ InRest(p) = {} /\ tracker' = tracker
<1>0. /\ Shape /\ Flow(p) /\ Accounted(p) /\ InRest(p) = ToSet(pass[p].rest)
  BY BatchFacts
<1>1. /\ pass[p].phase = "advance" /\ pass[p].rest = <<>> /\ prod' = prod
      /\ UNCHANGED <<world, shipped, health>>
      /\ tracker' = tracker
      /\ Release(p)
  BY DEF Shipped
<1>2. InRest(p) = {}
  BY <1>0, <1>1 DEF ToSet
<1>3. pass'[p].phase = "run" /\ pass'[p].cancelled = pass[p].cancelled
  BY <1>0, <1>1, PassMoves, ShapeTables DEF PassIs
<1>4. ASSUME InBatch(p)' = {}, InRest(p)' = {}
      PROVE  Accounted(p)'
  BY <1>0, <1>1, <1>2, <1>3, <1>4 DEF Accounted
<1>5. OnlyOf(tracker, tracker', p)
  BY <1>1 DEF OnlyOf
<1> QED
  BY <1>0, <1>1, <1>2, <1>4, <1>5, ShapeTables, Releases

\* Run returns.
LEMMA MergeStep ==
  ASSUME Inv, NEW p \in Passes, Merge(p)
  PROVE  /\ Inv' /\ InBatch(p)' = {} /\ InRest(p)' = {}
         /\ \A f \in Files : prod'[p][f] = "none" /\ tracker'[p][f] = "none"
<1>0. Shape /\ Flow(p) /\ Owned
  BY DEF Inv
<1>1. /\ Produced(p) /\ pass[p].batch = <<>> /\ Forget(p)
      /\ UNCHANGED <<world, shipped, temps, leaked>>
  BY DEF Merge
<1>2. /\ PassIs(p, "off", <<>>, <<>>, 0, "daemon", FALSE)
      /\ prod' \in [Passes -> [Files -> Producing]]
      /\ \A f \in Files : prod'[p][f] = "none"
      /\ OnlyOf(prod, prod', p)
      /\ obj' \in [Passes -> [Files -> Objects]]
      /\ OnlyOf(obj, obj', p)
      /\ tracker' \in [Passes -> [Files -> Verdicts]]
      /\ \A f \in Files : tracker'[p][f] = "none"
      /\ OnlyOf(tracker, tracker', p)
  BY <1>0, <1>1, ForgetMoves
<1>3. streak' \in 0 .. Escalation /\ failing' \subseteq Files
  <2>0. streak \in 0 .. Escalation /\ failing \subseteq Files
    BY <1>0 DEF Shape
  <2>1. CASE UNCHANGED <<failing, streak>>
    BY <2>0, <2>1
  <2> DEFINE bad == {f \in Files : tracker[p][f] = "failed"}
             good == {f \in Files : tracker[p][f] = "completed"}
  <2>2. CASE Record(bad # {}, bad, good)
    <3>1. bad \in SUBSET Files
      OBVIOUS
    <3> HIDE DEF bad, good
    <3> QED
      BY <2>0, <2>2, <3>1, RecordShape
  <2> QED
    BY <2>1, <2>2 DEF Merge
<1>4. Shape'
  BY <1>0, <1>1, <1>2, <1>3 DEF Shape, PassIs, world, shipped
<1>5. Flow(p)' /\ InBatch(p)' = {} /\ InRest(p)' = {}
  BY <1>2, FlowBegins DEF PassIs
<1>6. Accounted(p)'
  BY <1>2 DEF Accounted
<1>7. leaked \/ \A g \in Files : <<p, g>> \in temps' => Held(p, g)'
  <2>1. leaked \/ \A g \in Files : <<p, g>> \in temps => Held(p, g)
    BY <1>0 DEF Owned, Held
  <2>2. InBatch(p) = {}
    BY <1>1 DEF InBatch, ToSet
  <2>3. \A g \in Files : ~ Held(p, g)
    BY <1>1, <2>2 DEF Held, Produced
  <2> QED
    BY <1>1, <2>1, <2>3
<1>8. /\ \A q \in Passes : q # p => pass'[q] = pass[q]
      /\ \A q \in Passes : q # p => prod'[q] = prod[q]
      /\ \A q \in Passes : q # p => tracker'[q] = tracker[q]
  BY <1>2 DEF OnlyOf, PassIs
<1> QED
  BY <1>1, <1>2, <1>4, <1>5, <1>6, <1>7, <1>8, Assemble

\* The process is killed.
LEMMA KillStep ==
  ASSUME Inv, NEW p \in Passes, Kill(p)
  PROVE  /\ Inv' /\ InBatch(p)' = {} /\ InRest(p)' = {}
         /\ \A f \in Files : prod'[p][f] = "none" /\ tracker'[p][f] = "none"
         /\ schema' >= schema
<1>0. Shape /\ Flow(p) /\ Owned
  BY DEF Inv
<1>1. /\ Forget(p) /\ streak' = 0 /\ failing' = {}
      /\ UNCHANGED <<file, idle, overdue, consent, writes, shipped, temps>>
      /\ leaked' = (leaked \/ pass[p].phase # "off")
  BY DEF Kill
<1>2. /\ PassIs(p, "off", <<>>, <<>>, 0, "daemon", FALSE)
      /\ prod' \in [Passes -> [Files -> Producing]]
      /\ \A f \in Files : prod'[p][f] = "none"
      /\ OnlyOf(prod, prod', p)
      /\ obj' \in [Passes -> [Files -> Objects]]
      /\ OnlyOf(obj, obj', p)
      /\ tracker' \in [Passes -> [Files -> Verdicts]]
      /\ \A f \in Files : tracker'[p][f] = "none"
      /\ OnlyOf(tracker, tracker', p)
  BY <1>0, <1>1, ForgetMoves
<1>3. schema' \in 1 .. MaxSchema /\ schema' >= schema
  <2>1. schema \in 1 .. MaxSchema /\ MaxSchema \in Nat
    BY <1>0, Constants DEF Shape
  <2>2. schema' \in schema .. MaxSchema \/ schema' = schema
    BY DEF Kill
  <2> QED
    BY <2>1, <2>2
<1>4. leaked \in BOOLEAN /\ leaked' \in BOOLEAN
  BY <1>0, <1>1 DEF Shape
<1>5. Shape'
  <2>1. 0 \in 0 .. Escalation
    BY Constants
  <2> QED
    BY <1>0, <1>1, <1>2, <1>3, <1>4, <2>1 DEF Shape, PassIs, shipped
<1>6. Flow(p)' /\ InBatch(p)' = {} /\ InRest(p)' = {}
  BY <1>2, FlowBegins DEF PassIs
<1>7. Accounted(p)'
  BY <1>2 DEF Accounted
<1>8. /\ \A q \in Passes : q # p => pass'[q] = pass[q]
      /\ \A q \in Passes : q # p => prod'[q] = prod[q]
      /\ \A q \in Passes : q # p => tracker'[q] = tracker[q]
  BY <1>2 DEF OnlyOf, PassIs
<1>9. ASSUME leaked' = leaked
      PROVE  Inv'
  <2>1. leaked \/ \A g \in Files : <<p, g>> \in temps => Held(p, g)
    BY <1>0 DEF Owned, Held
  <2>2. leaked \/ pass[p].phase = "off"
    <3>1. leaked = (leaked \/ pass[p].phase # "off")
      BY <1>1, <1>9, Zenon
    <3>2. CASE leaked = TRUE
      BY <3>2
    <3>3. CASE leaked = FALSE
      BY <3>1, <3>3
    <3> QED
      BY <1>4, <3>2, <3>3
  <2>3. pass[p].phase = "off" => \A g \in Files : ~ Held(p, g)
    <3>1. ASSUME pass[p].phase = "off" PROVE InBatch(p) = {}
      BY <1>0, <3>1 DEF Flow, InBatch, ToSet
    <3> QED
      BY <1>0, <3>1 DEF Flow, Held
  <2>4. leaked \/ \A g \in Files : <<p, g>> \in temps' => Held(p, g)'
    BY <1>1, <2>1, <2>2, <2>3
  <2> QED
    BY <1>1, <1>5, <1>6, <1>7, <1>8, <1>9, <2>4, Assemble
<1>10. ASSUME leaked'
       PROVE  Inv'
  <2>1. \A q \in Passes : Flow(q)' /\ Accounted(q)'
    BY <1>6, <1>7, <1>8, Untouched DEF Inv
  <2>2. Owned'
    BY <1>10 DEF Owned
  <2> QED
    BY <1>5, <2>1, <2>2 DEF Inv
<1> QED
  <2>1. Inv'
    BY <1>1, <1>4, <1>9, <1>10
  <2> QED
    BY <1>2, <1>3, <1>6, <2>1

\* A pass begins.
LEMMA StartStep ==
  ASSUME Inv, NEW p \in Passes, NEW mode \in Modes, Start(p, mode)
  PROVE  /\ Inv' /\ InBatch(p)' = {} /\ InRest(p)' = {}
         /\ \A f \in Files : /\ prod'[p][f] = "queued"
                             /\ tracker'[p][f] # "confirmed"
<1>0. Shape /\ Flow(p) /\ Owned
  BY DEF Inv
<1>1. /\ pass[p].phase = "off"
      /\ pass' = [pass EXCEPT ![p] =
                    [NoPass EXCEPT !.phase = "run", !.mode = mode]]
      /\ prod' = [prod EXCEPT ![p] = [f \in Files |-> "queued"]]
      /\ temps' = temps /\ obj' = obj /\ tracker' = tracker /\ leaked' = leaked
      /\ UNCHANGED <<world, shipped, streak, failing>>
  BY DEF Start
<1>2. PassIs(p, "run", <<>>, <<>>, 0, mode, FALSE)
  BY <1>0, <1>1, PassMoves, ShapeTables
<1>3. /\ prod' \in [Passes -> [Files -> Producing]]
      /\ \A f \in Files : prod'[p][f] = "queued"
      /\ OnlyOf(prod, prod', p)
  BY <1>0, <1>1, ShapeTables, Names DEF OnlyOf
<1>4. Shape'
  BY <1>0, <1>1, <1>2, <1>3 DEF PassIs, Shape, world, shipped
<1>5. Flow(p)' /\ InBatch(p)' = {} /\ InRest(p)' = {}
  BY <1>2, <1>3, FlowBegins DEF PassIs
<1>6. Accounted(p)' /\ \A f \in Files : tracker'[p][f] # "confirmed"
  <2>1. pass[p].batch = <<>> /\ ~ pass[p].cancelled
        /\ (\A f \in Files : prod[p][f] = "none") /\ InRest(p) \subseteq InBatch(p)
    BY <1>0, <1>1 DEF Flow
  <2>2. InBatch(p) = {} /\ InRest(p) = {}
    BY <2>1 DEF InBatch, ToSet
  <2>3. \A f \in Files : tracker[p][f] \notin {"pending", "confirmed"}
    BY <2>1, <2>2 DEF Inv, Accounted
  <2> QED
    BY <1>1, <2>3 DEF Accounted
<1>7. leaked \/ \A g \in Files : <<p, g>> \in temps' => Held(p, g)'
  <2>1. leaked \/ \A g \in Files : <<p, g>> \in temps => Held(p, g)
    BY <1>0 DEF Owned, Held
  <2>2. \A g \in Files : ~ Held(p, g)
    BY <1>0, <1>1 DEF Flow, Held, InBatch, ToSet
  <2> QED
    BY <1>1, <2>1, <2>2
<1>8. /\ \A q \in Passes : q # p => pass'[q] = pass[q]
      /\ \A q \in Passes : q # p => prod'[q] = prod[q]
      /\ \A q \in Passes : q # p => tracker'[q] = tracker[q]
  BY <1>1, <1>2, <1>3 DEF OnlyOf, PassIs
<1> QED
  BY <1>1, <1>3, <1>4, <1>5, <1>6, <1>7, <1>8, Assemble

\* The sessions, the account and the daemon outside a pass.
Outside ==
  \/ \E f \in Files : Write(f) \/ GoQuiet(f) \/ Defer(f)
  \/ SetConsent
  \/ \E p \in Passes : StartSkips(p) \/ StartFails(p)

\* What happens outside the passes touches none of them.
LEMMA OutsideStep ==
  ASSUME Inv, Outside
  PROVE  Inv' /\ UNCHANGED <<schema, shipped, temps, pass, prod, obj, tracker, leaked>>
<1>0. Shape
  BY DEF Inv
<1>1. UNCHANGED <<schema, shipped, temps, pass, prod, obj, tracker, leaked>>
  BY DEF Outside, Write, GoQuiet, Defer, SetConsent, StartSkips, StartFails,
         world, health
<1>2. Shape'
  <2>1. ASSUME NEW f \in Files, Write(f)
        PROVE  Shape'
    <3>1. /\ writes' \in 0 .. MaxWrites /\ writes' = writes + 1
          /\ file' \in [Files -> Versions]
          /\ \A g \in Files : file'[g] <= writes' + 1
      <4>1. /\ file' = [file EXCEPT ![f] = file[f] + 1] /\ writes' = writes + 1
            /\ writes < MaxWrites
        BY <2>1 DEF Write
      <4>2. /\ file \in [Files -> Versions] /\ writes \in 0 .. MaxWrites
            /\ \A g \in Files : file[g] <= writes + 1 /\ file[g] \in Int
        BY <1>0 DEF Shape, Versions
      <4>3. file[f] + 1 \in Versions
        BY <4>1, <4>2, Constants DEF Versions
      <4>4. \A g \in Files : file'[g] = file[g] \/ file'[g] = file[g] + 1
        BY <4>1, <4>2
      <4>5. \A g \in Files : file'[g] <= writes' + 1
        BY <4>1, <4>2, <4>4
      <4>6. file' \in [Files -> Versions]
        BY <4>1, <4>2, <4>3
      <4> QED
        BY <4>1, <4>2, <4>5, <4>6, Constants
    <3>2. idle' \in [Files -> BOOLEAN] /\ UNCHANGED <<overdue, consent, streak, failing>>
      BY <1>0, <2>1 DEF Write, Shape, health
    <3> QED
      BY <1>0, <1>1, <3>1, <3>2 DEF Shape, shipped
  <2>2. ASSUME NEW f \in Files, GoQuiet(f)
        PROVE  Shape'
    <3>1. idle' \in [Files -> BOOLEAN]
          /\ UNCHANGED <<file, overdue, writes, streak, failing>>
      BY <1>0, <2>2 DEF GoQuiet, Shape, health
    <3> QED
      BY <1>0, <1>1, <3>1 DEF Shape, shipped
  <2>3. ASSUME NEW f \in Files, Defer(f)
        PROVE  Shape'
    <3>1. overdue' \in [Files -> BOOLEAN]
          /\ UNCHANGED <<file, idle, writes, streak, failing>>
      BY <1>0, <2>3 DEF Defer, Shape, health
    <3> QED
      BY <1>0, <1>1, <3>1 DEF Shape, shipped
  <2>4. ASSUME SetConsent
        PROVE  Shape'
    <3>1. UNCHANGED <<file, idle, overdue, writes, streak, failing>>
      BY <2>4 DEF SetConsent, health
    <3> QED
      BY <1>0, <1>1, <3>1 DEF Shape, shipped
  <2>5. ASSUME NEW p \in Passes, StartSkips(p) \/ StartFails(p)
        PROVE  Shape'
    <3>1. UNCHANGED <<file, idle, overdue, writes>>
          /\ (Record(FALSE, {}, {}) \/ Record(TRUE, {}, {}))
      BY <2>5 DEF StartSkips, StartFails, world
    <3>2. streak' \in 0 .. Escalation /\ failing' \subseteq Files
      BY <1>0, <3>1, RecordShape DEF Shape
    <3> QED
      BY <1>0, <1>1, <3>1, <3>2 DEF Shape, shipped
  <2> QED
    BY <2>1, <2>2, <2>3, <2>4, <2>5 DEF Outside
<1>3. \A q \in Passes : Flow(q)' /\ Accounted(q)'
  BY <1>1, Untouched DEF Inv
<1>4. Owned'
  BY <1>1 DEF Inv, Owned, InBatch
<1> QED
  BY <1>1, <1>2, <1>3, <1>4 DEF Inv

\* The steps of the producer of a file.
OnFile(p, f) ==
  \/ Stat(p, f) \/ Parse(p, f) \/ Acquire(p, f) \/ Send(p, f) \/ GiveUp(p, f)
  \/ PrepareFails(p, f) \/ NotSpawned(p, f)

\* The steps of the consumer of a pass.
Consuming(p) ==
  \/ Presign(p) \/ PresignFails(p) \/ Put(p)
  \/ Confirm(p) \/ ConfirmFails(p) \/ ConfirmsDone(p)
  \/ Advance(p) \/ AdvanceFails(p) \/ Shipped(p)
  \/ Merge(p) \/ Cancel(p) \/ Kill(p)

\* The steps of the system, by who takes them.
LEMMA NextCases ==
  ASSUME Next
  PROVE  \/ Outside
         \/ \E p \in Passes, mode \in Modes : Start(p, mode)
         \/ \E p \in Passes, f \in Files : OnFile(p, f)
         \/ \E p \in Passes : Consuming(p)
BY Zenon DEF Next, Outside, OnFile, Consuming, Producer, Consumer, Failure

\* Every step keeps the invariant.
LEMMA InvStep ==
  ASSUME Inv, [Next]_vars
  PROVE  Inv'
<1>1. CASE UNCHANGED vars
  <2>1. /\ UNCHANGED <<file, idle, overdue, schema, consent, writes, cursor, cloud>>
        /\ UNCHANGED <<temps, pass, prod, obj, tracker, streak, failing, leaked>>
    BY <1>1 DEF vars, world, shipped, health
  <2>2. Shape'
    BY <2>1 DEF Inv, Shape
  <2>3. \A q \in Passes : Flow(q)' /\ Accounted(q)'
    BY <2>1, Untouched DEF Inv
  <2>4. Owned'
    BY <2>1 DEF Inv, Owned, InBatch
  <2> QED
    BY <2>2, <2>3, <2>4 DEF Inv
<1>2. CASE Outside
  BY <1>2, OutsideStep
<1>3. ASSUME NEW p \in Passes, NEW mode \in Modes, Start(p, mode)
      PROVE  Inv'
  BY <1>3, StartStep
<1>4. ASSUME NEW p \in Passes, NEW f \in Files, OnFile(p, f)
      PROVE  Inv'
  BY <1>4, StatStep, ParseStep, AcquireStep, SendStep, GiveUpStep, NotPreparedStep,
     Zenon DEF OnFile
<1>5. ASSUME NEW p \in Passes, Consuming(p)
      PROVE  Inv'
  BY <1>5, PresignStep, PresignFailsStep, PutStep, ConfirmStep, ConfirmFailsStep,
     ConfirmsDoneStep, AdvanceStep, ShippedStep, MergeStep, KillStep,
     Zenon DEF Consuming
<1> QED
  BY <1>1, <1>2, <1>3, <1>4, <1>5, NextCases, Zenon

\* No pass runs at first.
LEMMA InvInit ==
  ASSUME Init
  PROVE  Inv
<1>1. Shape
  <2>1. /\ 0 \in 0 .. MaxWrites /\ 1 \in 1 .. MaxSchema /\ 0 \in 0 .. Escalation
        /\ \A v \in {0, 1} : v \in Versions /\ v <= 1
        /\ Nothing \in Rollups /\ NoObject \in Objects
    BY Constants
  <2>2. NoPass \in PassStates
    BY DEF NoPass, PassStates, Phases, Modes
  <2>3. file \in [Files -> Versions] /\ \A f \in Files : file[f] <= writes + 1
    BY <2>1 DEF Init
  <2>4. /\ idle \in [Files -> BOOLEAN] /\ overdue \in [Files -> BOOLEAN]
        /\ cursor \in [Files -> Rollups] /\ cloud \in [Files -> Rollups]
    BY <2>1 DEF Init
  <2>5. /\ pass \in [Passes -> PassStates]
        /\ prod \in [Passes -> [Files -> Producing]]
        /\ obj \in [Passes -> [Files -> Objects]]
        /\ tracker \in [Passes -> [Files -> Verdicts]]
    BY <2>1, <2>2, Names DEF Init
  <2> QED
    BY <2>1, <2>3, <2>4, <2>5 DEF Init, Shape
<1>2. ASSUME NEW p \in Passes
      PROVE  /\ pass[p].batch = <<>> /\ pass[p].rest = <<>> /\ pass[p].slots = 0
             /\ pass[p].phase = "off" /\ ~ pass[p].cancelled
             /\ \A f \in Files : prod[p][f] = "none" /\ tracker[p][f] = "none"
  BY DEF Init, NoPass
<1>3. ASSUME NEW p \in Passes
      PROVE  Flow(p) /\ Accounted(p)
  <2>1. InBatch(p) = {} /\ InRest(p) = {} /\ Sending(p) = {}
    BY <1>2 DEF InBatch, InRest, Sending, ToSet
  <2>2. Once(<<>>) /\ Len(<<>>) = 0
    BY DEF Once
  <2>3. pass[p].slots = Len(pass[p].batch) + Cardinality(Sending(p))
    BY <1>2, <2>1, <2>2, FS_EmptySet
  <2>4. Len(pass[p].batch) <= BatchSize
    BY <1>2, <2>2, Constants
  <2>5. Flow(p)
    BY <1>2, <2>1, <2>2, <2>3, <2>4 DEF Flow
  <2>6. Accounted(p)
    BY <1>2 DEF Accounted
  <2> QED
    BY <2>5, <2>6
<1>4. Owned
  BY DEF Init, Owned
<1> QED
  BY <1>1, <1>3, <1>4 DEF Inv

-----------------------------------------------------------------------------
(* One pass at a time. Two passes that overlap confirm in any order, and the *)
(* older object can land last: nothing below holds once that has happened.   *)

\* No other pass runs.
Alone(p) == \A q \in Passes : q # p => pass[q].phase = "off"

\* Until two passes have run at once, at most one runs.
Solo ==
  /\ overlapped \in BOOLEAN
  /\ \/ overlapped
     \/ \A p, q \in Passes : p # q => pass[p].phase = "off" \/ pass[q].phase = "off"

\* A pass is over only by mergeTrackers or by the end of the process.
LEMMA PhaseStays ==
  ASSUME Inv, [Next]_vars, NEW p \in Passes,
         pass[p].phase # "off", pass'[p].phase = "off"
  PROVE  Merge(p) \/ Kill(p)
<1>0. pass \in [Passes -> PassStates]
  BY DEF Inv, Shape
<1>1. pass' # pass
  OBVIOUS
<1>2. ~ UNCHANGED vars /\ ~ Outside
  BY <1>1, OutsideStep DEF vars
<1>3. ASSUME NEW q \in Passes, NEW mode \in Modes, Start(q, mode)
      PROVE  FALSE
  BY <1>0, <1>3, PassMoves DEF Start, PassIs
<1>4. ASSUME NEW q \in Passes, NEW f \in Files, OnFile(q, f)
      PROVE  FALSE
  <2>1. CASE Stat(q, f) \/ Parse(q, f) \/ PrepareFails(q, f) \/ NotSpawned(q, f)
    BY <1>1, <2>1 DEF Stat, Parse, PrepareFails, NotSpawned
  <2>2. CASE Acquire(q, f)
    BY <1>0, <2>2 DEF Acquire, PassStates
  <2>3. CASE Send(q, f)
    BY <1>0, <2>3 DEF Send, PassStates
  <2>4. CASE GiveUp(q, f)
    <3> DEFINE n == IF prod[q][f] = "send" THEN pass[q].slots - 1
                    ELSE pass[q].slots
    <3>1. pass' = [pass EXCEPT ![q].slots = n]
      BY <2>4 DEF GiveUp
    <3> HIDE DEF n
    <3> QED
      BY <1>0, <3>1 DEF PassStates
  <2> QED
    BY <1>4, <2>1, <2>2, <2>3, <2>4, Zenon DEF OnFile
<1>5. ASSUME NEW q \in Passes, Consuming(q), ~ (q = p /\ (Merge(q) \/ Kill(q)))
      PROVE  FALSE
  <2>1. CASE Presign(q) \/ Cancel(q)
    BY <1>0, <2>1 DEF Presign, Step, Cancel, PassStates
  <2>2. CASE PresignFails(q) \/ Shipped(q)
    BY <1>0, <2>2, PassMoves DEF PresignFails, Shipped, PassIs
  <2>3. CASE Put(q)
    BY <1>0, <2>3 DEF Put, PassStates
  <2>4. CASE Confirm(q) \/ ConfirmFails(q)
    BY <1>0, <2>4 DEF Confirm, ConfirmFails, PassStates
  <2>5. CASE ConfirmsDone(q)
    BY <1>0, <2>5 DEF ConfirmsDone, PassStates
  <2>6. CASE Advance(q) \/ AdvanceFails(q)
    BY <1>0, <2>6 DEF Advance, AdvanceFails, PassStates
  <2>7. CASE q # p /\ (Merge(q) \/ Kill(q))
    BY <1>0, <2>7 DEF Merge, Kill, Forget
  <2> QED
    BY <1>5, <2>1, <2>2, <2>3, <2>4, <2>5, <2>6, <2>7, Zenon DEF Consuming
<1> QED
  BY <1>2, <1>3, <1>4, <1>5, NextCases, Zenon

\* A pass begins only in Run.
LEMMA PhaseStarts ==
  ASSUME Inv, [Next]_vars, NEW p \in Passes,
         pass[p].phase = "off", pass'[p].phase # "off"
  PROVE  \E mode \in Modes : Start(p, mode)
<1>0. pass \in [Passes -> PassStates]
  BY DEF Inv, Shape
<1>1. pass' # pass
  OBVIOUS
<1>2. ~ UNCHANGED vars /\ ~ Outside
  BY <1>1, OutsideStep DEF vars
<1>3. ASSUME NEW q \in Passes, NEW mode \in Modes, Start(q, mode), q # p
      PROVE  FALSE
  <2>1. pass'[p] = pass[p]
    BY <1>0, <1>3 DEF Start
  <2> QED
    BY <2>1
<1>4. ASSUME NEW q \in Passes, NEW f \in Files, OnFile(q, f)
      PROVE  FALSE
  <2>1. CASE Stat(q, f) \/ Parse(q, f) \/ PrepareFails(q, f) \/ NotSpawned(q, f)
    BY <1>1, <2>1 DEF Stat, Parse, PrepareFails, NotSpawned
  <2>2. CASE Acquire(q, f)
    BY <1>0, <2>2 DEF Acquire, PassStates
  <2>3. CASE Send(q, f)
    BY <1>0, <2>3 DEF Send, PassStates
  <2>4. CASE GiveUp(q, f)
    <3> DEFINE n == IF prod[q][f] = "send" THEN pass[q].slots - 1
                    ELSE pass[q].slots
    <3>1. pass' = [pass EXCEPT ![q].slots = n]
      BY <2>4 DEF GiveUp
    <3> HIDE DEF n
    <3> QED
      BY <1>0, <3>1 DEF PassStates
  <2> QED
    BY <1>4, <2>1, <2>2, <2>3, <2>4, Zenon DEF OnFile
<1>5. ASSUME NEW q \in Passes, Consuming(q)
      PROVE  FALSE
  <2>1. CASE Presign(q) \/ Cancel(q)
    BY <1>0, <2>1 DEF Presign, Assembled, Step, Cancel, PassStates
  <2>2. CASE PresignFails(q)
    BY <1>0, <2>2, PassMoves DEF PresignFails, Assembled, PassIs
  <2>3. CASE Shipped(q)
    BY <1>0, <2>3, PassMoves DEF Shipped, PassIs
  <2>4. CASE Put(q)
    BY <1>0, <2>4 DEF Put, PassStates
  <2>5. CASE Confirm(q) \/ ConfirmFails(q)
    BY <1>0, <2>5 DEF Confirm, ConfirmFails, PassStates
  <2>6. CASE ConfirmsDone(q)
    BY <1>0, <2>6 DEF ConfirmsDone, PassStates
  <2>7. CASE Advance(q) \/ AdvanceFails(q)
    BY <1>0, <2>7 DEF Advance, AdvanceFails, PassStates
  <2>8. CASE Merge(q) \/ Kill(q)
    BY <1>0, <2>8 DEF Merge, Kill, Forget, NoPass
  <2> QED
    BY <1>5, <2>1, <2>2, <2>3, <2>4, <2>5, <2>6, <2>7, <2>8, Zenon DEF Consuming
<1> QED
  BY <1>2, <1>3, <1>4, <1>5, NextCases, Zenon

\* overlapped is a record of the starts.
LEMMA SoloStep ==
  ASSUME Inv, Solo, [Next]_vars
  PROVE  Solo' /\ (overlapped => overlapped')
<1>1. CASE \E p \in Passes, mode \in Modes : Start(p, mode)
  <2>1. PICK p \in Passes, mode \in Modes : Start(p, mode)
    BY <1>1
  <2>2. /\ overlapped' = (overlapped \/ \E q \in Passes \ {p} : pass[q].phase # "off")
        /\ \A q \in Passes : q # p => pass'[q] = pass[q]
    BY <2>1 DEF Start, Inv, Shape
  <2>3. overlapped' \in BOOLEAN /\ (overlapped => overlapped')
    BY <2>2 DEF Solo
  <2>4. ASSUME ~ overlapped', NEW q \in Passes, NEW r \in Passes, q # r
        PROVE  pass'[q].phase = "off" \/ pass'[r].phase = "off"
    <3>1. \A x \in Passes \ {p} : pass[x].phase = "off"
      BY <2>2, <2>4, Zenon
    <3>2. \A x \in Passes : x # p => pass'[x].phase = "off"
      BY <2>2, <3>1
    <3> QED
      BY <2>4, <3>2
  <2> QED
    BY <2>3, <2>4 DEF Solo
<1>2. CASE ~ \E p \in Passes, mode \in Modes : Start(p, mode)
  <2>1. overlapped' = overlapped
    <3>1. CASE UNCHANGED vars
      BY <3>1 DEF vars, health
    <3>2. CASE Outside
      BY <3>2 DEF Outside, Write, GoQuiet, Defer, SetConsent, StartSkips,
                  StartFails, health
    <3>3. ASSUME NEW p \in Passes, NEW f \in Files, OnFile(p, f)
          PROVE  overlapped' = overlapped
      BY <3>3 DEF OnFile, Stat, Parse, Acquire, Send, GiveUp, PrepareFails,
                  NotSpawned, health
    <3>4. ASSUME NEW p \in Passes, Consuming(p)
          PROVE  overlapped' = overlapped
      BY <3>4 DEF Consuming, Presign, PresignFails, Put, Confirm, ConfirmFails,
                  ConfirmsDone, Advance, AdvanceFails, Shipped, Merge, Cancel,
                  Kill, health
    <3> QED
      BY <1>2, <3>1, <3>2, <3>3, <3>4, NextCases, Zenon
  <2>2. \A q \in Passes : pass[q].phase = "off" => pass'[q].phase = "off"
    BY <1>2, PhaseStarts
  <2> QED
    BY <2>1, <2>2 DEF Solo
<1> QED
  BY <1>1, <1>2

\* What has to be shown of the one pass that runs: the others hold nothing.
LEMMA AheadAlone ==
  ASSUME Inv', NEW p \in Passes, Alone(p)',
         \A f \in Files : Behind(f)' /\ AheadOf(p, f)'
  PROVE  Ahead'
<1>1. ASSUME NEW q \in Passes, NEW f \in Files, q # p
      PROVE  AheadOf(q, f)'
  <2>1. pass'[q].phase = "off"
    BY <1>1 DEF Alone
  <2>2. Flow(q)' /\ Accounted(q)'
    BY DEF Inv
  <2>3. /\ pass'[q].batch = <<>> /\ ~ pass'[q].cancelled /\ prod'[q][f] = "none"
        /\ InRest(q)' \subseteq InBatch(q)'
    BY <2>1, <2>2 DEF Flow
  <2>4. InBatch(q)' = {} /\ InRest(q)' = {}
    BY <2>3 DEF InBatch, ToSet
  <2>5. tracker'[q][f] # "confirmed" /\ ~ Unsubmitted(q, f)'
    BY <2>1, <2>2, <2>3, <2>4 DEF Accounted, Unsubmitted
  <2> QED
    BY <2>3, <2>5 DEF AheadOf
<1> QED
  BY <1>1 DEF Ahead

Recorded == Ahead /\ CursorCovered

\* The numbers that are compared.
LEMMA Numbers ==
  ASSUME Shape
  PROVE  /\ \A f \in Files :
              /\ cloud[f].at \in Int /\ cloud[f].schema \in Int
              /\ cursor[f].at \in Int /\ cursor[f].schema \in Int
              /\ file[f] \in Int
         /\ schema \in Int
         /\ \A p \in Passes, f \in Files :
              obj[p][f].stat \in Int /\ obj[p][f].content \in Int
<1>1. /\ cloud \in [Files -> Rollups] /\ cursor \in [Files -> Rollups]
      /\ file \in [Files -> Versions] /\ schema \in 1 .. MaxSchema
      /\ obj \in [Passes -> [Files -> Objects]]
  BY DEF Shape
<1>2. \A f \in Files : cloud[f] \in Rollups /\ cursor[f] \in Rollups
                         /\ file[f] \in Versions
  BY <1>1
<1>3. \A r \in Rollups : r.at \in Int /\ r.schema \in Int
  BY Constants DEF Rollups, Versions
<1>4. \A p \in Passes, f \in Files : obj[p][f] \in Objects
  BY <1>1
<1>5. \A o \in Objects : o.stat \in Int /\ o.content \in Int
  BY Constants DEF Objects, Versions
<1>6. \A v \in Versions : v \in Int
  BY Constants DEF Versions
<1> QED
  BY <1>1, <1>2, <1>3, <1>4, <1>5, <1>6

\* The same after a step.
LEMMA NumbersNext ==
  ASSUME Shape'
  PROVE  /\ \A f \in Files :
              cloud'[f].at \in Int /\ cloud'[f].schema \in Int /\ file'[f] \in Int
         /\ schema' \in Int
<1>1. /\ cloud' \in [Files -> Rollups] /\ file' \in [Files -> Versions]
      /\ schema' \in 1 .. MaxSchema
  BY DEF Shape
<1>2. \A f \in Files : cloud'[f] \in Rollups /\ file'[f] \in Versions
  BY <1>1
<1>3. \A r \in Rollups : r.at \in Int /\ r.schema \in Int
  BY Constants DEF Rollups, Versions
<1>4. \A v \in Versions : v \in Int
  BY Constants DEF Versions
<1> QED
  BY <1>1, <1>2, <1>3, <1>4

\* A step that leaves cloud, cursors and schema alone, and submits and confirms
\* nothing.
LEMMA RecordedKept ==
  ASSUME Inv, Inv', Recorded, NEW p \in Passes, Alone(p)',
         cloud' = cloud, cursor' = cursor, schema' = schema,
         \A f \in Files : file[f] <= file'[f],
         \A f \in Files : prod'[p][f] = "parse" =>
           prod[p][f] = "parse" /\ obj'[p][f] = obj[p][f],
         \A f \in Files : Unsubmitted(p, f)' =>
           Unsubmitted(p, f) /\ obj'[p][f] = obj[p][f],
         \A f \in Files : tracker'[p][f] = "confirmed" =>
           /\ tracker[p][f] = "confirmed"
           /\ Unrecorded(p, f) => Unrecorded(p, f)' /\ obj'[p][f] = obj[p][f]
  PROVE  Recorded'
<1>0. Shape /\ Shape' /\ Ahead
  BY DEF Inv, Recorded
<1>1. ASSUME NEW f \in Files
      PROVE  Behind(f)' /\ AheadOf(p, f)'
  <2>1. /\ cloud[f].at \in Int /\ cloud[f].schema \in Int
        /\ file[f] \in Int /\ file'[f] \in Int
        /\ obj[p][f].stat \in Int /\ obj[p][f].content \in Int
    BY <1>0, Numbers, NumbersNext
  <2>2. Behind(f) /\ AheadOf(p, f)
    BY <1>0 DEF Ahead
  <2>3. file[f] <= file'[f]
    OBVIOUS
  <2>4. Behind(f)'
    BY <2>1, <2>2, <2>3 DEF Behind
  <2>5. ASSUME prod'[p][f] = "parse" \/ Unsubmitted(p, f)'
        PROVE  (cloud[f].at <= obj[p][f].stat /\ obj[p][f].stat <= file[f])'
    <3>1. /\ obj'[p][f] = obj[p][f]
          /\ cloud[f].at <= obj[p][f].stat /\ obj[p][f].stat <= file[f]
      BY <2>2, <2>5 DEF AheadOf
    <3> QED
      BY <2>1, <2>3, <3>1
  <2>6. ASSUME Unsubmitted(p, f)'
        PROVE  (obj[p][f].stat <= obj[p][f].content /\ obj[p][f].content <= file[f])'
    <3>1. /\ obj'[p][f] = obj[p][f]
          /\ obj[p][f].stat <= obj[p][f].content /\ obj[p][f].content <= file[f]
      BY <2>2, <2>6 DEF AheadOf
    <3> QED
      BY <2>1, <2>3, <3>1
  <2>7. ASSUME tracker'[p][f] = "confirmed"
        PROVE  (/\ Unrecorded(p, f)
                /\ obj[p][f].stat <= cloud[f].at
                /\ cloud[f].schema = schema)'
    <3>1. /\ Unrecorded(p, f)
          /\ obj[p][f].stat <= cloud[f].at /\ cloud[f].schema = schema
      BY <2>2, <2>7 DEF AheadOf
    <3>2. Unrecorded(p, f)' /\ obj'[p][f] = obj[p][f]
      BY <2>7, <3>1
    <3> QED
      BY <3>1, <3>2
  <2> QED
    BY <2>4, <2>5, <2>6, <2>7 DEF AheadOf
<1>2. Ahead'
  BY <1>1, AheadAlone
<1>3. CursorCovered'
  BY DEF Recorded, CursorCovered
<1> QED
  BY <1>2, <1>3 DEF Recorded

\* An answered confirm, or one whose answer is lost: the objects of A land.
LEMMA RecordedLands ==
  ASSUME Inv, Inv', Recorded, NEW p \in Passes, Alone(p)', NEW sub, NEW A,
         A \subseteq sub, sub \subseteq InRest(p), sub \subseteq Files,
         pass[p].phase = "confirm", pass'[p].phase = "confirm",
         InBatch(p)' = InBatch(p), InRest(p)' = InRest(p) \ sub,
         cloud' = cloud \/ cloud' = Landed(p, A),
         prod' = prod, obj' = obj, UNCHANGED <<file, schema, cursor>>,
         \A f \in Files : tracker'[p][f] = "confirmed" =>
           \/ f \in A /\ cloud' = Landed(p, A)
           \/ tracker[p][f] = "confirmed"
  PROVE  Recorded'
<1>0. Shape /\ Shape' /\ Ahead /\ Flow(p)
  BY DEF Inv, Recorded
<1>1. /\ InRest(p) \subseteq InBatch(p)
      /\ \A f \in InBatch(p) : prod[p][f] = "done"
  BY <1>0 DEF Flow
<1>2. ASSUME NEW f \in Files
      PROVE  /\ Behind(f)' /\ AheadOf(p, f)'
             /\ cloud[f].at <= cloud'[f].at /\ cloud[f].schema <= cloud'[f].schema
  <2>1. /\ cloud[f].at \in Int /\ cloud[f].schema \in Int /\ schema \in Int
        /\ file[f] \in Int
        /\ obj[p][f].stat \in Int /\ obj[p][f].content \in Int
    BY <1>0, Numbers, NumbersNext
  <2>2. Behind(f) /\ AheadOf(p, f)
    BY <1>0 DEF Ahead
  <2>3. f \in A => Unsubmitted(p, f) /\ ~ Unsubmitted(p, f)' /\ prod'[p][f] # "parse"
    BY <1>1 DEF Unsubmitted
  <2>4. f \notin sub => (Unsubmitted(p, f)' <=> Unsubmitted(p, f))
    BY DEF Unsubmitted
  <2>5. f \in sub => ~ Unsubmitted(p, f)' /\ prod'[p][f] # "parse"
    BY <1>1 DEF Unsubmitted
  <2>6. Unrecorded(p, f) => f \notin sub /\ Unrecorded(p, f)'
    BY DEF Unrecorded
  <2>7. CASE f \in A /\ cloud' = Landed(p, A)
    <3>1. cloud'[f].at = obj[p][f].content /\ cloud'[f].schema = schema
      BY <1>0, <2>7, LandedOf
    <3>2. /\ cloud[f].at <= obj[p][f].stat
          /\ obj[p][f].stat <= obj[p][f].content /\ obj[p][f].content <= file[f]
      BY <2>2, <2>3, <2>7 DEF AheadOf
    <3>3. Unrecorded(p, f)'
      BY <1>1, <2>7 DEF Unrecorded
    <3>4. Behind(f)' /\ cloud[f].at <= cloud'[f].at
          /\ cloud[f].schema <= cloud'[f].schema
      BY <2>1, <2>2, <3>1, <3>2 DEF Behind
    <3>5. AheadOf(p, f)'
      BY <2>1, <2>3, <2>7, <3>1, <3>2, <3>3 DEF AheadOf
    <3> QED
      BY <3>4, <3>5
  <2>8. CASE ~ (f \in A /\ cloud' = Landed(p, A))
    <3>1. cloud'[f] = cloud[f]
      BY <1>0, <2>8, LandedOf
    <3>2. tracker'[p][f] = "confirmed" => tracker[p][f] = "confirmed"
      BY <2>8
    <3>3. Behind(f)'
      BY <2>2, <3>1 DEF Behind
    <3>4. AheadOf(p, f)'
      BY <2>2, <2>4, <2>5, <2>6, <3>1, <3>2 DEF AheadOf
    <3> QED
      BY <2>1, <3>1, <3>3, <3>4
  <2> QED
    BY <2>7, <2>8
<1>3. Ahead'
  BY <1>2, AheadAlone
<1>4. CursorCovered'
  <2>1. \A f \in Files : cursor[f].at <= cloud[f].at
                           /\ cursor[f].schema <= cloud[f].schema
    BY DEF Recorded, CursorCovered
  <2>2. \A f \in Files : /\ cloud[f].at \in Int /\ cloud[f].schema \in Int
                         /\ cursor[f].at \in Int /\ cursor[f].schema \in Int
                         /\ cloud'[f].at \in Int /\ cloud'[f].schema \in Int
    BY <1>0, Numbers, NumbersNext
  <2> QED
    BY <1>2, <2>1, <2>2 DEF CursorCovered
<1> QED
  BY <1>3, <1>4 DEF Recorded

\* A step after which the pass has nothing to submit or to record.
LEMMA RecordedRests ==
  ASSUME Inv, Inv', Recorded, NEW p \in Passes, Alone(p)',
         cloud' = cloud, cursor' = cursor, schema <= schema', file' = file,
         InBatch(p)' = {}, InRest(p)' = {},
         \A f \in Files : prod'[p][f] \in {"none", "queued"}
                            /\ tracker'[p][f] # "confirmed"
  PROVE  Recorded'
<1>0. Shape /\ Shape' /\ Ahead
  BY DEF Inv, Recorded
<1>1. ASSUME NEW f \in Files
      PROVE  Behind(f)' /\ AheadOf(p, f)'
  <2>1. cloud[f].schema \in Int /\ schema \in Int /\ schema' \in Int
    BY <1>0, Numbers, NumbersNext
  <2>2. Behind(f)
    BY <1>0 DEF Ahead
  <2>3. Behind(f)'
    BY <2>1, <2>2 DEF Behind
  <2>4. ~ Unsubmitted(p, f)' /\ prod'[p][f] # "parse" /\ tracker'[p][f] # "confirmed"
    BY DEF Unsubmitted
  <2>5. AheadOf(p, f)'
    BY <2>4 DEF AheadOf
  <2> QED
    BY <2>3, <2>5
<1>2. Ahead'
  BY <1>1, AheadAlone
<1>3. CursorCovered'
  BY DEF Recorded, CursorCovered
<1> QED
  BY <1>2, <1>3 DEF Recorded

\* A producer notes the version at the Stat, then the one it parsed.
LEMMA RecordedProduces ==
  ASSUME Inv, Inv', Recorded, NEW p \in Passes, Alone(p)', NEW f \in Files,
         ProducesBy(p, f), OnlyAt(obj, obj', p, f),
         tracker'[p][f] = "confirmed" => tracker[p][f] = "confirmed",
         prod'[p][f] = "parse" => obj'[p][f].stat = file[f],
         prod'[p][f] \in {"acquire", "send"} =>
           \/ /\ prod[p][f] = "parse"
              /\ obj'[p][f].stat = obj[p][f].stat
              /\ obj[p][f].stat <= obj'[p][f].content
              /\ obj'[p][f].content <= file[f]
           \/ prod[p][f] \in {"acquire", "send"} /\ obj'[p][f] = obj[p][f]
  PROVE  Recorded'
<1>0. Shape /\ Shape' /\ Ahead /\ Flow(p)
  BY DEF Inv, Recorded
<1>1. /\ f \notin InBatch(p) /\ f \notin InRest(p)
      /\ InBatch(p)' = InBatch(p) /\ InRest(p)' = InRest(p)
      /\ pass'[p].phase = pass[p].phase
      /\ cloud' = cloud /\ cursor' = cursor /\ schema' = schema /\ file' = file
  BY <1>0 DEF ProducesBy, Flow, world, shipped
<1>2. ASSUME NEW g \in Files, g # f
      PROVE  AheadOf(p, g)'
  <2>1. /\ prod'[p][g] = prod[p][g] /\ tracker'[p][g] = tracker[p][g]
        /\ obj'[p][g] = obj[p][g]
    BY <1>2 DEF ProducesBy, OnlyAt
  <2>2. /\ Unsubmitted(p, g)' <=> Unsubmitted(p, g)
        /\ Unrecorded(p, g)' <=> Unrecorded(p, g)
    BY <1>1, <2>1 DEF Unsubmitted, Unrecorded
  <2>3. AheadOf(p, g)
    BY <1>0 DEF Ahead
  <2> QED
    BY <1>1, <2>1, <2>2, <2>3 DEF AheadOf
<1>3. AheadOf(p, f)'
  <2>1. AheadOf(p, f) /\ Behind(f)
    BY <1>0 DEF Ahead
  <2>2. tracker'[p][f] # "confirmed"
    BY <1>1, <2>1 DEF AheadOf, Unrecorded
  <2>3. Unsubmitted(p, f)' => prod'[p][f] \in {"acquire", "send"}
    BY <1>1 DEF Unsubmitted
  <2>4. cloud[f].at \in Int /\ file[f] \in Int /\ obj[p][f].stat \in Int
    BY <1>0, Numbers
  <2>5. CASE prod'[p][f] = "parse"
    <3>1. cloud[f].at <= file[f] /\ ~ Unsubmitted(p, f)'
      BY <2>1, <2>3, <2>5 DEF Behind
    <3> QED
      BY <1>1, <2>2, <2>4, <2>5, <3>1 DEF AheadOf
  <2>6. CASE prod'[p][f] \in {"acquire", "send"} /\ prod[p][f] = "parse"
    <3>1. cloud[f].at <= obj[p][f].stat /\ obj[p][f].stat <= file[f]
      BY <2>1, <2>6 DEF AheadOf
    <3>2. /\ obj'[p][f].stat = obj[p][f].stat
          /\ obj[p][f].stat <= obj'[p][f].content
          /\ obj'[p][f].content <= file[f]
      BY <2>6
    <3> QED
      BY <1>1, <2>2, <3>1, <3>2 DEF AheadOf
  <2>7. CASE prod'[p][f] \in {"acquire", "send"} /\ prod[p][f] # "parse"
    <3>1. prod[p][f] \in {"acquire", "send"} /\ obj'[p][f] = obj[p][f]
      BY <2>7
    <3>2. Unsubmitted(p, f)
      BY <3>1 DEF Unsubmitted
    <3> QED
      BY <1>1, <2>1, <2>2, <3>1, <3>2 DEF AheadOf
  <2>8. CASE prod'[p][f] \notin {"parse", "acquire", "send"}
    BY <2>2, <2>3, <2>8 DEF AheadOf
  <2> QED
    BY <2>5, <2>6, <2>7, <2>8
<1>4. \A g \in Files : Behind(g)'
  BY <1>0, <1>1 DEF Ahead, Behind
<1>5. Ahead'
  BY <1>2, <1>3, <1>4, AheadAlone
<1>6. CursorCovered'
  BY <1>1 DEF Recorded, CursorCovered
<1> QED
  BY <1>5, <1>6 DEF Recorded

\* The steps of a producer.
LEMMA RecordedOnFile ==
  ASSUME Inv, Recorded, NEW p \in Passes, Alone(p)', NEW f \in Files, OnFile(p, f)
  PROVE  Recorded'
<1>0. Shape
  BY DEF Inv
<1>1. CASE Stat(p, f)
  <2>1. Inv' /\ ProducesBy(p, f)
    BY <1>1, StatStep
  <2>2. file[f] \in Versions
    BY <1>0 DEF Shape
  <2>3. OnlyAt(obj, obj', p, f)
    <3>1. CASE obj' = obj
      BY <3>1 DEF OnlyAt
    <3>2. CASE obj' = [obj EXCEPT ![p][f].stat = file[f]]
      BY <1>0, <2>2, <3>2, SetObject, ShapeTables
    <3> QED
      BY <1>1, <3>1, <3>2 DEF Stat
  <2>4. prod'[p][f] = "parse" => obj'[p][f].stat = file[f]
    <3>1. CASE Produce(p, f, "done")
      BY <1>0, <3>1, TableMoves, Names
    <3>2. CASE obj' = [obj EXCEPT ![p][f].stat = file[f]]
      BY <1>0, <2>2, <3>2, SetObject, ShapeTables
    <3> QED
      BY <1>1, <3>1, <3>2 DEF Stat
  <2>5. prod'[p][f] \notin {"acquire", "send"}
    BY <1>0, <1>1, TableMoves, Names DEF Stat
  <2>6. tracker'[p][f] = "confirmed" => tracker[p][f] = "confirmed"
    <3>1. CASE tracker' = tracker
      BY <3>1
    <3>2. CASE tracker' = [tracker EXCEPT ![p][f] = "failed"]
      BY <1>0, <3>2, TableMoves, Names
    <3> QED
      BY <1>1, <3>1, <3>2 DEF Stat
  <2> QED
    BY <2>1, <2>3, <2>4, <2>5, <2>6, RecordedProduces
<1>2. CASE Parse(p, f)
  <2>1. Inv' /\ ProducesBy(p, f)
    BY <1>2, ParseStep
  <2>2. PICK v \in obj[p][f].stat .. file[f] :
          IF v = 0
          THEN /\ Produce(p, f, "done")
               /\ UNCHANGED <<obj, tracker, temps>>
          ELSE /\ Produce(p, f, "acquire")
               /\ obj' = [obj EXCEPT ![p][f].content = v]
               /\ tracker' = [tracker EXCEPT ![p][f] = "pending"]
               /\ temps' = temps \cup {<<p, f>>}
    BY <1>2 DEF Parse
  <2>3. prod[p][f] = "parse"
    BY <1>2 DEF Parse
  <2>4. CASE v = 0
    <3>1. prod'[p][f] = "done" /\ obj' = obj /\ tracker' = tracker
      BY <1>0, <2>2, <2>4, TableMoves, Names
    <3>2. OnlyAt(obj, obj', p, f)
      BY <3>1 DEF OnlyAt
    <3> QED
      BY <2>1, <3>1, <3>2, RecordedProduces
  <2>5. CASE v # 0
    <3>1. prod'[p][f] = "acquire" /\ tracker'[p][f] = "pending"
      BY <1>0, <2>2, <2>5, TableMoves, Names
    <3>2. obj[p][f].stat \in Versions /\ file[f] \in Versions
      <4>1. obj[p][f] \in Objects /\ file[f] \in Versions
        BY <1>0 DEF Shape
      <4> QED
        BY <4>1 DEF Objects
    <3>3. v \in Versions /\ obj[p][f].stat <= v /\ v <= file[f]
      BY <3>2, Constants DEF Versions
    <3>4. /\ obj'[p][f].stat = obj[p][f].stat /\ obj'[p][f].content = v
          /\ OnlyAt(obj, obj', p, f)
      <4>1. obj' = [obj EXCEPT ![p][f].content = v]
        BY <2>2, <2>5
      <4>2. v \in Versions
        BY <3>3
      <4> QED
        BY <1>0, <4>1, <4>2, SetObject, ShapeTables
    <3> QED
      BY <2>1, <2>3, <3>1, <3>3, <3>4, RecordedProduces
  <2> QED
    BY <2>4, <2>5
<1>3. CASE PrepareFails(p, f) \/ NotSpawned(p, f)
  <2>1. Inv' /\ ProducesBy(p, f)
    BY <1>3, NotPreparedStep
  <2>2. prod'[p][f] = "done" /\ obj' = obj
    BY <1>0, <1>3, TableMoves, Names DEF PrepareFails, NotSpawned
  <2>3. tracker'[p][f] = "confirmed" => tracker[p][f] = "confirmed"
    <3>1. CASE tracker' = tracker
      BY <3>1
    <3>2. CASE tracker' = [tracker EXCEPT ![p][f] = "failed"]
      BY <1>0, <3>2, TableMoves, Names
    <3> QED
      BY <1>3, <3>1, <3>2 DEF PrepareFails, NotSpawned
  <2>4. OnlyAt(obj, obj', p, f)
    BY <2>2 DEF OnlyAt
  <2> QED
    BY <2>1, <2>2, <2>3, <2>4, RecordedProduces
<1>4. CASE Acquire(p, f)
  <2>1. Inv' /\ ProducesBy(p, f)
    BY <1>4, AcquireStep
  <2>2. /\ prod'[p][f] = "send" /\ prod[p][f] = "acquire"
        /\ obj' = obj /\ tracker' = tracker
    BY <1>0, <1>4, TableMoves, Names DEF Acquire
  <2>3. OnlyAt(obj, obj', p, f)
    BY <2>2 DEF OnlyAt
  <2> QED
    BY <2>1, <2>2, <2>3, RecordedProduces
<1>5. CASE GiveUp(p, f)
  <2>1. Inv' /\ ProducesBy(p, f)
    BY <1>5, GiveUpStep
  <2>2. prod'[p][f] = "done" /\ tracker' = tracker
    BY <1>0, <1>5, TableMoves, Names DEF GiveUp
  <2>3. OnlyAt(obj, obj', p, f)
    BY <1>0, <1>5, TableMoves DEF GiveUp
  <2> QED
    BY <2>1, <2>2, <2>3, RecordedProduces
<1>6. CASE Send(p, f)
  <2>1. /\ Inv'
        /\ InBatch(p)' = InBatch(p) \cup {f} /\ InRest(p)' = InRest(p)
        /\ pass[p].phase = "run" /\ pass'[p].phase = "run"
        /\ OnlyAt(prod, prod', p, f) /\ prod[p][f] = "send" /\ prod'[p][f] = "done"
    BY <1>6, SendStep
  <2>2. obj' = obj /\ tracker' = tracker /\ cloud' = cloud /\ cursor' = cursor
        /\ schema' = schema /\ file' = file
    BY <1>6 DEF Send, world, shipped
  <2>3. \A g \in Files : file[g] <= file'[g]
    BY <1>0, <2>2, Numbers
  <2>4. \A g \in Files : g # f => prod'[p][g] = prod[p][g]
    BY <2>1 DEF OnlyAt
  <2>5. \A g \in Files : Unsubmitted(p, g)' => Unsubmitted(p, g)
    BY <2>1, <2>4 DEF Unsubmitted
  <2>6. \A g \in Files : Unrecorded(p, g) => Unrecorded(p, g)'
    BY <2>1 DEF Unrecorded
  <2>7. \A g \in Files : prod'[p][g] = "parse" => prod[p][g] = "parse"
    BY <2>1, <2>4
  <2> QED
    BY <2>1, <2>2, <2>3, <2>5, <2>6, <2>7, RecordedKept
<1> QED
  BY <1>1, <1>2, <1>3, <1>4, <1>5, <1>6, Zenon DEF OnFile

\* The steps of the consumer.
LEMMA RecordedConsuming ==
  ASSUME Inv, Recorded, NEW p \in Passes, Alone(p)', Consuming(p)
  PROVE  Recorded'
<1>0. /\ Shape /\ Ahead /\ Flow(p)
      /\ InRest(p) \subseteq InBatch(p) /\ InBatch(p) \subseteq Files
      /\ \A f \in InBatch(p) : prod[p][f] = "done"
  BY BatchFacts DEF Recorded
<1>1. \A f \in Files : /\ tracker[p][f] = "confirmed" => Unrecorded(p, f)
                       /\ file[f] <= file[f]
  BY <1>0, Numbers DEF Ahead, AheadOf
<1>2. CASE Presign(p) \/ Cancel(p)
  <2>1. /\ Inv'
        /\ \/ pass[p].phase = "run" /\ ShipsBy(p, "put", InRest(p))
           \/ pass[p].phase # "off" /\ ShipsBy(p, pass[p].phase, InRest(p))
    BY <1>2, PresignStep
  <2>2. obj' = obj /\ tracker' = tracker /\ cloud' = cloud /\ cursor' = cursor
        /\ schema' = schema /\ file' = file /\ prod' = prod
    BY <1>2 DEF Presign, Cancel, world, shipped
  <2>3. \A g \in Files : Unsubmitted(p, g)' => Unsubmitted(p, g)
    BY <2>1 DEF Unsubmitted, ShipsBy
  <2>4. \A g \in Files : Unrecorded(p, g) => Unrecorded(p, g)'
    BY <2>1 DEF Unrecorded, ShipsBy
  <2> QED
    BY <1>1, <2>1, <2>2, <2>3, <2>4, RecordedKept
<1>3. CASE Put(p)
  <2>1. /\ Inv' /\ pass[p].phase = "put"
        /\ \E S \in SUBSET Files : ShipsBy(p, "confirm", InBatch(p) \ S)
        /\ \A f \in Files : tracker'[p][f] = "confirmed" =>
             tracker[p][f] = "confirmed"
    BY <1>3, PutStep
  <2>2. obj' = obj /\ cloud' = cloud /\ cursor' = cursor
        /\ schema' = schema /\ file' = file /\ prod' = prod
    BY <1>3 DEF Put, world, shipped
  <2>3. \A g \in Files : Unsubmitted(p, g)' => Unsubmitted(p, g)
    BY <1>0, <2>1 DEF Unsubmitted, ShipsBy
  <2>4. \A g \in Files : ~ Unrecorded(p, g)
    BY <2>1 DEF Unrecorded
  <2> QED
    BY <1>1, <2>1, <2>2, <2>3, <2>4, RecordedKept
<1>4. CASE PresignFails(p) \/ Shipped(p)
  <2>1. /\ Inv' /\ ReleasesBy(p)
        /\ \A f \in Files : tracker'[p][f] = "confirmed" =>
             tracker[p][f] = "confirmed"
        /\ pass[p].phase = "run" \/ (pass[p].phase = "advance" /\ InRest(p) = {})
    BY <1>4, PresignFailsStep, ShippedStep
  <2>2. cloud' = cloud /\ cursor' = cursor /\ Release(p)
        /\ schema' = schema /\ file' = file /\ prod' = prod
    BY <1>4 DEF PresignFails, Shipped, world, shipped
  <2>3. \A f \in Files : f \notin InBatch(p) => obj'[p][f] = obj[p][f]
    BY <1>0, <2>2, ReleaseMoves
  <2>4. \A g \in Files : Unsubmitted(p, g)' =>
          Unsubmitted(p, g) /\ obj'[p][g] = obj[p][g]
    BY <1>0, <2>1, <2>2, <2>3 DEF Unsubmitted, ReleasesBy
  <2>5. \A g \in Files : ~ Unrecorded(p, g)
    BY <2>1 DEF Unrecorded
  <2>6. \A g \in Files : prod'[p][g] = "parse" =>
          prod[p][g] = "parse" /\ obj'[p][g] = obj[p][g]
    BY <1>0, <2>2, <2>3
  <2> QED
    BY <1>1, <2>1, <2>2, <2>4, <2>5, <2>6, RecordedKept
<1>5. CASE ConfirmsDone(p)
  <2>1. /\ Inv' /\ pass[p].phase = "confirm" /\ ShipsBy(p, "advance", InBatch(p))
    BY <1>5, ConfirmsDoneStep
  <2>2. obj' = obj /\ tracker' = tracker /\ cloud' = cloud /\ cursor' = cursor
        /\ schema' = schema /\ file' = file /\ prod' = prod
    BY <1>5 DEF ConfirmsDone, world, shipped
  <2>3. \A g \in Files : Unsubmitted(p, g)' => Unsubmitted(p, g)
    BY <2>1 DEF Unsubmitted, ShipsBy
  <2>4. \A g \in Files : Unrecorded(p, g) => Unrecorded(p, g)'
    BY <2>1 DEF Unrecorded, ShipsBy
  <2> QED
    BY <1>1, <2>1, <2>2, <2>3, <2>4, RecordedKept
<1>6. CASE Confirm(p)
  <2>1. Inv' /\ \E sub, S \in SUBSET Files : ConfirmsBy(p, sub, S)
    BY <1>6, ConfirmStep
  <2>2. PICK sub \in SUBSET Files, S \in SUBSET Files : ConfirmsBy(p, sub, S)
    BY <2>1
  <2> DEFINE A == sub \ S
  <2>3. /\ A \subseteq sub /\ sub \subseteq InRest(p) /\ sub \subseteq Files
        /\ pass[p].phase = "confirm" /\ pass'[p].phase = "confirm"
        /\ InBatch(p)' = InBatch(p) /\ InRest(p)' = InRest(p) \ sub
        /\ cloud' = Landed(p, A)
        /\ prod' = prod /\ obj' = obj /\ UNCHANGED <<file, schema, cursor>>
        /\ \A f \in Files : tracker'[p][f] = "confirmed" =>
             f \in A \/ tracker[p][f] = "confirmed"
    BY <2>2 DEF ConfirmsBy
  <2> HIDE DEF A
  <2> QED
    BY <2>1, <2>3, RecordedLands
<1>7. CASE ConfirmFails(p)
  <2>1. Inv' /\ \E sub \in SUBSET Files : LosesBy(p, sub)
    BY <1>7, ConfirmFailsStep
  <2>2. PICK sub \in SUBSET Files : LosesBy(p, sub)
    BY <2>1
  <2>3. /\ sub \subseteq InRest(p) /\ sub \subseteq Files
        /\ pass[p].phase = "confirm" /\ pass'[p].phase = "confirm"
        /\ InBatch(p)' = InBatch(p) /\ InRest(p)' = InRest(p) \ sub
        /\ cloud' = cloud \/ cloud' = Landed(p, sub)
        /\ prod' = prod /\ obj' = obj /\ UNCHANGED <<file, schema, cursor>>
        /\ \A f \in Files : tracker'[p][f] = "confirmed" =>
             tracker[p][f] = "confirmed"
    BY <2>2 DEF LosesBy
  <2> QED
    BY <2>1, <2>3, RecordedLands
<1>8. CASE Advance(p) \/ AdvanceFails(p)
  <2> DEFINE f == Head(pass[p].rest)
  <2>1. Inv' /\ AdvancesBy(p, f)
    BY <1>8, AdvanceStep
  <2>2. \/ cursor' = cursor
        \/ /\ tracker[p][f] = "confirmed"
           /\ cursor' = [cursor EXCEPT ![f] = [at |-> obj[p][f].stat,
                                               schema |-> schema]]
    BY <1>8 DEF Advance, AdvanceFails, Advances, shipped
  <2> HIDE DEF f
  <2>3. /\ f \in Files /\ prod' = prod /\ obj' = obj
        /\ UNCHANGED <<file, schema, cloud>>
        /\ pass[p].phase = "advance" /\ pass'[p].phase = "advance"
        /\ InBatch(p)' = InBatch(p) /\ InRest(p)' = InRest(p) \ {f}
    BY <2>1 DEF AdvancesBy
  <2>4. /\ tracker'[p][f] # "confirmed"
        /\ \A g \in Files : g # f => tracker'[p][g] = tracker[p][g]
    BY <2>1 DEF AdvancesBy, OnlyAt
  <2>5. \A g \in Files : Unsubmitted(p, g)' <=> Unsubmitted(p, g)
    BY <2>3 DEF Unsubmitted
  <2>6. \A g \in Files : g # f => (Unrecorded(p, g)' <=> Unrecorded(p, g))
    BY <2>3 DEF Unrecorded
  <2>7. \A g \in Files : Behind(g) /\ AheadOf(p, g)
    BY <1>0 DEF Ahead
  <2>8. \A g \in Files : Behind(g)'
    BY <2>3, <2>7 DEF Behind
  <2>9. ASSUME NEW g \in Files PROVE AheadOf(p, g)'
    <3>1. tracker'[p][g] = "confirmed" => g # f /\ tracker[p][g] = "confirmed"
      BY <2>4
    <3>2. tracker'[p][g] = "confirmed" => Unrecorded(p, g)'
      BY <1>1, <2>6, <3>1
    <3>3. AheadOf(p, g)
      BY <2>7
    <3> QED
      BY <2>3, <2>5, <3>1, <3>2, <3>3 DEF AheadOf
  <2>10. Ahead'
    BY <2>1, <2>8, <2>9, AheadAlone
  <2>11. CursorCovered'
    <3>1. \A g \in Files : cursor[g].at <= cloud[g].at
                             /\ cursor[g].schema <= cloud[g].schema
      BY DEF Recorded, CursorCovered
    <3>2. CASE cursor' = cursor
      BY <2>3, <3>1, <3>2 DEF CursorCovered
    <3>3. CASE /\ tracker[p][f] = "confirmed"
               /\ cursor' = [cursor EXCEPT ![f] = [at |-> obj[p][f].stat,
                                                   schema |-> schema]]
      <4>1. obj[p][f].stat <= cloud[f].at /\ cloud[f].schema = schema
        BY <2>3, <2>7, <3>3 DEF AheadOf
      <4>2. cursor \in [Files -> Rollups] /\ cloud[f].schema \in Int
        BY <1>0, <2>3, Numbers DEF Shape
      <4>3. /\ cursor'[f].at = obj[p][f].stat /\ cursor'[f].schema = schema
            /\ \A g \in Files : g # f => cursor'[g] = cursor[g]
        BY <2>3, <3>3, <4>2
      <4>4. cursor'[f].at <= cloud[f].at /\ cursor'[f].schema <= cloud[f].schema
        BY <4>1, <4>2, <4>3
      <4> QED
        BY <2>3, <3>1, <4>3, <4>4 DEF CursorCovered
    <3> QED
      BY <2>2, <3>2, <3>3
  <2> QED
    BY <2>10, <2>11 DEF Recorded
<1>9. CASE Merge(p)
  <2>1. /\ Inv' /\ InBatch(p)' = {} /\ InRest(p)' = {}
        /\ \A f \in Files : prod'[p][f] = "none" /\ tracker'[p][f] = "none"
    BY <1>9, MergeStep
  <2>2. cloud' = cloud /\ cursor' = cursor /\ schema' = schema /\ file' = file
    BY <1>9 DEF Merge, world, shipped
  <2>3. schema <= schema'
    BY <1>0, <2>2, Numbers
  <2> QED
    BY <2>1, <2>2, <2>3, RecordedRests
<1>10. CASE Kill(p)
  <2>1. /\ Inv' /\ InBatch(p)' = {} /\ InRest(p)' = {}
        /\ \A f \in Files : prod'[p][f] = "none" /\ tracker'[p][f] = "none"
        /\ schema' >= schema
    BY <1>10, KillStep
  <2>2. cloud' = cloud /\ cursor' = cursor /\ file' = file
    BY <1>10 DEF Kill, shipped
  <2>3. schema <= schema'
    BY <1>0, <2>1, Numbers, NumbersNext DEF Inv
  <2> QED
    BY <2>1, <2>2, <2>3, RecordedRests
<1> QED
  BY <1>2, <1>3, <1>4, <1>5, <1>6, <1>7, <1>8, <1>9, <1>10, Zenon DEF Consuming

\* Every step keeps the cursors behind the cloud.
LEMMA RecordedStep ==
  ASSUME Inv, Solo, Recorded, [Next]_vars, ~ overlapped'
  PROVE  Recorded'
<1>0. Shape
  BY DEF Inv
<1>1. Inv' /\ Solo' /\ ~ overlapped
  BY InvStep, SoloStep
<1>2. ASSUME UNCHANGED <<schema, shipped, pass, prod, obj, tracker>>,
             \A f \in Files : file[f] <= file'[f]
      PROVE  Recorded'
  <2>1. /\ cloud' = cloud /\ cursor' = cursor /\ schema' = schema
        /\ pass' = pass /\ prod' = prod /\ obj' = obj /\ tracker' = tracker
    BY <1>2 DEF shipped
  <2>2. ASSUME NEW p \in Passes, Alone(p)'
        PROVE  Recorded'
    <3>1. \A f \in Files : /\ Unsubmitted(p, f)' <=> Unsubmitted(p, f)
                           /\ Unrecorded(p, f)' <=> Unrecorded(p, f)
      BY <2>1 DEF Unsubmitted, Unrecorded, InBatch, InRest
    <3> QED
      BY <1>1, <1>2, <2>1, <2>2, <3>1, RecordedKept
  <2>3. CASE Passes = {}
    <3>1. \A f \in Files : Behind(f)'
      <4>1. \A f \in Files : Behind(f) /\ file[f] <= file'[f]
        BY <1>2 DEF Recorded, Ahead
      <4> QED
        BY <1>0, <1>1, <2>1, <4>1, Numbers, NumbersNext DEF Behind, Inv
    <3> QED
      BY <2>1, <2>3, <3>1 DEF Recorded, Ahead, CursorCovered
  <2>4. CASE Passes # {}
    <3>1. \E p \in Passes : Alone(p)'
      BY <1>1, <2>4 DEF Solo, Alone
    <3> QED
      BY <2>2, <3>1
  <2> QED
    BY <2>2, <2>3, <2>4
<1>3. CASE UNCHANGED vars
  <2>1. UNCHANGED <<schema, shipped, pass, prod, obj, tracker>> /\ file' = file
    BY <1>3 DEF vars, world
  <2>2. \A f \in Files : file[f] <= file'[f]
    BY <1>0, <2>1, Numbers
  <2> QED
    BY <1>2, <2>1, <2>2
<1>4. CASE Outside
  <2>1. UNCHANGED <<schema, shipped, pass, prod, obj, tracker>>
    BY <1>4, OutsideStep
  <2>2. \A f \in Files : file[f] <= file'[f]
    <3>1. file' = file \/ \E g \in Files : file' = [file EXCEPT ![g] = @ + 1]
      BY <1>4 DEF Outside, Write, GoQuiet, Defer, SetConsent, StartSkips,
                  StartFails, world
    <3>2. file \in [Files -> Versions] /\ \A f \in Files : file[f] \in Int
      BY <1>0, Numbers DEF Shape
    <3> QED
      BY <3>1, <3>2
  <2> QED
    BY <1>2, <2>1, <2>2
<1>5. \A p \in Passes : pass'[p].phase # "off" =>
        pass[p].phase # "off" \/ \E mode \in Modes : Start(p, mode)
  BY PhaseStarts
<1>6. ASSUME NEW p \in Passes,
             pass[p].phase # "off" \/ \E mode \in Modes : Start(p, mode)
      PROVE  Alone(p)'
  <2>1. CASE pass[p].phase # "off"
    <3> SUFFICES ASSUME NEW q \in Passes, q # p, pass'[q].phase # "off"
                 PROVE  FALSE
      BY DEF Alone
    <3>1. pass[q].phase = "off"
      BY <1>1, <2>1 DEF Solo
    <3>2. \E mode \in Modes : Start(q, mode)
      BY <1>5, <3>1
    <3>3. overlapped'
      BY <2>1, <3>2 DEF Start
    <3> QED
      BY <3>3
  <2>2. CASE \E mode \in Modes : Start(p, mode)
    <3>1. PICK mode \in Modes : Start(p, mode)
      BY <2>2
    <3>2. \A q \in Passes : q # p => pass[q].phase = "off" /\ pass'[q] = pass[q]
      BY <1>0, <3>1 DEF Start, Shape
    <3> QED
      BY <3>2 DEF Alone
  <2> QED
    BY <1>6, <2>1, <2>2
<1>7. ASSUME NEW p \in Passes, NEW mode \in Modes, Start(p, mode)
      PROVE  Recorded'
  <2>1. /\ InBatch(p)' = {} /\ InRest(p)' = {}
        /\ \A f \in Files : prod'[p][f] = "queued" /\ tracker'[p][f] # "confirmed"
    BY <1>7, StartStep
  <2>2. cloud' = cloud /\ cursor' = cursor /\ schema' = schema /\ file' = file
    BY <1>7 DEF Start, world, shipped
  <2>3. schema <= schema'
    BY <1>0, <2>2, Numbers
  <2> QED
    BY <1>1, <1>7, <2>1, <2>2, <2>3, <1>6, RecordedRests
<1>8. ASSUME NEW p \in Passes, NEW f \in Files, OnFile(p, f)
      PROVE  Recorded'
  <2>1. prod[p][f] # "none"
    BY <1>8 DEF OnFile, Stat, Parse, Acquire, Send, GiveUp, PrepareFails, NotSpawned
  <2>2. pass[p].phase # "off"
    BY <2>1 DEF Inv, Flow
  <2> QED
    BY <1>8, <1>6, <2>2, RecordedOnFile
<1>9. ASSUME NEW p \in Passes, Consuming(p), NEW r \in Passes, r # p
       PROVE  pass'[r] = pass[r]
  <2>1. pass \in [Passes -> PassStates]
    BY <1>0 DEF Shape
  <2>2. \E v : pass' = [pass EXCEPT ![p] = v]
    BY <1>9 DEF Consuming, Presign, Step, PresignFails, Release, Put, Confirm,
       ConfirmFails, ConfirmsDone, Advance, AdvanceFails, Shipped, Merge, Forget,
       Cancel, Kill
  <2> QED
    BY <1>9, <2>1, <2>2
<1>10. ASSUME NEW p \in Passes, Consuming(p)
      PROVE  Recorded'
  <2>1. CASE Alone(p)'
    BY <1>10, <2>1, RecordedConsuming
  <2>2. CASE ~ Alone(p)'
    <3>1. PICK r \in Passes : r # p /\ pass'[r].phase # "off"
      BY <2>2 DEF Alone
    <3>2. pass[r].phase # "off"
      <4>1. pass'[r] = pass[r]
        BY <1>10, <1>9, <3>1
      <4> QED
        BY <3>1, <4>1
    <3>3. pass[p].phase = "off"
      BY <1>1, <3>1, <3>2 DEF Solo
    <3>4. Kill(p)
      BY <1>10, <3>3 DEF Consuming, Presign, PresignFails, Assembled, Put, Confirm,
         ConfirmFails, ConfirmsDone, Advance, AdvanceFails, Shipped, Merge, Cancel
    <3>5. /\ schema' = schema /\ cloud' = cloud /\ cursor' = cursor /\ file' = file
      BY <3>1, <3>2, <3>4 DEF Kill, shipped
    <3>6. /\ pass'[r] = pass[r] /\ prod'[r] = prod[r]
          /\ obj'[r] = obj[r] /\ tracker'[r] = tracker[r]
      BY <1>0, <3>1, <3>4 DEF Kill, Forget, Shape
    <3>7. Alone(r)'
      BY <1>6, <3>2
    <3>8. \A f \in Files : /\ file[f] <= file'[f]
                           /\ Unsubmitted(r, f)' <=> Unsubmitted(r, f)
                           /\ Unrecorded(r, f)' <=> Unrecorded(r, f)
      BY <1>0, <3>5, <3>6, Numbers DEF Unsubmitted, Unrecorded, InBatch, InRest
    <3> QED
      BY <1>1, <3>5, <3>6, <3>7, <3>8, RecordedKept
  <2> QED
    BY <2>1, <2>2
<1> QED
  BY <1>3, <1>4, <1>7, <1>8, <1>10, NextCases, Zenon

\* At first nothing is shipped or recorded.
LEMMA RecordedInit ==
  ASSUME Init
  PROVE  Recorded
<1>0. Inv
  BY InvInit
<1>1. \A f \in Files : /\ cloud[f] = Nothing /\ cursor[f] = Nothing
                       /\ file[f] \in {0, 1} /\ schema = 1
  BY DEF Init
<1>2. Nothing.at = 0 /\ Nothing.schema = 0
  BY DEF Nothing
<1>3. \A f \in Files : Behind(f)
  BY <1>1, <1>2 DEF Behind
<1>4. ASSUME NEW p \in Passes, NEW f \in Files
      PROVE  AheadOf(p, f)
  <2>1. /\ prod[p][f] = "none" /\ tracker[p][f] = "none"
        /\ pass[p].batch = <<>> /\ pass[p].phase = "off"
    BY DEF Init, NoPass
  <2>2. ~ Unsubmitted(p, f)
    BY <2>1 DEF Unsubmitted
  <2> QED
    BY <2>1, <2>2 DEF AheadOf
<1>5. CursorCovered
  BY <1>1, <1>2 DEF CursorCovered
<1> QED
  BY <1>3, <1>4, <1>5 DEF Recorded, Ahead

-----------------------------------------------------------------------------
(* What the passes guarantee. *)

\* In every state an object is with one producer or once in the batch of its
\* pass, the tracker knows of it, and its temp object has an owner.
THEOREM TranscriptInvariant == Spec => []Inv
<1>1. Init => Inv
  BY InvInit
<1>2. Inv /\ [Next]_vars => Inv'
  BY InvStep
<1> QED
  BY <1>1, <1>2, PTL DEF Spec

\* The in-flight budget of run.go is exact: the slots that are taken are those of
\* the producers that send and of the objects in the batch, so none is lost or
\* given back twice on any exit.
THEOREM TranscriptTypeOK == Spec => []TypeOK
<1>1. Inv => TypeOK
  <2> SUFFICES ASSUME Inv
               PROVE  TypeOK
    OBVIOUS
  <2>0. Shape
    BY DEF Inv
  <2>1. ASSUME NEW p \in Passes
        PROVE  /\ pass[p].batch \in Seq(Files)
               /\ Len(pass[p].batch) <= BatchSize
               /\ pass[p].slots = Len(pass[p].batch)
                                   + Cardinality({f \in Files : prod[p][f] = "send"})
    <3>1. Flow(p) /\ pass[p].batch \in Seq(Files)
      BY BatchFacts
    <3> QED
      BY <3>1 DEF Flow, Sending
  <2>2. /\ file \in [Files -> 0 .. MaxWrites + 1]
        /\ {idle, overdue} \subseteq [Files -> BOOLEAN]
        /\ {cursor, cloud} \subseteq
             [Files -> [at : 0 .. MaxWrites + 1, schema : 0 .. MaxSchema]]
        /\ temps \subseteq Passes \X Files
        /\ streak \in 0 .. Escalation
        /\ failing \subseteq Files
    BY <2>0 DEF Shape, Versions, Rollups
  <2> QED
    BY <2>1, <2>2 DEF TypeOK
<1> QED
  BY <1>1, TranscriptInvariant, PTL

\* Every exit of a pass that the process survives has removed the pass's temp
\* objects: produceFile and releaseBatchBudget together reach each of them.
THEOREM TranscriptTempsReaped == Spec => []TempsReaped
<1>1. Inv => TempsReaped
  <2> SUFFICES ASSUME Inv, ~ leaked, \A p \in Passes : pass[p].phase = "off"
               PROVE  temps = {}
    BY DEF TempsReaped
  <2>1. temps \subseteq Passes \X Files
    BY DEF Inv, Shape
  <2>2. ASSUME NEW p \in Passes, NEW f \in Files, <<p, f>> \in temps
        PROVE  FALSE
    <3>1. Flow(p) /\ pass[p].phase = "off"
      BY DEF Inv
    <3>2. prod[p][f] = "none" /\ InBatch(p) = {}
      BY <3>1 DEF Flow, InBatch, ToSet
    <3> QED
      BY <2>2, <3>2 DEF Inv, Owned
  <2> QED
    BY <2>1, <2>2
<1> QED
  BY <1>1, TranscriptInvariant, PTL

\* mergeTrackers leaves no file pending: a pass that was neither cancelled nor
\* killed has recorded or failed every file it prepared, and a daemon's pass puts
\* those that failed into the health that the status shows.
THEOREM TranscriptNoSilentSkip == Spec => NoSilentSkip
<1> DEFINE Skips(p) ==
             pass[p].phase # "off" /\ pass'[p].phase = "off" =>
               \/ pass[p].cancelled \/ leaked'
               \/ \A f \in Files :
                    /\ tracker[p][f] \notin {"pending", "confirmed"}
                    /\ tracker[p][f] = "failed" /\ pass[p].mode = "daemon"
                         => f \in failing'
<1>1. Inv /\ [Next]_vars => \A p \in Passes : Skips(p)
  <2> SUFFICES ASSUME Inv, [Next]_vars, NEW p \in Passes,
                      pass[p].phase # "off", pass'[p].phase = "off",
                      ~ pass[p].cancelled, ~ leaked'
               PROVE  \A f \in Files :
                        /\ tracker[p][f] \notin {"pending", "confirmed"}
                        /\ tracker[p][f] = "failed" /\ pass[p].mode = "daemon"
                             => f \in failing'
    BY Zenon
  <2>1. ~ Kill(p)
    BY Zenon DEF Kill
  <2>2. Merge(p)
    BY <2>1, PhaseStays
  <2>3. /\ pass[p].phase = "run" /\ Produced(p) /\ pass[p].batch = <<>>
        /\ pass[p].mode = "daemon" =>
             failing' = {f \in Files : tracker[p][f] = "failed"}
    BY <2>2 DEF Merge, Record
  <2>4. Accounted(p)
    BY DEF Inv
  <2>5. InBatch(p) = {}
    BY <2>3 DEF InBatch, ToSet
  <2>6. \A f \in Files : tracker[p][f] \notin {"pending", "confirmed"}
    BY <2>3, <2>4, <2>5 DEF Accounted, Produced
  <2> QED
    BY <2>3, <2>6
<1> QED
  BY <1>1, TranscriptInvariant, PTL DEF Spec, NoSilentSkip

\* Until two passes have run at once the cursor never claims more than the
\* server holds, whatever is written under the parse, lost, rejected or killed.
\* (That they may overlap, and what then happens, is the code's: nothing keeps
\* the boot pass, the ticker and the command apart.)
THEOREM TranscriptCursorNeverAhead == Spec => []CursorNeverAhead
<1>1. Init => Solo /\ Recorded
  <2>1. Init => \A p \in Passes : pass[p].phase = "off"
    BY DEF Init, NoPass
  <2>2. Init => overlapped = FALSE
    BY DEF Init
  <2> QED
    BY <2>1, <2>2, RecordedInit DEF Solo
<1>2. Inv /\ Solo /\ (overlapped \/ Recorded) /\ [Next]_vars
        => Solo' /\ (overlapped' \/ Recorded')
  BY RecordedStep, SoloStep, Zenon
<1>3. overlapped \/ Recorded => CursorNeverAhead
  BY DEF Recorded, CursorNeverAhead
<1>4. Init => Solo /\ (overlapped \/ Recorded)
  BY <1>1
<1> QED
  BY <1>2, <1>3, <1>4, TranscriptInvariant, PTL DEF Spec
=============================================================================
