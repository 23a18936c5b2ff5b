--------------------------- MODULE TranscriptSync ---------------------------
(***************************************************************************)
(* The upload of local sessions: passes that convert every changed session *)
(* to one object, ship the objects in batches under an in-flight budget,   *)
(* and move the session's cursor once its object is confirmed              *)
(* (transcriptsync/run.go, ship.go, chunk.go, watermark.go, health.go,     *)
(* bootstrap/client_transcript_upload.go, cli/transcript_upload.go).       *)
(* Producers, one per file, run in parallel; one consumer assembles the    *)
(* batches and ships them. A file is its version: size and mtime change    *)
(* together, and version 0 holds no rows.                                  *)
(***************************************************************************)
EXTENDS Integers, Sequences, FiniteSets, SequencesExt, Subsequences

CONSTANTS
  Files,         \* sessions of the corpus, by their source:session key
  OverCap,       \* sessions above maxRawTranscriptBytes
  Passes,        \* passes that may run at the same time
  BatchSize,     \* clampBatchSize(cfg.BatchSize)
  Concurrency,   \* cfg.MaxConcurrency
  Escalation,    \* transcriptUploadFailureEscalation; the streak is capped here
  MaxWrites,     \* bound: changes of the corpus
  MaxFaults,     \* bound: failures, crashes and cancelled passes
  MaxSchema      \* bound: rollupSchemaVersion

ASSUME TranscriptAssumption ==
  /\ IsFiniteSet(Files)
  /\ OverCap \subseteq Files
  /\ {BatchSize, Concurrency, Escalation, MaxSchema} \subseteq Nat \ {0}
  /\ {MaxWrites, MaxFaults} \subseteq Nat

VARIABLES
  file,      \* version of each session file
  idle,      \* unchanged for transcriptQuietWindow
  overdue,   \* last shipped before transcriptMaxDeferAge
  schema,    \* rollupSchemaVersion of the installed client
  cursor,    \* the watermark file: version and schema last confirmed
  cloud,     \* what the server holds: version and schema of the rollup
  consent,   \* transcript_collection_enabled
  temps,     \* temp objects on disk, by pass and file
  pass,      \* the consumer of each pass
  prod,      \* the producer of each file
  obj,       \* what a producer prepared: version at Stat, version parsed
  tracker,   \* outcome of each file of a pass
  streak,    \* UploadHealth.ConsecutiveFailures
  failing,   \* the files counted in FilesFailedLastTick
  writes, faults,
  leaked,    \* history: a pass was killed
  overlapped \* history: two passes have run at the same time

world == <<file, idle, overdue, schema, consent, writes>>
shipped == <<cursor, cloud>>
health == <<streak, failing, leaked, overlapped>>

vars == <<world, shipped, temps, pass, prod, obj, tracker, health, faults>>

Nothing == [at |-> 0, schema |-> 0]

NoObject == [stat |-> 0, content |-> 0]

NoPass == [phase |-> "off", batch |-> <<>>, rest |-> <<>>, slots |-> 0,
           mode |-> "daemon", cancelled |-> FALSE]

BudgetCap == 2 * BatchSize

-----------------------------------------------------------------------------
Init ==
  /\ file \in [Files -> {0, 1}]
  /\ idle = [f \in Files |-> TRUE]
  /\ overdue = [f \in Files |-> FALSE]
  /\ schema = 1
  /\ cursor = [f \in Files |-> Nothing]
  /\ cloud = [f \in Files |-> Nothing]
  /\ consent = TRUE
  /\ temps = {}
  /\ pass = [p \in Passes |-> NoPass]
  /\ prod = [p \in Passes |-> [f \in Files |-> "none"]]
  /\ obj = [p \in Passes |-> [f \in Files |-> NoObject]]
  /\ tracker = [p \in Passes |-> [f \in Files |-> "none"]]
  /\ streak = 0
  /\ failing = {}
  /\ writes = 0
  /\ faults = 0
  /\ leaked = FALSE
  /\ overlapped = FALSE

Fault ==
  /\ faults < MaxFaults
  /\ faults' = faults + 1

\* A call of pass p fails: by a fault, or because its context was cancelled.
CallFails(p) == Fault \/ (pass[p].cancelled /\ UNCHANGED faults)

Step(p, phase) == pass' = [pass EXCEPT ![p].phase = phase]

Produce(p, f, s) == prod' = [prod EXCEPT ![p][f] = s]

\* failFile for a set of files; the first outcome of a file stands.
Outcomes(p, S, o) ==
  [tracker EXCEPT ![p] = [f \in Files |-> IF f \in S THEN o ELSE @[f]]]

-----------------------------------------------------------------------------
(* The sessions and the account                                             *)

Write(f) ==
  /\ writes < MaxWrites
  /\ writes' = writes + 1
  /\ file' = [file EXCEPT ![f] = @ + 1]
  /\ idle' = [idle EXCEPT ![f] = FALSE]
  /\ UNCHANGED <<overdue, schema, consent, shipped, temps, pass, prod, obj,
                 tracker, health, faults>>

GoQuiet(f) ==
  /\ ~ idle[f]
  /\ idle' = [idle EXCEPT ![f] = TRUE]
  /\ UNCHANGED <<file, overdue, schema, consent, writes, shipped, temps, pass,
                 prod, obj, tracker, health, faults>>

Defer(f) ==
  /\ ~ overdue[f]
  /\ cursor[f] # Nothing
  /\ overdue' = [overdue EXCEPT ![f] = TRUE]
  /\ UNCHANGED <<file, idle, schema, consent, writes, shipped, temps, pass,
                 prod, obj, tracker, health, faults>>

SetConsent ==
  /\ Fault
  /\ consent' = ~ consent
  /\ UNCHANGED <<file, idle, overdue, schema, writes, shipped, temps, pass,
                 prod, obj, tracker, health>>

-----------------------------------------------------------------------------
(* A pass: Run and its producers                                            *)

\* The ticker of the daemon, or the command, which may ask for a full re-ship.
Modes == {"daemon", "command", "seed"}

\* The consent gate, then one producer per file of the corpus. Nothing keeps
\* the boot pass, a tick and a command apart.
Start(p, mode) ==
  /\ pass[p].phase = "off"
  /\ consent
  /\ pass' = [pass EXCEPT ![p] = [NoPass EXCEPT !.phase = "run", !.mode = mode]]
  /\ prod' = [prod EXCEPT ![p] = [f \in Files |-> "queued"]]
  /\ overlapped' = (overlapped \/ \E q \in Passes \ {p} : pass[q].phase # "off")
  /\ UNCHANGED <<world, shipped, temps, obj, tracker, streak, failing, leaked, faults>>

\* UploadHealthTracker.Record: the streak counts passes that failed and shipped
\* nothing.
Record(errored, bad, good) ==
  /\ failing' = bad
  /\ streak' = IF errored /\ good = {} THEN Min({streak + 1, Escalation}) ELSE 0

\* Consent is off: Record takes the skip for a reached server. (A tick without
\* a login does nothing at all, and a command records nothing.)
StartSkips(p) ==
  /\ pass[p].phase = "off"
  /\ ~ consent
  /\ Record(FALSE, {}, {})
  /\ UNCHANGED <<world, shipped, temps, pass, prod, obj, tracker, leaked,
                 overlapped, faults>>

\* The consent cannot be fetched: nothing is shipped, the next tick retries.
StartFails(p) ==
  /\ pass[p].phase = "off"
  /\ Fault
  /\ Record(TRUE, {}, {})
  /\ UNCHANGED <<world, shipped, temps, pass, prod, obj, tracker, leaked,
                 overlapped>>

\* Mutant: a schema bump does not force a re-ship.
MutShouldReupload(p, f) ==
  \/ cursor[f] = Nothing
  \/ pass[p].mode = "seed"
  \/ file[f] # cursor[f].at /\ (idle[f] \/ overdue[f])

shouldReupload(p, f) ==
  \/ cursor[f] = Nothing
  \/ pass[p].mode = "seed"
  \/ cursor[f].schema < schema
  \/ file[f] # cursor[f].at /\ (idle[f] \/ overdue[f])

Active(p) == {f \in Files : prod[p][f] \in {"parse", "acquire", "send"}}

\* prepareFile: open, Stat and the cursor.
Stat(p, f) ==
  /\ prod[p][f] = "queued"
  /\ Cardinality(Active(p)) < Concurrency
  /\ \/ /\ ~ shouldReupload(p, f)
        /\ Produce(p, f, "done")
        /\ UNCHANGED <<obj, tracker>>
     \/ /\ shouldReupload(p, f)
        /\ f \in OverCap
        /\ Produce(p, f, "done")
        /\ tracker' = [tracker EXCEPT ![p][f] = "failed"]
        /\ UNCHANGED obj
     \/ /\ shouldReupload(p, f)
        /\ f \notin OverCap
        /\ Produce(p, f, "parse")
        /\ obj' = [obj EXCEPT ![p][f].stat = file[f]]
        /\ UNCHANGED tracker
  /\ UNCHANGED <<world, shipped, temps, pass, health, faults>>

\* Mutant: the identity that becomes the cursor is taken when the parse ends.
MutParse(p, f) ==
  /\ prod[p][f] = "parse"
  /\ \E v \in obj[p][f].stat .. file[f] :
       IF v = 0
       THEN /\ Produce(p, f, "done")
            /\ UNCHANGED <<obj, tracker, temps>>
       ELSE /\ Produce(p, f, "acquire")
            /\ obj' = [obj EXCEPT ![p][f] = [stat |-> file[f], content |-> v]]
            /\ tracker' = [tracker EXCEPT ![p][f] = "pending"]
            /\ temps' = temps \cup {<<p, f>>}
  /\ UNCHANGED <<world, shipped, pass, health, faults>>

\* prepareFile: the whole file, as far as the parse read it, becomes one temp
\* object; a session without rows ships nothing.
Parse(p, f) ==
  /\ prod[p][f] = "parse"
  /\ \E v \in obj[p][f].stat .. file[f] :
       IF v = 0
       THEN /\ Produce(p, f, "done")
            /\ UNCHANGED <<obj, tracker, temps>>
       ELSE /\ Produce(p, f, "acquire")
            /\ obj' = [obj EXCEPT ![p][f].content = v]
            /\ tracker' = [tracker EXCEPT ![p][f] = "pending"]
            /\ temps' = temps \cup {<<p, f>>}
  /\ UNCHANGED <<world, shipped, pass, health, faults>>

\* Open or Stat fails, or later the parse or the conversion, or the object is
\* above its cap; the failing step removes its own temp object.
PrepareFails(p, f) ==
  /\ \/ prod[p][f] = "queued" /\ Cardinality(Active(p)) < Concurrency
     \/ prod[p][f] = "parse"
  /\ Fault
  /\ Produce(p, f, "done")
  /\ tracker' = [tracker EXCEPT ![p][f] = "failed"]
  /\ UNCHANGED <<world, shipped, temps, pass, obj, health>>

Acquire(p, f) ==
  /\ prod[p][f] = "acquire"
  /\ pass[p].slots < BudgetCap
  /\ pass' = [pass EXCEPT ![p].slots = @ + 1]
  /\ Produce(p, f, "send")
  /\ UNCHANGED <<world, shipped, temps, obj, tracker, health, faults>>

\* The consumer receives the object.
Send(p, f) ==
  /\ prod[p][f] = "send"
  /\ pass[p].phase = "run"
  /\ Len(pass[p].batch) < BatchSize
  /\ pass' = [pass EXCEPT ![p].batch = Append(@, f)]
  /\ Produce(p, f, "done")
  /\ UNCHANGED <<world, shipped, temps, obj, tracker, health, faults>>

\* The context of the pass ends: shutdown, or an interrupt of the command.
Cancel(p) ==
  /\ pass[p].phase # "off"
  /\ ~ pass[p].cancelled
  /\ Fault
  /\ pass' = [pass EXCEPT ![p].cancelled = TRUE]
  /\ UNCHANGED <<world, shipped, temps, prod, obj, tracker, health>>

\* Mutant: a producer that gives up leaves its temp object behind.
MutGiveUp(p, f) ==
  /\ prod[p][f] \in {"acquire", "send"}
  /\ pass[p].cancelled
  /\ Produce(p, f, "done")
  /\ pass' = [pass EXCEPT ![p].slots = IF prod[p][f] = "send" THEN @ - 1 ELSE @]
  /\ UNCHANGED <<world, shipped, temps, obj, tracker, health, faults>>

\* produceFile, the ctx.Done branches: slot and temp object are given back.
GiveUp(p, f) ==
  /\ prod[p][f] \in {"acquire", "send"}
  /\ pass[p].cancelled
  /\ Produce(p, f, "done")
  /\ pass' = [pass EXCEPT ![p].slots = IF prod[p][f] = "send" THEN @ - 1 ELSE @]
  /\ temps' = temps \ {<<p, f>>}
  /\ obj' = [obj EXCEPT ![p][f] = NoObject]
  /\ UNCHANGED <<world, shipped, tracker, health, faults>>

\* Run stops spawning at the first file after the cancel, which it fails.
NotSpawned(p, f) ==
  /\ prod[p][f] = "queued"
  /\ pass[p].cancelled
  /\ Produce(p, f, "done")
  /\ tracker' \in {tracker, [tracker EXCEPT ![p][f] = "failed"]}
  /\ UNCHANGED <<world, shipped, temps, pass, obj, health, faults>>

Producer(p, f) ==
  \/ Stat(p, f)
  \/ Parse(p, f)
  \/ Acquire(p, f)
  \/ Send(p, f)
  \/ GiveUp(p, f)

-----------------------------------------------------------------------------
(* shipBatch                                                                *)

Produced(p) == \A f \in Files : prod[p][f] = "done"

\* A full batch, or what is left when every producer has finished.
Assembled(p) ==
  /\ pass[p].phase = "run"
  /\ \/ Len(pass[p].batch) = BatchSize
     \/ Produced(p) /\ pass[p].batch # <<>>

\* Mutant: a batch is put away without giving its slots back.
MutRelease(p) ==
  /\ pass' = [pass EXCEPT ![p] =
                [@ EXCEPT !.phase = "run", !.batch = <<>>, !.rest = <<>>]]
  /\ temps' = temps \ {<<p, f>> : f \in ToSet(pass[p].batch)}
  /\ obj' = [obj EXCEPT ![p] = [f \in Files |->
                IF f \in ToSet(pass[p].batch) THEN NoObject ELSE @[f]]]

\* releaseBatchBudget, the deferred call of every exit of shipBatch.
Release(p) ==
  /\ pass' = [pass EXCEPT ![p] =
                [@ EXCEPT !.phase = "run", !.batch = <<>>, !.rest = <<>>,
                          !.slots = pass[p].slots - Len(pass[p].batch)]]
  /\ temps' = temps \ {<<p, f>> : f \in ToSet(pass[p].batch)}
  /\ obj' = [obj EXCEPT ![p] = [f \in Files |->
                IF f \in ToSet(pass[p].batch) THEN NoObject ELSE @[f]]]

Presign(p) ==
  /\ Assembled(p)
  /\ Step(p, "put")
  /\ UNCHANGED <<world, shipped, temps, prod, obj, tracker, health, faults>>

\* The request fails or answers for another number of objects: failBatch.
PresignFails(p) ==
  /\ Assembled(p)
  /\ CallFails(p)
  /\ tracker' = Outcomes(p, ToSet(pass[p].batch), "failed")
  /\ Release(p)
  /\ UNCHANGED <<world, shipped, prod, health>>

\* sealAndPutBatch: the objects that were not uploaded fail their files, the
\* others keep their order.
Put(p) ==
  LET batch == pass[p].batch
  IN  /\ pass[p].phase = "put"
      /\ \E S \in SUBSET ToSet(batch) :
           /\ IF S = {} THEN UNCHANGED faults ELSE CallFails(p)
           /\ tracker' = Outcomes(p, S, "failed")
           /\ \E up \in Picked(batch, {k \in DOMAIN batch : batch[k] \notin S}) :
                pass' = [pass EXCEPT ![p].rest = up, ![p].phase = "confirm"]
      /\ UNCHANGED <<world, shipped, temps, prod, obj, health>>

\* What the server stores for a confirmed object.
Landed(p, S) ==
  [f \in Files |-> IF f \in S THEN [at |-> obj[p][f].content, schema |-> schema]
                   ELSE cloud[f]]

\* confirmSubBatch: one request for a prefix of what is left to confirm; an
\* element the server rejects fails its file alone.
Confirm(p) ==
  /\ pass[p].phase = "confirm"
  /\ \E n \in 1 .. Len(pass[p].rest) :
       LET sub == ToSet(SubSeq(pass[p].rest, 1, n))
       IN  \E S \in SUBSET sub :
             /\ IF S = {} THEN UNCHANGED faults ELSE Fault
             /\ cloud' = Landed(p, sub \ S)
             /\ tracker' = [Outcomes(p, S, "failed") EXCEPT ![p] =
                              [f \in Files |-> IF f \in sub \ S THEN "confirmed"
                                               ELSE @[f]]]
             /\ pass' = [pass EXCEPT ![p].rest = SubSeq(@, n + 1, Len(@))]
  /\ UNCHANGED <<world, cursor, temps, prod, obj, health>>

\* Mutant: a request without a usable answer is not held against its files.
MutConfirmFails(p) ==
  /\ pass[p].phase = "confirm"
  /\ CallFails(p)
  /\ \E n \in 1 .. Len(pass[p].rest) :
       LET sub == ToSet(SubSeq(pass[p].rest, 1, n))
       IN  /\ cloud' \in {cloud, Landed(p, sub)}
           /\ pass' = [pass EXCEPT ![p].rest = SubSeq(@, n + 1, Len(@))]
  /\ UNCHANGED <<world, cursor, temps, prod, obj, tracker, health>>

\* The request fails, or its answer is lost after the server has acted:
\* failSubmitted.
ConfirmFails(p) ==
  /\ pass[p].phase = "confirm"
  /\ CallFails(p)
  /\ \E n \in 1 .. Len(pass[p].rest) :
       LET sub == ToSet(SubSeq(pass[p].rest, 1, n))
       IN  /\ cloud' \in {cloud, Landed(p, sub)}
           /\ tracker' = Outcomes(p, sub, "failed")
           /\ pass' = [pass EXCEPT ![p].rest = SubSeq(@, n + 1, Len(@))]
  /\ UNCHANGED <<world, cursor, temps, prod, obj, health>>

ConfirmsDone(p) ==
  /\ pass[p].phase = "confirm"
  /\ pass[p].rest = <<>>
  /\ pass' = [pass EXCEPT ![p].phase = "advance", ![p].rest = pass[p].batch]
  /\ UNCHANGED <<world, shipped, temps, prod, obj, tracker, health, faults>>

Advances(p, f) == tracker[p][f] = "confirmed"

\* advanceCompletedFiles: one file, one atomic rewrite of the cursor file.
Advance(p) ==
  /\ pass[p].phase = "advance"
  /\ pass[p].rest # <<>>
  /\ LET f == Head(pass[p].rest)
     IN  IF Advances(p, f)
         THEN /\ cursor' = [cursor EXCEPT ![f] = [at |-> obj[p][f].stat,
                                                  schema |-> schema]]
              /\ overdue' = [overdue EXCEPT ![f] = FALSE]
              /\ tracker' = [tracker EXCEPT ![p][f] = "completed"]
         ELSE UNCHANGED <<cursor, overdue, tracker>>
  /\ pass' = [pass EXCEPT ![p].rest = Tail(@)]
  /\ UNCHANGED <<file, idle, schema, consent, writes, cloud, temps, prod, obj,
                 health, faults>>

AdvanceFails(p) ==
  /\ pass[p].phase = "advance"
  /\ pass[p].rest # <<>>
  /\ Advances(p, Head(pass[p].rest))
  /\ Fault
  /\ tracker' = [tracker EXCEPT ![p][Head(pass[p].rest)] = "failed"]
  /\ pass' = [pass EXCEPT ![p].rest = Tail(@)]
  /\ UNCHANGED <<world, shipped, temps, prod, obj, health>>

Shipped(p) ==
  /\ pass[p].phase = "advance"
  /\ pass[p].rest = <<>>
  /\ Release(p)
  /\ UNCHANGED <<world, shipped, prod, tracker, health, faults>>

\* The locals of Run die with the pass.
Forget(p) ==
  /\ pass' = [pass EXCEPT ![p] = NoPass]
  /\ prod' = [prod EXCEPT ![p] = [f \in Files |-> "none"]]
  /\ obj' = [obj EXCEPT ![p] = [f \in Files |-> NoObject]]
  /\ tracker' = [tracker EXCEPT ![p] = [f \in Files |-> "none"]]

\* mergeTrackers, and the daemon's Record of its summary.
Merge(p) ==
  LET bad == {f \in Files : tracker[p][f] = "failed"}
      good == {f \in Files : tracker[p][f] = "completed"}
  IN  /\ pass[p].phase = "run"
      /\ Produced(p)
      /\ pass[p].batch = <<>>
      /\ Forget(p)
      /\ IF pass[p].mode = "daemon"
         THEN Record(bad # {}, bad, good)
         ELSE UNCHANGED <<failing, streak>>
      /\ UNCHANGED <<world, shipped, temps, leaked, overlapped, faults>>

\* The process is killed. It starts again, perhaps as a newer client.
Kill(p) ==
  /\ Fault
  /\ Forget(p)
  /\ streak' = 0
  /\ failing' = {}
  /\ leaked' = (leaked \/ pass[p].phase # "off")
  /\ schema' \in IF \A q \in Passes \ {p} : pass[q].phase = "off"
                 THEN schema .. MaxSchema ELSE {schema}
  /\ UNCHANGED <<file, idle, overdue, consent, writes, shipped, temps, overlapped>>

Consumer(p) ==
  \/ Presign(p)
  \/ Put(p)
  \/ Confirm(p)
  \/ ConfirmsDone(p)
  \/ Advance(p)
  \/ Shipped(p)
  \/ Merge(p)

Failure(p) ==
  \/ PresignFails(p)
  \/ ConfirmFails(p)
  \/ AdvanceFails(p)

Next ==
  \/ \E f \in Files : Write(f)
  \/ \E f \in Files : GoQuiet(f)
  \/ \E f \in Files : Defer(f)
  \/ SetConsent
  \/ \E p \in Passes, mode \in Modes : Start(p, mode)
  \/ \E p \in Passes : StartSkips(p)
  \/ \E p \in Passes : StartFails(p)
  \/ \E p \in Passes, f \in Files : Producer(p, f)
  \/ \E p \in Passes, f \in Files : PrepareFails(p, f)
  \/ \E p \in Passes, f \in Files : NotSpawned(p, f)
  \/ \E p \in Passes : Consumer(p)
  \/ \E p \in Passes : Failure(p)
  \/ \E p \in Passes : Cancel(p)
  \/ \E p \in Passes : Kill(p)

Spec == Init /\ [][Next]_vars

\* The ticker fires, requests return, producers and consumer are scheduled, and
\* a session that is no longer written becomes quiet.
FairSpec ==
  /\ Spec
  /\ \A p \in Passes :
       /\ WF_vars(Start(p, "daemon") \/ StartSkips(p))
       /\ WF_vars(Consumer(p))
       /\ \A f \in Files : WF_vars(Producer(p, f))
  /\ \A f \in Files : WF_vars(GoQuiet(f))

-----------------------------------------------------------------------------
(* Properties                                                               *)

\* The state of every part, and the in-flight budget: a slot is held exactly by
\* each producer that is sending and each object the consumer has.
TypeOK ==
  /\ file \in [Files -> 0 .. MaxWrites + 1]
  /\ {idle, overdue} \subseteq [Files -> BOOLEAN]
  /\ {cursor, cloud} \subseteq
       [Files -> [at : 0 .. MaxWrites + 1, schema : 0 .. MaxSchema]]
  /\ temps \subseteq Passes \X Files
  /\ streak \in 0 .. Escalation
  /\ failing \subseteq Files
  /\ \A p \in Passes :
       /\ pass[p].batch \in Seq(Files)
       /\ Len(pass[p].batch) <= BatchSize
       /\ pass[p].slots = Len(pass[p].batch)
                           + Cardinality({f \in Files : prod[p][f] = "send"})

\* The cursor is the identity of the last uploaded session file (watermark.go):
\* the cloud lacks nothing that it calls shipped. Passes that overlap refute it:
\* the older object may land after the newer one, whose cursor stays.
CursorCovered ==
  \A f \in Files : /\ cursor[f].at <= cloud[f].at
                    /\ cursor[f].schema <= cloud[f].schema

\* The cursor moves only after the confirm, and to the identity taken before the
\* parse: until two passes have run at once, what it calls shipped is in the
\* cloud, also when the session grew under the parse, an answer was lost or the
\* process was killed.
CursorNeverAhead == overlapped \/ CursorCovered

\* A pass that was not cut short accounts for every file it prepared: confirmed
\* and recorded, or failed, which a daemon's pass counts in the health that the
\* status shows.
NoSilentSkip ==
  [][\A p \in Passes :
       pass[p].phase # "off" /\ pass'[p].phase = "off" =>
         \/ pass[p].cancelled \/ leaked'
         \/ \A f \in Files :
              /\ tracker[p][f] \notin {"pending", "confirmed"}
              /\ tracker[p][f] = "failed" /\ pass[p].mode = "daemon"
                   => f \in failing']_vars

\* Every exit of a pass, the cancelled ones included, removes its temp objects.
TempsReaped ==
  ~ leaked /\ (\A p \in Passes : pass[p].phase = "off") => temps = {}

\* The budget never leaves producers and consumer waiting for each other: every
\* pass ends, whatever fails and whenever it is cancelled.
PassEnds ==
  \A p \in Passes : pass[p].phase # "off" ~> pass[p].phase = "off"

\* A failed upload is retried by a later pass and a schema bump re-ships what is
\* held locally: once consent stays on, the cloud ends up with the last version
\* of every session below the cap, under the installed schema.
SessionsShip ==
  <>[]consent =>
    \A f \in Files \ OverCap :
      <>[](file[f] # 0 => cloud[f] = [at |-> file[f], schema |-> schema])
=============================================================================
