------------------------- MODULE TokenSourceProofs -------------------------
(***************************************************************************)
(* Proofs about TokenSource, for any number of processes and callers and   *)
(* any number of writes per persist.                                       *)
(***************************************************************************)
EXTENDS TokenSource, SequenceTheorems, TLAPS

\* A caller at these points is outside the token source.
Outside == {"idle", "issue", "force"}

PCs == Outside \cup {"readExp", "getRT", "getCID", "redeem", "set", "verify",
                     "pubAT", "pubExp"}

CallRec == [pc : PCs, rt : Nat, cid : Nat, tok : Nat, tries : Nat,
            again : BOOLEAN]

Words == {"nothing", "loggedIn", "loggedOut", "error"}

Command == [cmd : {"none", "login", "logout"}, step : 0 .. 4, tok : Nat,
            said : Words]

\* The kind of value each variable holds.
Shape ==
  /\ store \in [Keys -> Nat]
  /\ client \in Seq(Nat)
  /\ cache \in [Procs -> [at : Nat, exp : Nat]]
  /\ pubRead \in [Procs -> BOOLEAN]
  /\ mu \in [Procs -> Callers \cup {None}]
  /\ call \in [Callers -> CallRec]
  /\ cli \in Command
  /\ rejected \in [Procs -> SUBSET Nat]

\* What a step did to the call of c; the other calls are as they were.
Moved(c, pc, rt, cid, tok, tries) ==
  /\ call' \in [Callers -> CallRec]
  /\ call'[c].pc = pc
  /\ call'[c].rt = rt
  /\ call'[c].cid = cid
  /\ call'[c].tok = tok
  /\ call'[c].tries = tries
  /\ \A d \in Callers : d # c => call'[d] = call[d]

-----------------------------------------------------------------------------
(* The effect of the steps on the calls                                     *)

\* The moves the steps of the token source are made of.
LEMMA Moves ==
  ASSUME call \in [Callers -> CallRec], NEW c \in Callers, NEW t \in Nat
  PROVE  /\ \A s \in PCs : Goto(c, s) =>
              Moved(c, s, call[c].rt, call[c].cid, call[c].tok, call[c].tries)
         /\ Hand(c, t) =>
              Moved(c, "issue", call[c].rt, call[c].cid, t, call[c].tries)
         /\ Refreshes(c) =>
              Moved(c, "getRT", call[c].rt, call[c].cid, 0, call[c].tries)
         /\ Return(c) => Moved(c, "idle", 0, 0, 0, 0)
         /\ Publishes(c) =>
              Moved(c, "pubAT", call[c].rt, call[c].cid, call[c].tok, 0)
         /\ call' = [call EXCEPT ![c].pc = "readExp", ![c].tok = t] =>
              Moved(c, "readExp", call[c].rt, call[c].cid, t, call[c].tries)
         /\ call' = [call EXCEPT ![c].pc = "getCID", ![c].rt = t] =>
              Moved(c, "getCID", t, call[c].cid, call[c].tok, call[c].tries)
         /\ call' = [call EXCEPT ![c].pc = "redeem", ![c].cid = t] =>
              Moved(c, "redeem", call[c].rt, t, call[c].tok, call[c].tries)
         /\ call' = [call EXCEPT ![c] = [@ EXCEPT !.pc = "set", !.rt = 0,
                                                  !.cid = 0, !.tok = t]] =>
              Moved(c, "set", 0, 0, t, call[c].tries)
         /\ call' = [call EXCEPT ![c] = [@ EXCEPT !.pc = "pubAT", !.rt = 0,
                                                  !.cid = 0, !.tok = t]] =>
              Moved(c, "pubAT", 0, 0, t, call[c].tries)
         /\ call' = [call EXCEPT ![c].pc = "set", ![c].tries = @ + 1] =>
              Moved(c, "set", call[c].rt, call[c].cid, call[c].tok,
                    call[c].tries + 1)
         /\ call' = [call EXCEPT ![c].pc = "force", ![c].again = TRUE] =>
              Moved(c, "force", call[c].rt, call[c].cid, call[c].tok,
                    call[c].tries)
<1>1. ASSUME NEW s \in PCs, Goto(c, s)
      PROVE  Moved(c, s, call[c].rt, call[c].cid, call[c].tok, call[c].tries)
  BY <1>1 DEF Goto, Moved, CallRec
<1>2. ASSUME Hand(c, t)
      PROVE  Moved(c, "issue", call[c].rt, call[c].cid, t, call[c].tries)
  BY <1>2 DEF Hand, Moved, CallRec, PCs, Outside
<1>3. ASSUME Refreshes(c)
      PROVE  Moved(c, "getRT", call[c].rt, call[c].cid, 0, call[c].tries)
  BY <1>3 DEF Refreshes, Moved, CallRec, PCs
<1>4. ASSUME Return(c)
      PROVE  Moved(c, "idle", 0, 0, 0, 0)
  BY <1>4 DEF Return, NoCall, Moved, CallRec, PCs, Outside
<1>5. ASSUME Publishes(c)
      PROVE  Moved(c, "pubAT", call[c].rt, call[c].cid, call[c].tok, 0)
  BY <1>5 DEF Publishes, Moved, CallRec, PCs
<1>6. ASSUME call' = [call EXCEPT ![c].pc = "readExp", ![c].tok = t]
      PROVE  Moved(c, "readExp", call[c].rt, call[c].cid, t, call[c].tries)
  BY <1>6 DEF Moved, CallRec, PCs
<1>7. ASSUME call' = [call EXCEPT ![c].pc = "getCID", ![c].rt = t]
      PROVE  Moved(c, "getCID", t, call[c].cid, call[c].tok, call[c].tries)
  BY <1>7 DEF Moved, CallRec, PCs
<1>8. ASSUME call' = [call EXCEPT ![c].pc = "redeem", ![c].cid = t]
      PROVE  Moved(c, "redeem", call[c].rt, t, call[c].tok, call[c].tries)
  BY <1>8 DEF Moved, CallRec, PCs
<1>9. ASSUME call' = [call EXCEPT ![c] = [@ EXCEPT !.pc = "set", !.rt = 0,
                                                   !.cid = 0, !.tok = t]]
      PROVE  Moved(c, "set", 0, 0, t, call[c].tries)
  BY <1>9 DEF Moved, CallRec, PCs
<1>10. ASSUME call' = [call EXCEPT ![c].pc = "set", ![c].tries = @ + 1]
       PROVE  Moved(c, "set", call[c].rt, call[c].cid, call[c].tok,
                    call[c].tries + 1)
  BY <1>10 DEF Moved, CallRec, PCs
<1>11. ASSUME call' = [call EXCEPT ![c].pc = "force", ![c].again = TRUE]
       PROVE  Moved(c, "force", call[c].rt, call[c].cid, call[c].tok,
                    call[c].tries)
  BY <1>11 DEF Moved, CallRec, PCs, Outside
<1>12. ASSUME call' = [call EXCEPT ![c] = [@ EXCEPT !.pc = "pubAT", !.rt = 0,
                                                    !.cid = 0, !.tok = t]]
       PROVE  Moved(c, "pubAT", 0, 0, t, call[c].tries)
  BY <1>12 DEF Moved, CallRec, PCs
<1> QED
  BY <1>1, <1>2, <1>3, <1>4, <1>5, <1>6, <1>7, <1>8, <1>9, <1>10, <1>11, <1>12

TokenEffect(c) ==
  \/ /\ Fresh(cache[ProcOf[c]])
     /\ UNCHANGED <<mu, pubRead>>
     /\ Moved(c, "issue", call[c].rt, call[c].cid, cache[ProcOf[c]].at,
              call[c].tries)
  \/ /\ ~ pubRead[ProcOf[c]]
     /\ UNCHANGED pubRead
     /\ Lock(c)
     /\ Moved(c, "readExp", call[c].rt, call[c].cid, store.at, call[c].tries)
  \/ /\ pubRead' = [pubRead EXCEPT ![ProcOf[c]] = TRUE]
     /\ Lock(c)
     /\ Moved(c, "getRT", call[c].rt, call[c].cid, 0, call[c].tries)

LoadExpEffect(c) ==
  \E pair \in [at : Nat, exp : Nat] :
    /\ pair.at \in {cache[ProcOf[c]].at, call[c].tok}
    /\ pair.exp \in {cache[ProcOf[c]].exp, store.exp}
    /\ cache' = [cache EXCEPT ![ProcOf[c]] = pair]
    /\ \/ /\ Fresh(pair)
          /\ Unlock(c)
          /\ Moved(c, "issue", call[c].rt, call[c].cid, pair.at, call[c].tries)
       \/ /\ UNCHANGED mu
          /\ Moved(c, "getRT", call[c].rt, call[c].cid, 0, call[c].tries)

ForceEffect(c) == Moved(c, "getRT", call[c].rt, call[c].cid, 0, call[c].tries)

FailEffect(c) == Moved(c, "idle", 0, 0, 0, 0) /\ Unlock(c)

GetRTEffect(c) ==
  \/ FailEffect(c)
  \/ /\ store.rt # 0
     /\ UNCHANGED mu
     /\ Moved(c, "getCID", store.rt, call[c].cid, call[c].tok, call[c].tries)

GetCIDEffect(c) ==
  \/ FailEffect(c)
  \/ /\ UNCHANGED mu
     /\ Moved(c, "redeem", call[c].rt, store.cid, call[c].tok, call[c].tries)

RefreshEffect(c) == Moved(c, "set", 0, 0, Len(client) + 1, call[c].tries)

KeepEffect(c) == Moved(c, "pubAT", 0, 0, Len(client) + 1, call[c].tries)

WriteEffect(c) ==
  Moved(c, "verify", call[c].rt, call[c].cid, call[c].tok, call[c].tries)

PersistEffect(c) ==
  \/ Moved(c, "pubAT", call[c].rt, call[c].cid, call[c].tok, 0)
  \/ /\ call[c].tries + 1 < Attempts
     /\ Moved(c, "set", call[c].rt, call[c].cid, call[c].tok, call[c].tries + 1)

PublishEffect(c) ==
  Moved(c, "pubExp", call[c].rt, call[c].cid, call[c].tok, call[c].tries)

ServeEffect(c) ==
  /\ Unlock(c)
  /\ Moved(c, "issue", call[c].rt, call[c].cid, cache[ProcOf[c]].at,
           call[c].tries)

OKEffect(c) == Moved(c, "idle", 0, 0, 0, 0)

Effect401(c) ==
  \/ Moved(c, "idle", 0, 0, 0, 0)
  \/ Moved(c, "force", call[c].rt, call[c].cid, call[c].tok, call[c].tries)

\* What each step of a call does to the calls and to the mutex.
LEMMA CallEffects ==
  ASSUME Shape, NEW c \in Callers
  PROVE  /\ Token(c) => TokenEffect(c)
         /\ LoadExp(c) => LoadExpEffect(c)
         /\ ForceRefresh(c) => ForceEffect(c)
         /\ GetRT(c) => GetRTEffect(c)
         /\ GetCID(c) => GetCIDEffect(c)
         /\ Refresh(c) => RefreshEffect(c)
         /\ RefreshKeeps(c) => KeepEffect(c)
         /\ RefreshRefused(c) \/ RefreshLost(c) \/ GetFails(c) => FailEffect(c)
         /\ SetRT(c) \/ SetLies(c) => WriteEffect(c)
         /\ Verify(c) \/ PersistFails(c) \/ PersistCancelled(c) =>
              PersistEffect(c)
         /\ PublishAT(c) => PublishEffect(c)
         /\ PublishExp(c) \/ PublishFails(c) => ServeEffect(c)
         /\ IssueOK(c) => OKEffect(c)
         /\ Issue401(c) => Effect401(c)
<1> DEFINE p == ProcOf[c]
<1>1. /\ p \in Procs
      /\ {store.at, store.rt, store.cid, store.exp} \subseteq Nat
      /\ cache[p] \in [at : Nat, exp : Nat]
      /\ Len(client) + 1 \in Nat
      /\ call[c] \in CallRec
  BY TokenAssumption DEF Shape, Keys
<1>2. \A s \in PCs : Goto(c, s) =>
        Moved(c, s, call[c].rt, call[c].cid, call[c].tok, call[c].tries)
  BY Moves DEF Shape
<1>3. \A t \in Nat : Hand(c, t) =>
        Moved(c, "issue", call[c].rt, call[c].cid, t, call[c].tries)
  BY Moves DEF Shape
<1>4. /\ Refreshes(c) =>
           Moved(c, "getRT", call[c].rt, call[c].cid, 0, call[c].tries)
      /\ Return(c) => Moved(c, "idle", 0, 0, 0, 0)
      /\ Publishes(c) =>
           Moved(c, "pubAT", call[c].rt, call[c].cid, call[c].tok, 0)
      /\ call' = [call EXCEPT ![c].pc = "set", ![c].tries = @ + 1] =>
           Moved(c, "set", call[c].rt, call[c].cid, call[c].tok,
                 call[c].tries + 1)
      /\ call' = [call EXCEPT ![c].pc = "force", ![c].again = TRUE] =>
           Moved(c, "force", call[c].rt, call[c].cid, call[c].tok,
                 call[c].tries)
  BY Moves DEF Shape
<1>5. ASSUME Token(c)
      PROVE  TokenEffect(c)
  <2>1. call' = [call EXCEPT ![c].pc = "readExp", ![c].tok = store.at] =>
          Moved(c, "readExp", call[c].rt, call[c].cid, store.at, call[c].tries)
    BY <1>1, Moves DEF Shape
  <2>2. Hand(c, cache[p].at) =>
          Moved(c, "issue", call[c].rt, call[c].cid, cache[p].at, call[c].tries)
    BY <1>1, <1>3
  <2> QED
    BY <1>4, <1>5, <2>1, <2>2 DEF Token, TokenEffect
<1>6. ASSUME LoadExp(c)
      PROVE  LoadExpEffect(c)
  <2> DEFINE pair == IF store.exp = 0 THEN cache[p]
                     ELSE [at |-> call[c].tok, exp |-> store.exp]
  <2>1. /\ pair \in [at : Nat, exp : Nat]
        /\ pair.at \in {cache[p].at, call[c].tok}
        /\ pair.exp \in {cache[p].exp, store.exp}
    BY <1>1 DEF CallRec
  <2>2. /\ cache' = [cache EXCEPT ![p] = pair]
        /\ \/ Fresh(pair) /\ Hand(c, pair.at) /\ Unlock(c)
           \/ Refreshes(c) /\ UNCHANGED mu
    BY <1>6 DEF LoadExp
  <2>3. pair.at \in Nat
    BY <2>1
  <2> HIDE DEF pair
  <2> QED
    BY <1>3, <1>4, <2>1, <2>2, <2>3 DEF LoadExpEffect
<1>7. ASSUME GetRT(c)
      PROVE  GetRTEffect(c)
  <2>1. call' = [call EXCEPT ![c].pc = "getCID", ![c].rt = store.rt] =>
          Moved(c, "getCID", store.rt, call[c].cid, call[c].tok, call[c].tries)
    BY <1>1, Moves DEF Shape
  <2> QED
    BY <1>4, <1>7, <2>1 DEF GetRT, Fail, GetRTEffect, FailEffect
<1>8. ASSUME GetCID(c)
      PROVE  GetCIDEffect(c)
  <2>1. call' = [call EXCEPT ![c].pc = "redeem", ![c].cid = store.cid] =>
          Moved(c, "redeem", call[c].rt, store.cid, call[c].tok, call[c].tries)
    BY <1>1, Moves DEF Shape
  <2> QED
    BY <1>4, <1>8, <2>1 DEF GetCID, Fail, GetCIDEffect, FailEffect
<1>9. ASSUME Refresh(c)
      PROVE  RefreshEffect(c)
  <2> DEFINE new == Len(client) + 1
  <2>1. call' = [call EXCEPT ![c] = [@ EXCEPT !.pc = "set", !.rt = 0,
                                              !.cid = 0, !.tok = new]]
    BY <1>9 DEF Refresh
  <2>2. new \in Nat
    BY <1>1
  <2> HIDE DEF new
  <2>3. Moved(c, "set", 0, 0, new, call[c].tries)
    BY <2>1, <2>2, Moves DEF Shape
  <2> QED
    BY <2>3 DEF new, RefreshEffect
<1>10. /\ ForceRefresh(c) => ForceEffect(c)
       /\ RefreshRefused(c) \/ RefreshLost(c) \/ GetFails(c) => FailEffect(c)
       /\ IssueOK(c) => OKEffect(c)
       /\ Issue401(c) => Effect401(c)
  BY <1>4
  DEF ForceRefresh, RefreshRefused, RefreshLost, GetFails, Fail, IssueOK,
              Issue401, ForceEffect, FailEffect, OKEffect, Effect401
<1>11. Verify(c) \/ PersistFails(c) \/ PersistCancelled(c) => PersistEffect(c)
  BY <1>4 DEF Verify, PersistFails, PersistCancelled, Retry, PersistEffect
<1>12. (SetRT(c) \/ SetLies(c) => WriteEffect(c)) /\ (PublishAT(c) => PublishEffect(c))
  <2>1. "verify" \in PCs /\ "pubExp" \in PCs
    BY DEF PCs
  <2> QED
    BY <1>2, <2>1 DEF SetRT, SetLies, PublishAT, WriteEffect, PublishEffect
<1>13. PublishExp(c) \/ PublishFails(c) => ServeEffect(c)
  <2>1. cache[p].at \in Nat
    BY <1>1
  <2> QED
    BY <1>3, <2>1 DEF PublishExp, PublishFails, ServeEffect
<1>14. ASSUME RefreshKeeps(c)
       PROVE  KeepEffect(c)
  <2> DEFINE new == Len(client) + 1
  <2>1. call' = [call EXCEPT ![c] = [@ EXCEPT !.pc = "pubAT", !.rt = 0,
                                              !.cid = 0, !.tok = new]]
    BY <1>14 DEF RefreshKeeps
  <2>2. new \in Nat
    BY <1>1
  <2> HIDE DEF new
  <2>3. Moved(c, "pubAT", 0, 0, new, call[c].tries)
    BY <2>1, <2>2, Moves DEF Shape
  <2> QED
    BY <2>3 DEF new, KeepEffect
<1> QED
  BY <1>5, <1>6, <1>7, <1>8, <1>9, <1>10, <1>11, <1>12, <1>13, <1>14

-----------------------------------------------------------------------------
(* Type correctness and the mutex                                           *)

CallsKnown ==
  \A c \in Callers : /\ call[c].rt \in Tokens
                     /\ call[c].cid \in Tokens
                     /\ call[c].tok \in Tokens
                     /\ call[c].tries < Attempts

\* Every value names a token that was issued, and every token a client.
Known ==
  /\ \A i \in Issued : client[i] \in Issued
  /\ \A k \in Keys : store[k] \in Tokens
  /\ redeemable \cup due \cup refused \subseteq Issued
  /\ \A p \in Procs : cache[p].at \in Tokens /\ cache[p].exp \in Tokens
  /\ CallsKnown
  /\ cli.tok \in Tokens
  /\ cli.cmd = "login" => cli.tok \in Issued /\ cli.step # 0

\* The provider appends the pair of each answer to those it issued.
LEMMA IssuedGrows ==
  ASSUME Shape, NEW i \in Nat, client' = Append(client, i)
  PROVE  /\ client' \in Seq(Nat)
         /\ Len(client') = Len(client) + 1
         /\ \A j \in Issued : client'[j] = client[j]
         /\ client'[Len(client) + 1] = i
         /\ Issued \subseteq Issued' /\ Tokens \subseteq Tokens'
         /\ Len(client) + 1 \in Issued' /\ Len(client) + 1 \in Tokens'
<1>1. client \in Seq(Nat)
  BY DEF Shape
<1>2. /\ client' \in Seq(Nat)
      /\ Len(client') = Len(client) + 1
      /\ \A j \in 1 .. Len(client) : client'[j] = client[j]
      /\ client'[Len(client) + 1] = i
  BY <1>1, AppendProperties
<1>3. Len(client) \in Nat
  BY <1>1
<1> QED
  BY <1>2, <1>3 DEF Issued, Tokens

\* The pair of a redeemed token is of the client that token was issued to.
LEMMA RedeemedGrows ==
  ASSUME Shape, Known, NEW rt \in redeemable, Redeemed(rt)
  PROVE  /\ client' \in Seq(Nat)
         /\ Len(client') = Len(client) + 1
         /\ \A j \in Issued : client'[j] = client[j]
         /\ client'[Len(client) + 1] = client[rt]
         /\ Issued \subseteq Issued' /\ Tokens \subseteq Tokens'
         /\ Len(client) + 1 \in Issued' /\ Len(client) + 1 \in Tokens'
         /\ rt \in Issued /\ client[rt] \in Issued
<1>1. rt \in Issued /\ client[rt] \in Issued
  BY DEF Known
<1>2. client[rt] \in Nat
  BY <1>1 DEF Issued
<1> QED
  BY <1>1, <1>2, IssuedGrows DEF Redeemed

\* So is the access token of an answer that does not rotate.
LEMMA KeptGrows ==
  ASSUME Shape, Known, NEW rt \in redeemable, Kept(rt)
  PROVE  /\ client' \in Seq(Nat)
         /\ Len(client') = Len(client) + 1
         /\ \A j \in Issued : client'[j] = client[j]
         /\ client'[Len(client) + 1] = client[rt]
         /\ Issued \subseteq Issued' /\ Tokens \subseteq Tokens'
         /\ Len(client) + 1 \in Issued' /\ Len(client) + 1 \in Tokens'
         /\ rt \in Issued /\ client[rt] \in Issued
<1>1. rt \in Issued /\ client[rt] \in Issued
  BY DEF Known
<1>2. client[rt] \in Nat
  BY <1>1 DEF Issued
<1> QED
  BY <1>1, <1>2, IssuedGrows DEF Kept

\* The command goes on to its next step or ends.
LEMMA CommandMoves ==
  ASSUME cli \in Command, NEW w \in Words
  PROVE  /\ Done(w) =>
              cli' \in Command /\ cli'.cmd = "none" /\ cli'.tok = 0 /\ cli'.step = 0
         /\ cli.step < 4 /\ cli' = [cli EXCEPT !.step = @ + 1] =>
              /\ cli' \in Command
              /\ cli'.cmd = cli.cmd
              /\ cli'.tok = cli.tok
              /\ cli'.step = cli.step + 1
         /\ LogoutNext(w) =>
              /\ cli' \in Command
              /\ \/ cli'.cmd = "none" /\ cli'.tok = 0 /\ cli'.step = 0
                 \/ /\ cli'.cmd = cli.cmd
                    /\ cli'.tok = cli.tok
                    /\ cli'.step = cli.step + 1
<1>0. cli.cmd \in {"none", "login", "logout"} /\ cli.step \in 0 .. 4
  BY DEF Command
<1>1. ASSUME Done(w)
      PROVE  cli' \in Command /\ cli'.cmd = "none" /\ cli'.tok = 0 /\ cli'.step = 0
  BY <1>1 DEF Done, Command
<1>2. ASSUME cli.step < 4, cli' = [cli EXCEPT !.step = @ + 1]
      PROVE  /\ cli' \in Command
             /\ cli'.cmd = cli.cmd
             /\ cli'.tok = cli.tok
             /\ cli'.step = cli.step + 1
  <2>1. cli.step + 1 \in 0 .. 4
    BY <1>0, <1>2
  <2> QED
    BY <1>2, <2>1 DEF Command
<1>3. ASSUME cli.step < 4, cli' = [cli EXCEPT !.step = @ + 1, !.said = w]
      PROVE  /\ cli' \in Command
             /\ cli'.cmd = cli.cmd
             /\ cli'.tok = cli.tok
             /\ cli'.step = cli.step + 1
  <2>1. cli.step + 1 \in 0 .. 4
    BY <1>0, <1>3
  <2> QED
    BY <1>3, <2>1 DEF Command
<1> QED
  BY <1>1, <1>2, <1>3 DEF LogoutNext

\* Every step keeps the kind of value each variable holds.
LEMMA ShapeStep ==
  ASSUME Shape, Known, [Next]_vars
  PROVE  Shape'
<1> DEFINE Goal == Shape'
<1> USE TokenAssumption
<1>1. ASSUME NEW c \in Callers, Token(c) PROVE Goal
  <2>1. ProcOf[c] \in Procs
    OBVIOUS
  <2>2. call' \in [Callers -> CallRec]
    BY <1>1, CallEffects DEF TokenEffect, Moved
  <2>3. /\ mu' \in [Procs -> Callers \cup {None}]
        /\ pubRead' \in [Procs -> BOOLEAN]
    BY <1>1, <2>1 DEF Token, Lock, Shape
  <2> QED
    BY <1>1, <2>2, <2>3 DEF Token, Shape, provider, history
<1>2. ASSUME NEW c \in Callers, LoadExp(c) PROVE Goal
  <2>1. ProcOf[c] \in Procs
    OBVIOUS
  <2>2. call' \in [Callers -> CallRec]
    BY <1>2, CallEffects DEF LoadExpEffect, Moved
  <2>3. cache' \in [Procs -> [at : Nat, exp : Nat]]
    <3>1. PICK pair \in [at : Nat, exp : Nat] :
            cache' = [cache EXCEPT ![ProcOf[c]] = pair]
      BY <1>2, CallEffects DEF LoadExpEffect
    <3> QED
      BY <2>1, <3>1 DEF Shape
  <2>4. /\ pubRead' \in [Procs -> BOOLEAN]
        /\ mu' \in [Procs -> Callers \cup {None}]
    BY <1>2, <2>1 DEF LoadExp, Unlock, Shape
  <2> QED
    BY <1>2, <2>2, <2>3, <2>4 DEF LoadExp, Shape, provider, history
<1>3. ASSUME NEW c \in Callers, ForceRefresh(c) PROVE Goal
  <2>1. /\ ProcOf[c] \in Procs
        /\ call[c].tok \in Nat
    BY DEF Shape, CallRec
  <2> QED
    BY <1>3, <2>1, CallEffects
    DEF ForceRefresh, ForceEffect, Lock, NoPair, Shape, Moved, Keys, provider
<1>4. ASSUME NEW c \in Callers, GetRT(c) PROVE Goal
  BY <1>4, CallEffects
  DEF GetRT, Unlock, GetRTEffect, FailEffect, Shape, Moved, Keys, provider,
      history
<1>5. ASSUME NEW c \in Callers, GetCID(c) PROVE Goal
  BY <1>5, CallEffects
  DEF GetCID, Unlock, GetCIDEffect, FailEffect, Shape, Moved, Keys,
      provider, history
<1>6. ASSUME NEW c \in Callers, Refresh(c) PROVE Goal
  <2>1. ProcOf[c] \in Procs /\ Len(client) + 1 \in Nat
    BY DEF Shape
  <2>3. client' \in Seq(Nat)
    BY <1>6, RedeemedGrows DEF Refresh
  <2> QED
    BY <1>6, <2>1, <2>3, CallEffects
    DEF Refresh, RefreshEffect, Shape, Moved, Keys, provider, history
<1>7. ASSUME NEW c \in Callers, RefreshRefused(c) PROVE Goal
  BY <1>7, CallEffects
  DEF RefreshRefused, Unlock, FailEffect, Shape, Moved, Keys, provider,
      history
<1>8. ASSUME NEW c \in Callers, SetRT(c) PROVE Goal
  <2>1. call[c].tok \in Nat
    BY DEF Shape, CallRec
  <2> QED
    BY <1>8, <2>1, CallEffects
    DEF SetRT, WriteEffect, Shape, Moved, Keys, provider, history
<1>9. ASSUME NEW c \in Callers, Verify(c) PROVE Goal
  BY <1>9, CallEffects
  DEF Verify, PersistEffect, Shape, Moved, Keys, provider, history
<1>10. ASSUME NEW c \in Callers, PublishAT(c) PROVE Goal
  <2>1. call[c].tok \in Nat
    BY DEF Shape, CallRec
  <2> QED
    BY <1>10, <2>1, CallEffects
    DEF PublishAT, PublishEffect, Shape, Moved, Keys, provider, history
<1>11. ASSUME NEW c \in Callers, PublishExp(c) PROVE Goal
  <2>1. call[c].tok \in Nat
    BY DEF Shape, CallRec
  <2> QED
    BY <1>11, <2>1, CallEffects
    DEF PublishExp, ServeEffect, Unlock, Shape, Moved, Keys, provider, history
<1>12. ASSUME NEW c \in Callers, IssueOK(c) PROVE Goal
  BY <1>12, CallEffects
  DEF IssueOK, OKEffect, Shape, Moved, Keys, provider, history
<1>13. ASSUME NEW c \in Callers, Issue401(c) PROVE Goal
  BY <1>13, CallEffects
  DEF Issue401, Effect401, Shape, Moved, Keys, provider, history
<1>14. ASSUME NEW c \in Callers, GetFails(c) PROVE Goal
  BY <1>14, CallEffects
  DEF GetFails, Unlock, FailEffect, Shape, Moved, Keys, provider, history
<1>15. ASSUME NEW c \in Callers, RefreshLost(c) PROVE Goal
  <2>2. client' \in Seq(Nat)
    BY <1>15, RedeemedGrows DEF RefreshLost
  <2> QED
    BY <1>15, <2>2, CallEffects
    DEF RefreshLost, FailEffect, Unlock, Shape, Moved, Keys, provider, history
<1>16. ASSUME NEW c \in Callers, SetLies(c) PROVE Goal
  BY <1>16, CallEffects
  DEF SetLies, WriteEffect, Shape, Moved, Keys, provider, history
<1>17. ASSUME NEW c \in Callers, PersistFails(c) PROVE Goal
  BY <1>17, CallEffects
  DEF PersistFails, PersistEffect, Shape, Moved, Keys, provider, history
<1>18. ASSUME NEW c \in Callers, PersistCancelled(c) PROVE Goal
  BY <1>18, CallEffects
  DEF PersistCancelled, PersistEffect, Shape, Moved, Keys, provider, history
<1>19. ASSUME NEW c \in Callers, PublishFails(c) PROVE Goal
  BY <1>19, CallEffects
  DEF PublishFails, Unlock, ServeEffect, Shape, Moved, Keys, provider,
      history
<1>20. CASE LoginGranted
  <2>1. Len(client) + 1 \in Nat
    BY DEF Shape
  <2>2. client' \in Seq(Nat)
    BY <1>20, <2>1, IssuedGrows DEF LoginGranted
  <2> QED
    BY <1>20, <2>1, <2>2 DEF LoginGranted, Shape, Command, Words, history
<1>21. CASE LogoutReads
  <2>1. cli' \in Command
    BY <1>21 DEF LogoutReads, Shape, Command, Words, Keys
  <2> QED
    BY <1>21, <2>1 DEF LogoutReads, Shape, provider
<1>22. CASE LoginSet
  <2>1. cli.tok \in Issued /\ cli.step \in 1 .. 4 /\ cli.tok \in Nat
    BY <1>22 DEF LoginSet, Known, Shape, Command
  <2>2. loginKeys[cli.step] \in Keys
    BY <2>1 DEF loginKeys, Keys
  <2>3. client[cli.tok] \in Nat
    BY <2>1 DEF Known, Issued
  <2>4. store' \in [Keys -> Nat]
    BY <1>22, <2>1, <2>2, <2>3 DEF LoginSet, Shape
  <2>5. cli \in Command /\ "loggedIn" \in Words
    BY DEF Shape, Words
  <2>6. cli' \in Command
    BY <1>22, <2>5, CommandMoves DEF LoginSet
  <2> QED
    BY <1>22, <2>4, <2>6 DEF LoginSet, Shape, provider
<1>23. CASE LogoutRevokes
  <2>1. cli \in Command /\ "nothing" \in Words
    BY DEF Shape, Words
  <2>2. cli' \in Command
    BY <1>23, <2>1, CommandMoves DEF LogoutRevokes
  <2> QED
    BY <1>23, <2>2 DEF LogoutRevokes, Shape, history
<1>24. CASE LogoutDeletes
  <2>1. cli.step \in 1 .. 4 /\ logoutKeys[cli.step] \in Keys
    BY <1>24 DEF LogoutDeletes, logoutKeys, Keys, Shape, Command
  <2>2. store' \in [Keys -> Nat]
    BY <1>24, <2>1 DEF LogoutDeletes, Shape
  <2>3. cli \in Command /\ cli.said \in Words
    BY DEF Shape, Command
  <2>4. cli' \in Command
    BY <1>24, <2>3, CommandMoves DEF LogoutDeletes
  <2> QED
    BY <1>24, <2>2, <2>4 DEF LogoutDeletes, Shape, provider, history
<1>25. CASE LoginFails
  <2>1. cli' \in Command
    BY <1>25 DEF LoginFails, Done, Command, Words
  <2> QED
    BY <1>25, <2>1 DEF LoginFails, Shape, provider
<1>26. CASE LogoutFails
  <2>1. cli \in Command /\ "error" \in Words
    BY DEF Shape, Words
  <2>2. cli' \in Command
    BY <1>26, <2>1, CommandMoves DEF LogoutFails
  <2> QED
    BY <1>26, <2>2 DEF LogoutFails, Shape, provider
<1>27. CASE Age
  BY <1>27 DEF Age, Shape, Moved, Keys, provider, history, Command, Words
<1>28. CASE Refuse
  BY <1>28 DEF Refuse, Shape, Moved, Keys, provider, history, Command, Words
<1>29. ASSUME NEW p \in Procs, Crash(p) PROVE Goal
  <2>1. NoCall \in CallRec
    BY DEF NoCall, CallRec, PCs, Outside
  <2>2. call' \in [Callers -> CallRec]
    BY <1>29, <2>1 DEF Crash, Shape
  <2> QED
    BY <1>29, <2>2 DEF Crash, NoPair, Shape, provider
<1>31. ASSUME NEW c \in Callers, RefreshKeeps(c) PROVE Goal
  <2>1. ProcOf[c] \in Procs /\ Len(client) + 1 \in Nat
    BY DEF Shape
  <2>3. client' \in Seq(Nat)
    BY <1>31, KeptGrows DEF RefreshKeeps
  <2> QED
    BY <1>31, <2>1, <2>3, CallEffects
    DEF RefreshKeeps, KeepEffect, Shape, Moved, Keys, provider, history
<1>32. CASE CommandKilled
  <2>1. cli' \in Command
    BY <1>32 DEF CommandKilled, Done, Command, Words
  <2> QED
    BY <1>32, <2>1 DEF CommandKilled, Shape, provider
<1>30. CASE UNCHANGED vars
  BY <1>30 DEF vars, provider, history, Shape, Moved, Keys, provider, history
<1> QED
  BY <1>1, <1>2, <1>3, <1>4, <1>5, <1>6, <1>7, <1>8, <1>9, <1>10, <1>11, <1>12,
     <1>13, <1>14, <1>15, <1>16, <1>17, <1>18, <1>19, <1>20, <1>21, <1>22,
     <1>23, <1>24, <1>25, <1>26, <1>27, <1>28, <1>29, <1>30, <1>31, <1>32
  DEF Next, CallStep, CallFault, CommandStep

\* A call that moves with known values keeps the calls' values known.
LEMMA CallsKnownMove ==
  ASSUME CallsKnown, Tokens \subseteq Tokens', NEW c \in Callers, NEW pc, NEW rt,
         NEW cid, NEW tok, NEW tries, Moved(c, pc, rt, cid, tok, tries),
         rt \in Tokens', cid \in Tokens', tok \in Tokens', tries < Attempts
  PROVE  CallsKnown'
  BY DEF CallsKnown, Moved

\* The values a step of c works with are known.
LEMMA KnownHere ==
  ASSUME Shape, Known, NEW c \in Callers
  PROVE  /\ ProcOf[c] \in Procs
         /\ 0 \in Tokens
         /\ {store.rt, store.cid, store.at, store.exp} \subseteq Tokens
         /\ cache[ProcOf[c]].at \in Tokens /\ cache[ProcOf[c]].exp \in Tokens
         /\ {call[c].rt, call[c].cid, call[c].tok} \subseteq Tokens
         /\ call[c].tries < Attempts /\ 0 < Attempts
  BY TokenAssumption DEF Known, CallsKnown, Tokens, Shape, Keys

\* A step of c that issues no token keeps the calls' values known.
LEMMA CallsKnownStep ==
  ASSUME Shape, Known, NEW c \in Callers, UNCHANGED client,
         \/ TokenEffect(c) \/ LoadExpEffect(c) \/ ForceEffect(c)
         \/ FailEffect(c) \/ GetRTEffect(c) \/ GetCIDEffect(c)
         \/ WriteEffect(c) \/ PersistEffect(c) \/ PublishEffect(c)
         \/ ServeEffect(c) \/ OKEffect(c) \/ Effect401(c)
  PROVE  CallsKnown'
<1>1. \A pc, rt, cid, tok, tries :
        /\ Moved(c, pc, rt, cid, tok, tries)
        /\ rt \in Tokens /\ cid \in Tokens /\ tok \in Tokens
        /\ tries < Attempts
        => CallsKnown'
  <2>1. Tokens' = Tokens
    BY DEF Tokens
  <2> QED
    BY <2>1, CallsKnownMove DEF Known
<1>2. ASSUME LoadExpEffect(c) PROVE CallsKnown'
  BY <1>1, <1>2, KnownHere DEF LoadExpEffect
<1>3. ASSUME TokenEffect(c) PROVE CallsKnown'
  BY <1>1, <1>3, KnownHere DEF TokenEffect
<1>4. ASSUME PersistEffect(c) PROVE CallsKnown'
  BY <1>1, <1>4, KnownHere DEF PersistEffect
<1>5. ASSUME GetRTEffect(c) \/ GetCIDEffect(c) \/ FailEffect(c) PROVE CallsKnown'
  BY <1>1, <1>5, KnownHere DEF GetRTEffect, GetCIDEffect, FailEffect
<1>6. ASSUME \/ ForceEffect(c) \/ WriteEffect(c) \/ PublishEffect(c)
             \/ ServeEffect(c) \/ OKEffect(c) \/ Effect401(c)
      PROVE  CallsKnown'
  BY <1>1, <1>6, KnownHere
  DEF ForceEffect, WriteEffect, PublishEffect, ServeEffect, OKEffect, Effect401
<1> QED
  BY <1>2, <1>3, <1>4, <1>5, <1>6

\* Every step keeps its values among the tokens issued so far.
LEMMA KnownStep ==
  ASSUME Shape, Known, [Next]_vars
  PROVE  Known'
<1> DEFINE Goal == Known'
<1> USE TokenAssumption
<1>1. ASSUME NEW c \in Callers, Token(c) PROVE Goal
  <2>1. UNCHANGED client /\ Issued' = Issued /\ Tokens' = Tokens
    BY <1>1 DEF Token, Issued, Tokens, provider
  <2>2. CallsKnown'
    BY <1>1, <2>1, CallEffects, CallsKnownStep
  <2> QED
    BY <1>1, <2>1, <2>2 DEF Token, Known, provider, history
<1>2. ASSUME NEW c \in Callers, LoadExp(c) PROVE Goal
  <2>1. UNCHANGED client /\ Issued' = Issued /\ Tokens' = Tokens
    BY <1>2 DEF LoadExp, Issued, Tokens, provider
  <2>2. CallsKnown'
    BY <1>2, <2>1, CallEffects, CallsKnownStep
  <2>3. \A q \in Procs : cache'[q].at \in Tokens /\ cache'[q].exp \in Tokens
    BY <1>2, CallEffects, KnownHere DEF LoadExpEffect, Known, Shape
  <2> QED
    BY <1>2, <2>1, <2>2, <2>3 DEF LoadExp, Known, provider, history
<1>3. ASSUME NEW c \in Callers, ForceRefresh(c) PROVE Goal
  <2>1. UNCHANGED client /\ Issued' = Issued /\ Tokens' = Tokens
    BY <1>3 DEF ForceRefresh, Issued, Tokens, provider
  <2>2. CallsKnown'
    BY <1>3, <2>1, CallEffects, CallsKnownStep
  <2>3. \A q \in Procs : cache'[q].at \in Tokens /\ cache'[q].exp \in Tokens
    BY <1>3, KnownHere DEF ForceRefresh, NoPair, Known, Shape
  <2> QED
    BY <1>3, <2>1, <2>2, <2>3 DEF ForceRefresh, Known, provider, history
<1>4. ASSUME NEW c \in Callers, GetRT(c) PROVE Goal
  <2>1. UNCHANGED client /\ Issued' = Issued /\ Tokens' = Tokens
    BY <1>4 DEF GetRT, Issued, Tokens, provider
  <2>2. CallsKnown'
    BY <1>4, <2>1, CallEffects, CallsKnownStep
  <2> QED
    BY <1>4, <2>1, <2>2 DEF GetRT, Known, provider, history
<1>5. ASSUME NEW c \in Callers, GetCID(c) PROVE Goal
  <2>1. UNCHANGED client /\ Issued' = Issued /\ Tokens' = Tokens
    BY <1>5 DEF GetCID, Issued, Tokens, provider
  <2>2. CallsKnown'
    BY <1>5, <2>1, CallEffects, CallsKnownStep
  <2> QED
    BY <1>5, <2>1, <2>2 DEF GetCID, Known, provider, history
<1>6. ASSUME NEW c \in Callers, Refresh(c) PROVE Goal
  <2>2. call[c].rt \in redeemable /\ Redeemed(call[c].rt)
    BY <1>6 DEF Refresh
  <2>3. /\ Issued \subseteq Issued' /\ Tokens \subseteq Tokens'
        /\ \A j \in Issued : client'[j] = client[j]
        /\ Len(client') = Len(client) + 1
        /\ client'[Len(client) + 1] = client[call[c].rt]
        /\ Len(client) + 1 \in Issued' /\ Len(client) + 1 \in Tokens'
        /\ client[call[c].rt] \in Issued
    BY <2>2, RedeemedGrows
  <2>4. CallsKnown'
    BY <1>6, <2>3, CallEffects, KnownHere, CallsKnownMove
    DEF RefreshEffect, Known
  <2>5. \A j \in Issued' : j \in Issued \/ j = Len(client) + 1
    BY <2>3 DEF Issued, Shape
  <2>6. \A i \in Issued' : client'[i] \in Issued'
    BY <2>3, <2>5 DEF Known
  <2>7. (redeemable \cup due \cup refused \subseteq Issued)'
    BY <2>2, <2>3 DEF Redeemed, Known
  <2>8. \A q \in Procs : cache'[q].at \in Tokens' /\ cache'[q].exp \in Tokens'
    BY <1>6, <2>3, KnownHere DEF Refresh, Known, Shape
  <2> QED
    BY <1>6, <2>3, <2>4, <2>6, <2>7, <2>8 DEF Refresh, Known, history
<1>7. ASSUME NEW c \in Callers, RefreshRefused(c) PROVE Goal
  <2>1. UNCHANGED client /\ Issued' = Issued /\ Tokens' = Tokens
    BY <1>7 DEF RefreshRefused, Issued, Tokens, provider
  <2>2. CallsKnown'
    BY <1>7, <2>1, CallEffects, CallsKnownStep
  <2> QED
    BY <1>7, <2>1, <2>2 DEF RefreshRefused, Known, provider, history
<1>8. ASSUME NEW c \in Callers, SetRT(c) PROVE Goal
  <2>1. UNCHANGED client /\ Issued' = Issued /\ Tokens' = Tokens
    BY <1>8 DEF SetRT, Issued, Tokens, provider
  <2>2. CallsKnown'
    BY <1>8, <2>1, CallEffects, CallsKnownStep
  <2>3. \A k \in Keys : store'[k] \in Tokens
    BY <1>8, KnownHere DEF SetRT, Known, Shape, Keys
  <2> QED
    BY <1>8, <2>1, <2>2, <2>3 DEF SetRT, Known, provider, history
<1>9. ASSUME NEW c \in Callers, Verify(c) PROVE Goal
  <2>1. UNCHANGED client /\ Issued' = Issued /\ Tokens' = Tokens
    BY <1>9 DEF Verify, Issued, Tokens, provider
  <2>2. CallsKnown'
    BY <1>9, <2>1, CallEffects, CallsKnownStep
  <2> QED
    BY <1>9, <2>1, <2>2 DEF Verify, Known, provider, history
<1>10. ASSUME NEW c \in Callers, PublishAT(c) PROVE Goal
  <2>1. UNCHANGED client /\ Issued' = Issued /\ Tokens' = Tokens
    BY <1>10 DEF PublishAT, Issued, Tokens, provider
  <2>2. CallsKnown'
    BY <1>10, <2>1, CallEffects, CallsKnownStep
  <2>3. \A k \in Keys : store'[k] \in Tokens
    BY <1>10, KnownHere DEF PublishAT, Known, Shape, Keys
  <2> QED
    BY <1>10, <2>1, <2>2, <2>3 DEF PublishAT, Known, provider, history
<1>11. ASSUME NEW c \in Callers, PublishExp(c) PROVE Goal
  <2>1. UNCHANGED client /\ Issued' = Issued /\ Tokens' = Tokens
    BY <1>11 DEF PublishExp, Issued, Tokens, provider
  <2>2. CallsKnown'
    BY <1>11, <2>1, CallEffects, CallsKnownStep
  <2>3. \A k \in Keys : store'[k] \in Tokens
    BY <1>11, KnownHere DEF PublishExp, Known, Shape, Keys
  <2> QED
    BY <1>11, <2>1, <2>2, <2>3 DEF PublishExp, Known, provider, history
<1>12. ASSUME NEW c \in Callers, IssueOK(c) PROVE Goal
  <2>1. UNCHANGED client /\ Issued' = Issued /\ Tokens' = Tokens
    BY <1>12 DEF IssueOK, Issued, Tokens, provider
  <2>2. CallsKnown'
    BY <1>12, <2>1, CallEffects, CallsKnownStep
  <2> QED
    BY <1>12, <2>1, <2>2 DEF IssueOK, Known, provider, history
<1>13. ASSUME NEW c \in Callers, Issue401(c) PROVE Goal
  <2>1. UNCHANGED client /\ Issued' = Issued /\ Tokens' = Tokens
    BY <1>13 DEF Issue401, Issued, Tokens, provider
  <2>2. CallsKnown'
    BY <1>13, <2>1, CallEffects, CallsKnownStep
  <2> QED
    BY <1>13, <2>1, <2>2 DEF Issue401, Known, provider, history
<1>14. ASSUME NEW c \in Callers, GetFails(c) PROVE Goal
  <2>1. UNCHANGED client /\ Issued' = Issued /\ Tokens' = Tokens
    BY <1>14 DEF GetFails, Issued, Tokens, provider
  <2>2. CallsKnown'
    BY <1>14, <2>1, CallEffects, CallsKnownStep
  <2> QED
    BY <1>14, <2>1, <2>2 DEF GetFails, Known, provider, history
<1>15. ASSUME NEW c \in Callers, RefreshLost(c) PROVE Goal
  <2>2. call[c].rt \in redeemable /\ Redeemed(call[c].rt)
    BY <1>15 DEF RefreshLost
  <2>3. /\ Issued \subseteq Issued' /\ Tokens \subseteq Tokens'
        /\ \A j \in Issued : client'[j] = client[j]
        /\ Len(client') = Len(client) + 1
        /\ client'[Len(client) + 1] = client[call[c].rt]
        /\ Len(client) + 1 \in Issued' /\ Len(client) + 1 \in Tokens'
        /\ client[call[c].rt] \in Issued
    BY <2>2, RedeemedGrows
  <2>4. CallsKnown'
    BY <1>15, <2>3, CallEffects, KnownHere, CallsKnownMove
    DEF FailEffect, Known
  <2>5. \A j \in Issued' : j \in Issued \/ j = Len(client) + 1
    BY <2>3 DEF Issued, Shape
  <2>6. \A i \in Issued' : client'[i] \in Issued'
    BY <2>3, <2>5 DEF Known
  <2>7. (redeemable \cup due \cup refused \subseteq Issued)'
    BY <2>2, <2>3 DEF Redeemed, Known
  <2>8. \A q \in Procs : cache'[q].at \in Tokens' /\ cache'[q].exp \in Tokens'
    BY <1>15, <2>3, KnownHere DEF RefreshLost, Known, Shape
  <2> QED
    BY <1>15, <2>3, <2>4, <2>6, <2>7, <2>8 DEF RefreshLost, Known, history
<1>16. ASSUME NEW c \in Callers, SetLies(c) PROVE Goal
  <2>1. UNCHANGED client /\ Issued' = Issued /\ Tokens' = Tokens
    BY <1>16 DEF SetLies, Issued, Tokens, provider
  <2>2. CallsKnown'
    BY <1>16, <2>1, CallEffects, CallsKnownStep
  <2> QED
    BY <1>16, <2>1, <2>2 DEF SetLies, Known, provider, history
<1>17. ASSUME NEW c \in Callers, PersistFails(c) PROVE Goal
  <2>1. UNCHANGED client /\ Issued' = Issued /\ Tokens' = Tokens
    BY <1>17 DEF PersistFails, Issued, Tokens, provider
  <2>2. CallsKnown'
    BY <1>17, <2>1, CallEffects, CallsKnownStep
  <2> QED
    BY <1>17, <2>1, <2>2 DEF PersistFails, Known, provider, history
<1>18. ASSUME NEW c \in Callers, PersistCancelled(c) PROVE Goal
  <2>1. UNCHANGED client /\ Issued' = Issued /\ Tokens' = Tokens
    BY <1>18 DEF PersistCancelled, Issued, Tokens, provider
  <2>2. CallsKnown'
    BY <1>18, <2>1, CallEffects, CallsKnownStep
  <2> QED
    BY <1>18, <2>1, <2>2 DEF PersistCancelled, Known, provider, history
<1>19. ASSUME NEW c \in Callers, PublishFails(c) PROVE Goal
  <2>1. UNCHANGED client /\ Issued' = Issued /\ Tokens' = Tokens
    BY <1>19 DEF PublishFails, Issued, Tokens, provider
  <2>2. CallsKnown'
    BY <1>19, <2>1, CallEffects, CallsKnownStep
  <2> QED
    BY <1>19, <2>1, <2>2 DEF PublishFails, Known, provider, history
<1>20. CASE LoginGranted
  <2> DEFINE new == Len(client) + 1
  <2>0. new \in Nat /\ client' = Append(client, new)
    BY <1>20 DEF LoginGranted, Shape
  <2>1. /\ Issued \subseteq Issued' /\ Tokens \subseteq Tokens'
        /\ \A j \in Issued : client'[j] = client[j]
        /\ client'[new] = new /\ Len(client') = Len(client) + 1
        /\ new \in Issued' /\ new \in Tokens'
    BY <2>0, IssuedGrows
  <2>2. \A j \in Issued' : j \in Issued \/ j = new
    BY <2>1 DEF Issued, Shape
  <2>3. \A i \in Issued' : client'[i] \in Issued'
    BY <2>1, <2>2 DEF Known
  <2>4. redeemable' = redeemable \cup {new}
    BY <1>20 DEF LoginGranted
  <2>5. /\ UNCHANGED <<store, due, refused, cache, call>>
        /\ cli'.tok = new /\ cli'.step # 0
    BY <1>20 DEF LoginGranted
  <2> HIDE DEF new
  <2>6. CallsKnown'
    BY <2>1, <2>5 DEF Known, CallsKnown
  <2>7. (redeemable \cup due \cup refused \subseteq Issued)'
    BY <2>1, <2>4, <2>5 DEF Known
  <2> QED
    BY <2>1, <2>3, <2>5, <2>6, <2>7 DEF Known
<1>21. CASE LogoutReads
  BY <1>21
  DEF LogoutReads, Known, CallsKnown, Moved, Keys, Issued, Tokens, provider,
      history, Shape
<1>22. CASE LoginSet
  <2>1. cli \in Command /\ "loggedIn" \in Words
    BY DEF Shape, Words
  <2>2. /\ cli'.tok \in {0, cli.tok}
        /\ cli'.cmd = "login" => cli'.tok = cli.tok /\ cli'.step = cli.step + 1
    BY <1>22, <2>1, CommandMoves DEF LoginSet
  <2>3. 0 \in Tokens
    BY DEF Tokens, Shape
  <2>4. Issued' = Issued /\ Tokens' = Tokens
    BY <1>22 DEF LoginSet, Issued, Tokens, provider
  <2>5. cli.tok \in Issued /\ client[cli.tok] \in Tokens /\ cli.tok \in Tokens
    BY <1>22 DEF LoginSet, Known, Tokens, Issued
  <2>6. \A k \in Keys : store'[k] \in Tokens
    BY <1>22, <2>5 DEF LoginSet, Known, Shape
  <2>7. CallsKnown'
    BY <1>22, <2>4 DEF LoginSet, Known, CallsKnown
  <2>8. cli'.cmd = "login" => cli'.step # 0
    BY <2>1, <2>2 DEF Command
  <2> QED
    BY <1>22, <2>2, <2>3, <2>4, <2>5, <2>6, <2>7, <2>8
    DEF LoginSet, Known, provider
<1>23. CASE LogoutRevokes
  BY <1>23
  DEF LogoutRevokes, Known, CallsKnown, Moved, Keys, Issued, Tokens,
      provider, history, Shape
<1>24. CASE LogoutDeletes
  <2>1. cli \in Command /\ cli.said \in Words
    BY DEF Shape, Command
  <2>2. cli'.cmd # "login" /\ cli'.tok \in {0, cli.tok}
    BY <1>24, <2>1, CommandMoves DEF LogoutDeletes
  <2>3. 0 \in Tokens
    BY DEF Tokens, Shape
  <2>4. Issued' = Issued /\ Tokens' = Tokens
    BY <1>24 DEF LogoutDeletes, Issued, Tokens, provider
  <2>5. \A k \in Keys : store'[k] \in Tokens
    BY <1>24, <2>3 DEF LogoutDeletes, Known, Shape
  <2>6. CallsKnown'
    BY <1>24, <2>4 DEF LogoutDeletes, Known, CallsKnown
  <2> QED
    BY <1>24, <2>2, <2>3, <2>4, <2>5, <2>6
    DEF LogoutDeletes, Known, provider
<1>25. CASE LoginFails
  BY <1>25
  DEF LoginFails, Done, Known, CallsKnown, Moved, Keys, Issued, Tokens,
      provider, history, Shape
<1>26. CASE LogoutFails
  <2>1. cli \in Command /\ "error" \in Words
    BY DEF Shape, Words
  <2>2. cli'.cmd # "login" /\ cli'.tok \in {0, cli.tok}
    BY <1>26, <2>1, CommandMoves DEF LogoutFails
  <2>3. 0 \in Tokens
    BY DEF Tokens, Shape
  <2>4. Issued' = Issued /\ Tokens' = Tokens
    BY <1>26 DEF LogoutFails, Issued, Tokens, provider
  <2>5. CallsKnown'
    BY <1>26, <2>4 DEF LogoutFails, Known, CallsKnown
  <2> QED
    BY <1>26, <2>2, <2>3, <2>4, <2>5 DEF LogoutFails, Known, provider
<1>27. CASE Age
  BY <1>27
  DEF Age, Known, CallsKnown, Moved, Keys, Issued, Tokens, provider,
      history, Shape
<1>28. CASE Refuse
  BY <1>28
  DEF Refuse, Known, CallsKnown, Moved, Keys, Issued, Tokens, provider,
      history, Shape
<1>29. ASSUME NEW p \in Procs, Crash(p) PROVE Goal
  BY <1>29
  DEF Crash, NoPair, NoCall, Known, CallsKnown, Moved, Keys, Issued, Tokens,
      provider, history, Shape
<1>31. ASSUME NEW c \in Callers, RefreshKeeps(c) PROVE Goal
  <2>2. call[c].rt \in redeemable /\ Kept(call[c].rt)
    BY <1>31 DEF RefreshKeeps
  <2>3. /\ Issued \subseteq Issued' /\ Tokens \subseteq Tokens'
        /\ \A j \in Issued : client'[j] = client[j]
        /\ Len(client') = Len(client) + 1
        /\ client'[Len(client) + 1] = client[call[c].rt]
        /\ Len(client) + 1 \in Issued' /\ Len(client) + 1 \in Tokens'
        /\ client[call[c].rt] \in Issued
    BY <2>2, KeptGrows
  <2>4. CallsKnown'
    BY <1>31, <2>3, CallEffects, KnownHere, CallsKnownMove
    DEF KeepEffect, Known
  <2>5. \A j \in Issued' : j \in Issued \/ j = Len(client) + 1
    BY <2>3 DEF Issued, Shape
  <2>6. \A i \in Issued' : client'[i] \in Issued'
    BY <2>3, <2>5 DEF Known
  <2>7. (redeemable \cup due \cup refused \subseteq Issued)'
    BY <2>2, <2>3 DEF Kept, Known
  <2>8. \A q \in Procs : cache'[q].at \in Tokens' /\ cache'[q].exp \in Tokens'
    BY <1>31, <2>3, KnownHere DEF RefreshKeeps, Known, Shape
  <2> QED
    BY <1>31, <2>3, <2>4, <2>6, <2>7, <2>8 DEF RefreshKeeps, Known, history
<1>32. CASE CommandKilled
  BY <1>32
  DEF CommandKilled, Done, Known, CallsKnown, Moved, Keys, Issued, Tokens,
      provider, history, Shape
<1>30. CASE UNCHANGED vars
  BY <1>30
  DEF vars, provider, history, Known, CallsKnown, Moved, Keys, Issued,
      Tokens, provider, history, Shape
<1> QED
  BY <1>1, <1>2, <1>3, <1>4, <1>5, <1>6, <1>7, <1>8, <1>9, <1>10, <1>11, <1>12,
     <1>13, <1>14, <1>15, <1>16, <1>17, <1>18, <1>19, <1>20, <1>21, <1>22,
     <1>23, <1>24, <1>25, <1>26, <1>27, <1>28, <1>29, <1>30, <1>31, <1>32
  DEF Next, CallStep, CallFault, CommandStep

\* o.mu is held exactly by the caller that is inside the token source.
Mutex ==
  \A c \in Callers : mu[ProcOf[c]] = c <=> call[c].pc \notin Outside

\* A step of c that enters the token source, leaves it, or does neither.
MutexMove(c) ==
  /\ \A d \in Callers : d # c => call'[d] = call[d]
  /\ \/ Free(c) /\ Lock(c) /\ call'[c].pc \notin Outside
     \/ /\ Unlock(c)
        /\ call[c].pc \notin Outside /\ call'[c].pc \in Outside
     \/ UNCHANGED mu /\ (call[c].pc \in Outside <=> call'[c].pc \in Outside)

\* Such a step keeps the mutex with the caller that is inside.
LEMMA MutexMoves ==
  ASSUME Shape, Mutex, NEW c \in Callers, MutexMove(c)
  PROVE  Mutex'
<1>1. /\ ProcOf \in [Callers -> Procs] /\ None \notin Callers
      /\ mu \in [Procs -> Callers \cup {None}]
  BY TokenAssumption DEF Shape
<1>2. CASE Free(c) /\ Lock(c) /\ call'[c].pc \notin Outside
  BY <1>1, <1>2 DEF Mutex, MutexMove, Free, Lock
<1>3. CASE Unlock(c) /\ call[c].pc \notin Outside /\ call'[c].pc \in Outside
  BY <1>1, <1>3 DEF Mutex, MutexMove, Unlock
<1>4. CASE UNCHANGED mu /\ (call[c].pc \in Outside <=> call'[c].pc \in Outside)
  BY <1>4 DEF Mutex, MutexMove
<1> QED
  BY <1>2, <1>3, <1>4 DEF MutexMove

\* Every step takes the mutex on the way in and releases it on the way out.
LEMMA MutexStep ==
  ASSUME Shape, Mutex, [Next]_vars
  PROVE  Mutex'
<1> DEFINE Goal == Mutex'
<1> USE TokenAssumption
<1>1. ASSUME NEW c \in Callers, Token(c) PROVE Goal
  <2>1. MutexMove(c)
    BY <1>1, CallEffects DEF Token, TokenEffect, MutexMove, Moved, Outside
  <2> QED
    BY <2>1, MutexMoves
<1>2. ASSUME NEW c \in Callers, LoadExp(c) PROVE Goal
  <2>1. MutexMove(c)
    BY <1>2, CallEffects DEF LoadExp, LoadExpEffect, MutexMove, Moved, Outside
  <2> QED
    BY <2>1, MutexMoves
<1>3. ASSUME NEW c \in Callers, ForceRefresh(c) PROVE Goal
  <2>1. MutexMove(c)
    BY <1>3, CallEffects
    DEF ForceRefresh, ForceEffect, MutexMove, Moved, Outside
  <2> QED
    BY <2>1, MutexMoves
<1>4. ASSUME NEW c \in Callers, GetRT(c) PROVE Goal
  <2>1. MutexMove(c)
    BY <1>4, CallEffects
    DEF GetRT, GetRTEffect, FailEffect, MutexMove, Moved, Outside
  <2> QED
    BY <2>1, MutexMoves
<1>5. ASSUME NEW c \in Callers, GetCID(c) PROVE Goal
  <2>1. MutexMove(c)
    BY <1>5, CallEffects
    DEF GetCID, GetCIDEffect, FailEffect, MutexMove, Moved, Outside
  <2> QED
    BY <2>1, MutexMoves
<1>6. ASSUME NEW c \in Callers, Refresh(c) PROVE Goal
  <2>1. MutexMove(c)
    BY <1>6, CallEffects DEF Refresh, RefreshEffect, MutexMove, Moved, Outside
  <2> QED
    BY <2>1, MutexMoves
<1>7. ASSUME NEW c \in Callers, RefreshRefused(c) PROVE Goal
  <2>1. MutexMove(c)
    BY <1>7, CallEffects
    DEF RefreshRefused, FailEffect, MutexMove, Moved, Outside
  <2> QED
    BY <2>1, MutexMoves
<1>8. ASSUME NEW c \in Callers, SetRT(c) PROVE Goal
  <2>1. MutexMove(c)
    BY <1>8, CallEffects DEF SetRT, WriteEffect, MutexMove, Moved, Outside
  <2> QED
    BY <2>1, MutexMoves
<1>9. ASSUME NEW c \in Callers, Verify(c) PROVE Goal
  <2>1. MutexMove(c)
    BY <1>9, CallEffects DEF Verify, PersistEffect, MutexMove, Moved, Outside
  <2> QED
    BY <2>1, MutexMoves
<1>10. ASSUME NEW c \in Callers, PublishAT(c) PROVE Goal
  <2>1. MutexMove(c)
    BY <1>10, CallEffects
    DEF PublishAT, PublishEffect, MutexMove, Moved, Outside
  <2> QED
    BY <2>1, MutexMoves
<1>11. ASSUME NEW c \in Callers, PublishExp(c) PROVE Goal
  <2>1. MutexMove(c)
    BY <1>11, CallEffects
    DEF PublishExp, ServeEffect, MutexMove, Moved, Outside
  <2> QED
    BY <2>1, MutexMoves
<1>12. ASSUME NEW c \in Callers, IssueOK(c) PROVE Goal
  <2>1. MutexMove(c)
    BY <1>12, CallEffects DEF IssueOK, OKEffect, MutexMove, Moved, Outside
  <2> QED
    BY <2>1, MutexMoves
<1>13. ASSUME NEW c \in Callers, Issue401(c) PROVE Goal
  <2>1. MutexMove(c)
    BY <1>13, CallEffects DEF Issue401, Effect401, MutexMove, Moved, Outside
  <2> QED
    BY <2>1, MutexMoves
<1>14. ASSUME NEW c \in Callers, GetFails(c) PROVE Goal
  <2>1. MutexMove(c)
    BY <1>14, CallEffects DEF GetFails, FailEffect, MutexMove, Moved, Outside
  <2> QED
    BY <2>1, MutexMoves
<1>15. ASSUME NEW c \in Callers, RefreshLost(c) PROVE Goal
  <2>1. MutexMove(c)
    BY <1>15, CallEffects
    DEF RefreshLost, FailEffect, MutexMove, Moved, Outside
  <2> QED
    BY <2>1, MutexMoves
<1>16. ASSUME NEW c \in Callers, SetLies(c) PROVE Goal
  <2>1. MutexMove(c)
    BY <1>16, CallEffects DEF SetLies, WriteEffect, MutexMove, Moved, Outside
  <2> QED
    BY <2>1, MutexMoves
<1>17. ASSUME NEW c \in Callers, PersistFails(c) PROVE Goal
  <2>1. MutexMove(c)
    BY <1>17, CallEffects
    DEF PersistFails, PersistEffect, MutexMove, Moved, Outside, Persisting
  <2> QED
    BY <2>1, MutexMoves
<1>18. ASSUME NEW c \in Callers, PersistCancelled(c) PROVE Goal
  <2>1. MutexMove(c)
    BY <1>18, CallEffects
    DEF PersistCancelled, PersistEffect, MutexMove, Moved, Outside
  <2> QED
    BY <2>1, MutexMoves
<1>19. ASSUME NEW c \in Callers, PublishFails(c) PROVE Goal
  <2>1. MutexMove(c)
    BY <1>19, CallEffects
    DEF PublishFails, ServeEffect, MutexMove, Moved, Outside
  <2> QED
    BY <2>1, MutexMoves
<1>20. CASE LoginGranted
  BY <1>20 DEF LoginGranted, Mutex, Moved, Outside, Shape, provider, history
<1>21. CASE LogoutReads
  BY <1>21 DEF LogoutReads, Mutex, Moved, Outside, Shape, provider, history
<1>22. CASE LoginSet
  BY <1>22
  DEF LoginSet, Done, loginKeys, Mutex, Moved, Outside, Shape, provider,
      history
<1>23. CASE LogoutRevokes
  BY <1>23 DEF LogoutRevokes, Mutex, Moved, Outside, Shape, provider, history
<1>24. CASE LogoutDeletes
  BY <1>24
  DEF LogoutDeletes, LogoutNext, Done, logoutKeys, Mutex, Moved, Outside,
      Shape, provider, history
<1>25. CASE LoginFails
  BY <1>25
  DEF LoginFails, Done, Mutex, Moved, Outside, Shape, provider, history
<1>26. CASE LogoutFails
  BY <1>26
  DEF LogoutFails, LogoutNext, Done, Mutex, Moved, Outside, Shape, provider,
      history
<1>27. CASE Age
  BY <1>27 DEF Age, Mutex, Moved, Outside, Shape, provider, history
<1>28. CASE Refuse
  BY <1>28 DEF Refuse, Mutex, Moved, Outside, Shape, provider, history
<1>29. ASSUME NEW p \in Procs, Crash(p) PROVE Goal
  BY <1>29
  DEF Crash, NoPair, NoCall, Mutex, Moved, Outside, Shape, provider, history
<1>31. ASSUME NEW c \in Callers, RefreshKeeps(c) PROVE Goal
  <2>1. MutexMove(c)
    BY <1>31, CallEffects DEF RefreshKeeps, KeepEffect, MutexMove, Moved, Outside
  <2> QED
    BY <2>1, MutexMoves
<1>32. CASE CommandKilled
  BY <1>32
  DEF CommandKilled, Done, Mutex, Moved, Outside, Shape, provider, history
<1>30. CASE UNCHANGED vars
  BY <1>30
  DEF vars, provider, history, Mutex, Moved, Outside, Shape, provider,
      history
<1> QED
  BY <1>1, <1>2, <1>3, <1>4, <1>5, <1>6, <1>7, <1>8, <1>9, <1>10, <1>11, <1>12,
     <1>13, <1>14, <1>15, <1>16, <1>17, <1>18, <1>19, <1>20, <1>21, <1>22,
     <1>23, <1>24, <1>25, <1>26, <1>27, <1>28, <1>29, <1>30, <1>31, <1>32
  DEF Next, CallStep, CallFault, CommandStep

-----------------------------------------------------------------------------
(* A token dropped after a 401 is not handed out again                      *)

\* A process that dropped a token holds no copy of it: neither in its cache nor
\* in the published token, which it reads only before the first refresh.
ProcDropped(p) ==
  /\ rejected[p] \subseteq Issued
  /\ cache[p].at \notin rejected[p]
  /\ rejected[p] # {} => pubRead[p]

CallDropped(c) ==
  /\ call[c].pc \in {"issue", "force"} => call[c].tok # 0
  /\ call[c].pc = "readExp" => ~ pubRead[ProcOf[c]]
  /\ call[c].pc \in {"set", "verify", "pubAT", "pubExp"} =>
       cache[ProcOf[c]].at # 0

Dropped ==
  /\ \A p \in Procs : ProcDropped(p)
  /\ \A c \in Callers : CallDropped(c)


\* A step hands no caller a token that its process dropped.
ServedTo(c) ==
  call[c].pc # "issue" /\ call'[c].pc = "issue" =>
    call'[c].tok \notin rejected[ProcOf[c]]

NotServed == \A c \in Callers : ServedTo(c)

CallMove(c) ==
  /\ CallDropped(c)'
  /\ ServedTo(c)
  /\ \A d \in Callers : d # c => call'[d] = call[d]

ProcMove(p) ==
  /\ ProcDropped(p)'
  /\ \A q \in Procs : q # p => /\ cache'[q] = cache[q]
                               /\ pubRead'[q] = pubRead[q]
                               /\ rejected'[q] = rejected[q]

\* While a caller is inside the token source, or enters it, the other callers of
\* its process are outside.
LEMMA Alone ==
  ASSUME Mutex, NEW c \in Callers, Free(c) \/ call[c].pc \notin Outside
  PROVE  \A d \in Callers : d # c /\ ProcOf[d] = ProcOf[c] =>
                              call[d].pc \in Outside
  BY TokenAssumption DEF Mutex, Free

\* A step of c that leaves the source of its process alone.
LEMMA DroppedMove ==
  ASSUME Dropped, NEW c \in Callers, CallMove(c),
         UNCHANGED <<cache, pubRead, rejected>>, Issued \subseteq Issued'
  PROVE  Dropped' /\ NotServed
  BY DEF Dropped, ProcDropped, CallDropped, CallMove, NotServed, ServedTo

\* A step of c that changes the source of its process.
LEMMA DroppedAlone ==
  ASSUME Mutex, Dropped, NEW c \in Callers, CallMove(c), ProcMove(ProcOf[c]),
         Free(c) \/ call[c].pc \notin Outside, Issued \subseteq Issued'
  PROVE  Dropped' /\ NotServed
<1>1. ASSUME NEW p \in Procs PROVE ProcDropped(p)'
  BY <1>1 DEF Dropped, ProcDropped, ProcMove
<1>2. ASSUME NEW d \in Callers PROVE CallDropped(d)' /\ ServedTo(d)
  <2>1. CASE d = c
    BY <2>1 DEF CallMove
  <2>2. CASE d # c /\ ProcOf[d] = ProcOf[c]
    BY <2>2, Alone DEF Outside, Dropped, CallDropped, CallMove, ServedTo
  <2>3. CASE ProcOf[d] # ProcOf[c]
    BY <2>3, TokenAssumption
    DEF Dropped, CallDropped, CallMove, ServedTo, ProcMove
  <2> QED
    BY <2>1, <2>2, <2>3
<1> QED
  BY <1>1, <1>2 DEF Dropped, NotServed

\* Every step keeps Dropped and hands out no dropped token.
LEMMA DroppedStep ==
  ASSUME Shape, Known, Mutex, Dropped, [Next]_vars
  PROVE  Dropped' /\ NotServed
<1> DEFINE Goal == Dropped' /\ NotServed
<1> USE TokenAssumption
<1>1. ASSUME NEW c \in Callers, Token(c) PROVE Goal
  <2>1. /\ ProcOf[c] \in Procs
        /\ ProcDropped(ProcOf[c])
    BY KnownHere DEF Dropped
  <2>2. Issued \subseteq Issued'
    BY <1>1 DEF Token, Issued, provider
  <2>3. CASE UNCHANGED pubRead
    <3>1. CallMove(c)
      BY <1>1, <2>1, <2>3, CallEffects
      DEF Token, TokenEffect, CallMove, CallDropped, ServedTo, Moved, ProcDropped, Fresh
    <3> QED
      BY <1>1, <2>2, <2>3, <3>1, DroppedMove DEF Token, history
  <2>4. CASE pubRead' = [pubRead EXCEPT ![ProcOf[c]] = TRUE]
    <3>1. CallMove(c)
      BY <1>1, <2>1, <2>4, CallEffects
      DEF Token, TokenEffect, CallMove, CallDropped, ServedTo, Moved, ProcDropped, Fresh, Shape
    <3>2. ProcMove(ProcOf[c])
      BY <1>1, <2>1, <2>2, <2>4
      DEF Token, ProcMove, ProcDropped, Shape, history
    <3> QED
      BY <1>1, <2>2, <3>1, <3>2, DroppedAlone DEF Token
  <2> QED
    BY <1>1, <2>3, <2>4 DEF Token, Refreshes
<1>2. ASSUME NEW c \in Callers, LoadExp(c) PROVE Goal
  <2>1. /\ ProcOf[c] \in Procs
        /\ ProcDropped(ProcOf[c])
        /\ rejected[ProcOf[c]] = {}
    BY <1>2, KnownHere DEF LoadExp, Dropped, ProcDropped, CallDropped
  <2>2. Issued \subseteq Issued'
    BY <1>2 DEF LoadExp, Issued, provider
  <2>3. CallMove(c)
    BY <1>2, <2>1, CallEffects
    DEF LoadExp, LoadExpEffect, CallMove, CallDropped, ServedTo, Moved, Fresh
  <2>4. ProcMove(ProcOf[c])
    BY <1>2, <2>1, <2>2 DEF LoadExp, ProcMove, ProcDropped, Shape, history
  <2>5. call[c].pc \notin Outside
    BY <1>2 DEF LoadExp, Outside
  <2> QED
    BY <2>2, <2>3, <2>4, <2>5, DroppedAlone
<1>3. ASSUME NEW c \in Callers, ForceRefresh(c) PROVE Goal
  <2>1. /\ ProcOf[c] \in Procs
        /\ ProcDropped(ProcOf[c])
        /\ call[c].tok \in Issued
    BY <1>3, KnownHere
    DEF ForceRefresh, Dropped, ProcDropped, CallDropped, Issued, Tokens, Shape
  <2>2. Issued \subseteq Issued'
    BY <1>3 DEF ForceRefresh, Issued, provider
  <2>3. CallMove(c)
    BY <1>3, CallEffects
    DEF ForceRefresh, ForceEffect, CallMove, CallDropped, ServedTo, Moved
  <2>4. 0 \notin Issued'
    BY DEF Issued
  <2>5. ProcMove(ProcOf[c])
    BY <1>3, <2>1, <2>2, <2>4
    DEF ForceRefresh, NoPair, ProcMove, ProcDropped, Shape
  <2> QED
    BY <1>3, <2>2, <2>3, <2>5, DroppedAlone DEF ForceRefresh
<1>4. ASSUME NEW c \in Callers, GetRT(c) PROVE Goal
  <2>2. CallMove(c)
    BY <1>4, CallEffects
    DEF GetRT, GetRTEffect, FailEffect, CallMove, CallDropped, ServedTo, Moved
  <2>3. UNCHANGED <<cache, pubRead, rejected>> /\ Issued \subseteq Issued'
    BY <1>4 DEF GetRT, Issued, provider, history
  <2> QED
    BY <2>2, <2>3, DroppedMove
<1>5. ASSUME NEW c \in Callers, GetCID(c) PROVE Goal
  <2>2. CallMove(c)
    BY <1>5, CallEffects
    DEF GetCID, GetCIDEffect, FailEffect, CallMove, CallDropped, ServedTo,
        Moved
  <2>3. UNCHANGED <<cache, pubRead, rejected>> /\ Issued \subseteq Issued'
    BY <1>5 DEF GetCID, Issued, provider, history
  <2> QED
    BY <2>2, <2>3, DroppedMove
<1>6. ASSUME NEW c \in Callers, Refresh(c) PROVE Goal
  <2>1. /\ ProcOf[c] \in Procs
        /\ ProcDropped(ProcOf[c])
        /\ Len(client) + 1 # 0 /\ Len(client) + 1 \notin Issued
    BY KnownHere DEF Dropped, Issued, Shape
  <2>2. Issued \subseteq Issued'
    BY <1>6, RedeemedGrows DEF Refresh
  <2>3. /\ cache' = [cache EXCEPT ![ProcOf[c]] =
                       [at |-> Len(client) + 1, exp |-> Len(client) + 1]]
        /\ UNCHANGED <<pubRead, rejected>>
    BY <1>6 DEF Refresh, history
  <2>4. CallMove(c)
    BY <1>6, <2>1, <2>3, CallEffects
    DEF RefreshEffect, CallMove, CallDropped, ServedTo, Moved, Shape
  <2>5. ProcMove(ProcOf[c])
    BY <2>1, <2>2, <2>3 DEF ProcMove, ProcDropped, Shape
  <2>6. call[c].pc \notin Outside
    BY <1>6 DEF Refresh, Outside
  <2> QED
    BY <2>2, <2>4, <2>5, <2>6, DroppedAlone
<1>7. ASSUME NEW c \in Callers, RefreshRefused(c) PROVE Goal
  <2>2. CallMove(c)
    BY <1>7, CallEffects
    DEF RefreshRefused, FailEffect, CallMove, CallDropped, ServedTo, Moved
  <2>3. UNCHANGED <<cache, pubRead, rejected>> /\ Issued \subseteq Issued'
    BY <1>7 DEF RefreshRefused, Issued, provider, history
  <2> QED
    BY <2>2, <2>3, DroppedMove
<1>8. ASSUME NEW c \in Callers, SetRT(c) PROVE Goal
  <2>1. /\ cache[ProcOf[c]].at # 0
        /\ cache[ProcOf[c]].at \notin rejected[ProcOf[c]]
    BY <1>8, KnownHere DEF SetRT, Dropped, ProcDropped, CallDropped
  <2>2. CallMove(c)
    BY <1>8, <2>1, CallEffects
    DEF SetRT, WriteEffect, CallMove, CallDropped, ServedTo, Moved
  <2>3. UNCHANGED <<cache, pubRead, rejected>> /\ Issued \subseteq Issued'
    BY <1>8 DEF SetRT, Issued, provider, history
  <2> QED
    BY <2>2, <2>3, DroppedMove
<1>9. ASSUME NEW c \in Callers, Verify(c) PROVE Goal
  <2>1. /\ cache[ProcOf[c]].at # 0
        /\ cache[ProcOf[c]].at \notin rejected[ProcOf[c]]
    BY <1>9, KnownHere DEF Verify, Dropped, ProcDropped, CallDropped
  <2>2. CallMove(c)
    BY <1>9, <2>1, CallEffects
    DEF Verify, PersistEffect, CallMove, CallDropped, ServedTo, Moved
  <2>3. UNCHANGED <<cache, pubRead, rejected>> /\ Issued \subseteq Issued'
    BY <1>9 DEF Verify, Issued, provider, history
  <2> QED
    BY <2>2, <2>3, DroppedMove
<1>10. ASSUME NEW c \in Callers, PublishAT(c) PROVE Goal
  <2>1. /\ cache[ProcOf[c]].at # 0
        /\ cache[ProcOf[c]].at \notin rejected[ProcOf[c]]
    BY <1>10, KnownHere DEF PublishAT, Dropped, ProcDropped, CallDropped
  <2>2. CallMove(c)
    BY <1>10, <2>1, CallEffects
    DEF PublishAT, PublishEffect, CallMove, CallDropped, ServedTo, Moved
  <2>3. UNCHANGED <<cache, pubRead, rejected>> /\ Issued \subseteq Issued'
    BY <1>10 DEF PublishAT, Issued, provider, history
  <2> QED
    BY <2>2, <2>3, DroppedMove
<1>11. ASSUME NEW c \in Callers, PublishExp(c) PROVE Goal
  <2>1. /\ cache[ProcOf[c]].at # 0
        /\ cache[ProcOf[c]].at \notin rejected[ProcOf[c]]
    BY <1>11, KnownHere DEF PublishExp, Dropped, ProcDropped, CallDropped
  <2>2. CallMove(c)
    BY <1>11, <2>1, CallEffects
    DEF PublishExp, ServeEffect, CallMove, CallDropped, ServedTo, Moved
  <2>3. UNCHANGED <<cache, pubRead, rejected>> /\ Issued \subseteq Issued'
    BY <1>11 DEF PublishExp, Issued, provider, history
  <2> QED
    BY <2>2, <2>3, DroppedMove
<1>12. ASSUME NEW c \in Callers, IssueOK(c) PROVE Goal
  <2>2. CallMove(c)
    BY <1>12, CallEffects
    DEF IssueOK, OKEffect, CallMove, CallDropped, ServedTo, Moved
  <2>3. UNCHANGED <<cache, pubRead, rejected>> /\ Issued \subseteq Issued'
    BY <1>12 DEF IssueOK, Issued, provider, history
  <2> QED
    BY <2>2, <2>3, DroppedMove
<1>13. ASSUME NEW c \in Callers, Issue401(c) PROVE Goal
  <2>1. call[c].tok # 0
    BY <1>13 DEF Issue401, Dropped, CallDropped
  <2>2. CallMove(c)
    BY <1>13, <2>1, CallEffects
    DEF Issue401, Effect401, CallMove, CallDropped, ServedTo, Moved
  <2>3. UNCHANGED <<cache, pubRead, rejected>> /\ Issued \subseteq Issued'
    BY <1>13 DEF Issue401, Issued, provider, history
  <2> QED
    BY <2>2, <2>3, DroppedMove
<1>14. ASSUME NEW c \in Callers, GetFails(c) PROVE Goal
  <2>2. CallMove(c)
    BY <1>14, CallEffects
    DEF GetFails, FailEffect, CallMove, CallDropped, ServedTo, Moved
  <2>3. UNCHANGED <<cache, pubRead, rejected>> /\ Issued \subseteq Issued'
    BY <1>14 DEF GetFails, Issued, provider, history
  <2> QED
    BY <2>2, <2>3, DroppedMove
<1>15. ASSUME NEW c \in Callers, RefreshLost(c) PROVE Goal
  <2>1. Issued \subseteq Issued'
    BY <1>15, RedeemedGrows DEF RefreshLost
  <2>2. CallMove(c)
    BY <1>15, <2>1, CallEffects
    DEF RefreshLost, FailEffect, CallMove, CallDropped, ServedTo, Moved
  <2>3. UNCHANGED <<cache, pubRead, rejected>> /\ Issued \subseteq Issued'
    BY <1>15, <2>1 DEF RefreshLost, Issued, provider, history
  <2> QED
    BY <2>2, <2>3, DroppedMove
<1>16. ASSUME NEW c \in Callers, SetLies(c) PROVE Goal
  <2>1. /\ cache[ProcOf[c]].at # 0
        /\ cache[ProcOf[c]].at \notin rejected[ProcOf[c]]
    BY <1>16, KnownHere DEF SetLies, Dropped, ProcDropped, CallDropped
  <2>2. CallMove(c)
    BY <1>16, <2>1, CallEffects
    DEF SetLies, WriteEffect, CallMove, CallDropped, ServedTo, Moved
  <2>3. UNCHANGED <<cache, pubRead, rejected>> /\ Issued \subseteq Issued'
    BY <1>16 DEF SetLies, Issued, provider, history
  <2> QED
    BY <2>2, <2>3, DroppedMove
<1>17. ASSUME NEW c \in Callers, PersistFails(c) PROVE Goal
  <2>1. /\ cache[ProcOf[c]].at # 0
        /\ cache[ProcOf[c]].at \notin rejected[ProcOf[c]]
    BY <1>17, KnownHere
    DEF PersistFails, Dropped, ProcDropped, CallDropped, Persisting
  <2>2. CallMove(c)
    BY <1>17, <2>1, CallEffects
    DEF PersistFails, PersistEffect, CallMove, CallDropped, ServedTo, Moved
  <2>3. UNCHANGED <<cache, pubRead, rejected>> /\ Issued \subseteq Issued'
    BY <1>17 DEF PersistFails, Issued, provider, history
  <2> QED
    BY <2>2, <2>3, DroppedMove
<1>18. ASSUME NEW c \in Callers, PersistCancelled(c) PROVE Goal
  <2>1. /\ cache[ProcOf[c]].at # 0
        /\ cache[ProcOf[c]].at \notin rejected[ProcOf[c]]
    BY <1>18, KnownHere DEF PersistCancelled, Dropped, ProcDropped, CallDropped
  <2>2. CallMove(c)
    BY <1>18, <2>1, CallEffects
    DEF PersistCancelled, PersistEffect, CallMove, CallDropped, ServedTo,
        Moved
  <2>3. UNCHANGED <<cache, pubRead, rejected>> /\ Issued \subseteq Issued'
    BY <1>18 DEF PersistCancelled, Issued, provider, history
  <2> QED
    BY <2>2, <2>3, DroppedMove
<1>19. ASSUME NEW c \in Callers, PublishFails(c) PROVE Goal
  <2>1. /\ cache[ProcOf[c]].at # 0
        /\ cache[ProcOf[c]].at \notin rejected[ProcOf[c]]
    BY <1>19, KnownHere DEF PublishFails, Dropped, ProcDropped, CallDropped
  <2>2. CallMove(c)
    BY <1>19, <2>1, CallEffects
    DEF PublishFails, ServeEffect, CallMove, CallDropped, ServedTo, Moved
  <2>3. UNCHANGED <<cache, pubRead, rejected>> /\ Issued \subseteq Issued'
    BY <1>19 DEF PublishFails, Issued, provider, history
  <2> QED
    BY <2>2, <2>3, DroppedMove
<1>20. CASE LoginGranted
  BY <1>20
  DEF LoginGranted, Dropped, ProcDropped, CallDropped, NotServed, ServedTo,
      Moved, Outside, Shape, Issued, provider, history
<1>21. CASE LogoutReads
  BY <1>21
  DEF LogoutReads, Dropped, ProcDropped, CallDropped, NotServed, ServedTo,
      Moved, Outside, Shape, Issued, provider, history
<1>22. CASE LoginSet
  BY <1>22
  DEF LoginSet, Done, loginKeys, Dropped, ProcDropped, CallDropped,
      NotServed, ServedTo, Moved, Outside, Shape, Issued, provider, history
<1>23. CASE LogoutRevokes
  BY <1>23
  DEF LogoutRevokes, Dropped, ProcDropped, CallDropped, NotServed, ServedTo,
      Moved, Outside, Shape, Issued, provider, history
<1>24. CASE LogoutDeletes
  BY <1>24
  DEF LogoutDeletes, LogoutNext, Done, logoutKeys, Dropped, ProcDropped,
      CallDropped, NotServed, ServedTo, Moved, Outside, Shape, Issued,
      provider, history
<1>25. CASE LoginFails
  BY <1>25
  DEF LoginFails, Done, Dropped, ProcDropped, CallDropped, NotServed,
      ServedTo, Moved, Outside, Shape, Issued, provider, history
<1>26. CASE LogoutFails
  BY <1>26
  DEF LogoutFails, LogoutNext, Done, Dropped, ProcDropped, CallDropped,
      NotServed, ServedTo, Moved, Outside, Shape, Issued, provider, history
<1>27. CASE Age
  BY <1>27
  DEF Age, Dropped, ProcDropped, CallDropped, NotServed, ServedTo, Moved,
      Outside, Shape, Issued, provider, history
<1>28. CASE Refuse
  BY <1>28
  DEF Refuse, Dropped, ProcDropped, CallDropped, NotServed, ServedTo, Moved,
      Outside, Shape, Issued, provider, history
<1>29. ASSUME NEW p \in Procs, Crash(p) PROVE Goal
  BY <1>29
  DEF Crash, NoPair, NoCall, Dropped, ProcDropped, CallDropped, NotServed,
      ServedTo, Moved, Outside, Shape, Issued, provider, history
<1>31. ASSUME NEW c \in Callers, RefreshKeeps(c) PROVE Goal
  <2>1. /\ ProcOf[c] \in Procs
        /\ ProcDropped(ProcOf[c])
        /\ Len(client) + 1 # 0 /\ Len(client) + 1 \notin Issued
    BY KnownHere DEF Dropped, Issued, Shape
  <2>2. Issued \subseteq Issued'
    BY <1>31, KeptGrows DEF RefreshKeeps
  <2>3. /\ cache' = [cache EXCEPT ![ProcOf[c]] =
                       [at |-> Len(client) + 1, exp |-> Len(client) + 1]]
        /\ UNCHANGED <<pubRead, rejected>>
    BY <1>31 DEF RefreshKeeps, history
  <2>4. CallMove(c)
    BY <1>31, <2>1, <2>3, CallEffects
    DEF KeepEffect, CallMove, CallDropped, ServedTo, Moved, Shape
  <2>5. ProcMove(ProcOf[c])
    BY <2>1, <2>2, <2>3 DEF ProcMove, ProcDropped, Shape
  <2>6. call[c].pc \notin Outside
    BY <1>31 DEF RefreshKeeps, Outside
  <2> QED
    BY <2>2, <2>4, <2>5, <2>6, DroppedAlone
<1>32. CASE CommandKilled
  BY <1>32
  DEF CommandKilled, Done, Dropped, ProcDropped, CallDropped, NotServed,
      ServedTo, Moved, Outside, Shape, Issued, provider, history
<1>30. CASE UNCHANGED vars
  BY <1>30
  DEF vars, provider, history, Dropped, ProcDropped, CallDropped, NotServed,
      ServedTo, Moved, Outside, Shape, Issued, provider, history
<1> QED
  BY <1>1, <1>2, <1>3, <1>4, <1>5, <1>6, <1>7, <1>8, <1>9, <1>10, <1>11, <1>12,
     <1>13, <1>14, <1>15, <1>16, <1>17, <1>18, <1>19, <1>20, <1>21, <1>22,
     <1>23, <1>24, <1>25, <1>26, <1>27, <1>28, <1>29, <1>30, <1>31, <1>32
  DEF Next, CallStep, CallFault, CommandStep

-----------------------------------------------------------------------------
(* The stored login goes stale only with a report or an overlap             *)

Waiting(c) == call[c].pc \in {"getCID", "redeem"}

NonePersists == \A c \in Callers : ~ Persisting(c)

\* The persister is alone, and holds a pair the stored client can redeem.
PersisterOK ==
  \A c \in Callers : Persisting(c) =>
    /\ call[c].tok \in redeemable
    /\ client[call[c].tok] = store.cid
    /\ \A d \in Callers : Persisting(d) => d = c

\* A refresh token that was read is the stored one, or consumed.
WaiterOK ==
  \A c \in Callers : Waiting(c) /\ call[c].rt \in redeemable =>
    /\ call[c].rt = store.rt
    /\ NonePersists
    /\ call[c].pc = "redeem" => call[c].cid = store.cid

\* A command past its first write has the login to itself.
CommandOK ==
  /\ cli.cmd = "none" => cli.step = 0
  /\ cli.cmd = "logout" \/ cli.step > 1 => \A c \in Callers : ~ Redeeming(c)
  /\ cli.cmd = "logout" /\ cli.step > 1 => store.rt = 0
  /\ cli.cmd = "login" =>
       /\ cli.tok \in redeemable
       /\ client[cli.tok] = cli.tok
       /\ cli.step > 1 => store.cid = cli.tok
       /\ cli.step > 2 => store.rt = cli.tok
       /\ \A c \in Callers : Waiting(c) => call[c].rt # cli.tok

\* Outside a persist and a command, the stored login can be redeemed.
StoredOK ==
  NonePersists /\ cli.cmd # "logout" /\ cli.step < 2 /\ store.rt # 0 => Usable

Parts == PersisterOK /\ WaiterOK /\ CommandOK /\ StoredOK

Sound == ~ accounted /\ ~ overlap => Parts

\* The histories only grow.
LEMMA QuietBefore ==
  ASSUME [Next]_vars, ~ accounted', ~ overlap'
  PROVE  ~ accounted /\ ~ overlap
<1> DEFINE Goal == ~ accounted /\ ~ overlap
<1> USE DEF history
<1>1. ASSUME NEW c \in Callers, Token(c) PROVE Goal
  BY <1>1, Zenon DEF Token
<1>2. ASSUME NEW c \in Callers, LoadExp(c) PROVE Goal
  BY <1>2, Zenon DEF LoadExp
<1>3. ASSUME NEW c \in Callers, ForceRefresh(c) PROVE Goal
  BY <1>3, Zenon DEF ForceRefresh
<1>4. ASSUME NEW c \in Callers, GetRT(c) PROVE Goal
  BY <1>4, Zenon DEF GetRT
<1>5. ASSUME NEW c \in Callers, GetCID(c) PROVE Goal
  BY <1>5, Zenon DEF GetCID
<1>6. ASSUME NEW c \in Callers, Refresh(c) PROVE Goal
  BY <1>6, Zenon DEF Refresh
<1>7. ASSUME NEW c \in Callers, RefreshRefused(c) PROVE Goal
  BY <1>7, Zenon DEF RefreshRefused
<1>8. ASSUME NEW c \in Callers, SetRT(c) PROVE Goal
  BY <1>8, Zenon DEF SetRT
<1>9. ASSUME NEW c \in Callers, Verify(c) PROVE Goal
  BY <1>9, Zenon DEF Verify, Retry
<1>10. ASSUME NEW c \in Callers, PublishAT(c) PROVE Goal
  BY <1>10, Zenon DEF PublishAT
<1>11. ASSUME NEW c \in Callers, PublishExp(c) PROVE Goal
  BY <1>11, Zenon DEF PublishExp
<1>12. ASSUME NEW c \in Callers, IssueOK(c) PROVE Goal
  BY <1>12, Zenon DEF IssueOK
<1>13. ASSUME NEW c \in Callers, Issue401(c) PROVE Goal
  BY <1>13, Zenon DEF Issue401
<1>14. ASSUME NEW c \in Callers, GetFails(c) PROVE Goal
  BY <1>14, Zenon DEF GetFails
<1>15. ASSUME NEW c \in Callers, RefreshLost(c) PROVE Goal
  BY <1>15, Zenon DEF RefreshLost
<1>16. ASSUME NEW c \in Callers, SetLies(c) PROVE Goal
  BY <1>16, Zenon DEF SetLies
<1>17. ASSUME NEW c \in Callers, PersistFails(c) PROVE Goal
  BY <1>17, Zenon DEF PersistFails, Retry
<1>18. ASSUME NEW c \in Callers, PersistCancelled(c) PROVE Goal
  BY <1>18, Zenon DEF PersistCancelled
<1>19. ASSUME NEW c \in Callers, PublishFails(c) PROVE Goal
  BY <1>19, Zenon DEF PublishFails
<1>20. CASE LoginGranted
  BY <1>20, Zenon DEF LoginGranted
<1>21. CASE LogoutReads
  BY <1>21, Zenon DEF LogoutReads
<1>22. CASE LoginSet
  BY <1>22, Zenon DEF LoginSet
<1>23. CASE LogoutRevokes
  BY <1>23, Zenon DEF LogoutRevokes
<1>24. CASE LogoutDeletes
  BY <1>24, Zenon DEF LogoutDeletes
<1>25. CASE LoginFails
  BY <1>25, Zenon DEF LoginFails
<1>26. CASE LogoutFails
  BY <1>26, Zenon DEF LogoutFails
<1>27. CASE Age
  BY <1>27, Zenon DEF Age
<1>28. CASE Refuse
  BY <1>28, Zenon DEF Refuse
<1>29. ASSUME NEW p \in Procs, Crash(p) PROVE Goal
  BY <1>29, Zenon DEF Crash
<1>31. ASSUME NEW c \in Callers, RefreshKeeps(c) PROVE Goal
  BY <1>31, Zenon DEF RefreshKeeps
<1>32. CASE CommandKilled
  BY <1>32, Zenon DEF CommandKilled
<1>30. CASE UNCHANGED vars
  BY <1>30 DEF vars
<1> QED
  BY <1>1, <1>2, <1>3, <1>4, <1>5, <1>6, <1>7, <1>8, <1>9, <1>10, <1>11, <1>12,
     <1>13, <1>14, <1>15, <1>16, <1>17, <1>18, <1>19, <1>20, <1>21, <1>22,
     <1>23, <1>24, <1>25, <1>26, <1>27, <1>28, <1>29, <1>30, <1>31, <1>32
  DEF Next, CallStep, CallFault, CommandStep

\* A step of c outside the persist that leaves the stored login alone.
CalmMove(c) ==
  /\ ~ Persisting(c) /\ ~ Redeeming(c)'
  /\ \A d \in Callers : d # c => call'[d] = call[d]
  /\ UNCHANGED <<client, redeemable, cli>>
  /\ store'.rt = store.rt /\ store'.cid = store.cid

LEMMA CalmMoves ==
  ASSUME Parts, NEW c \in Callers, CalmMove(c)
  PROVE  Parts'
<1>1. \A d \in Callers : /\ Persisting(d)' <=> Persisting(d)
                         /\ Waiting(d)' => Waiting(d)
                         /\ Redeeming(d)' => Redeeming(d)
                         /\ Redeeming(d)' => call'[d] = call[d]
  BY DEF CalmMove, Persisting, Waiting, Redeeming
<1>2. NonePersists' <=> NonePersists
  BY <1>1 DEF NonePersists
<1>3. PersisterOK'
  BY <1>1 DEF Parts, PersisterOK, CalmMove, Redeeming
<1>4. WaiterOK'
  BY <1>1, <1>2 DEF Parts, WaiterOK, CalmMove, Redeeming, Waiting
<1>5. CommandOK'
  BY <1>1 DEF Parts, CommandOK, CalmMove, Redeeming, Waiting
<1>6. StoredOK'
  BY <1>2 DEF Parts, StoredOK, Usable, CalmMove
<1> QED
  BY <1>3, <1>4, <1>5, <1>6 DEF Parts

\* A step inside the persist: the write, and a retry.
LEMMA PersistGoesOn ==
  ASSUME Shape, Parts, NEW c \in Callers, Persisting(c), Persisting(c)',
         call'[c].tok = call[c].tok,
         \A d \in Callers : d # c => call'[d] = call[d],
         UNCHANGED <<client, redeemable, cli>>, store'.cid = store.cid
  PROVE  Parts'
<1>1. \A d \in Callers : /\ Persisting(d)' <=> Persisting(d)
                         /\ Waiting(d)' => Waiting(d)
                         /\ Redeeming(d)' => Redeeming(d)
                         /\ Waiting(d)' => call'[d] = call[d]
  BY DEF Persisting, Waiting, Redeeming
<1>2. ~ NonePersists /\ ~ NonePersists'
  BY DEF NonePersists
<1>3. PersisterOK'
  BY <1>1 DEF Parts, PersisterOK
<1>4. WaiterOK'
  BY <1>1, <1>2 DEF Parts, WaiterOK
<1>5. cli.cmd # "logout" /\ ~ (cli.step > 1) /\ ~ (cli.step > 2)
  BY DEF Parts, CommandOK, Redeeming, Shape, Command
<1>6. CommandOK'
  BY <1>1, <1>5 DEF Parts, CommandOK
<1>7. StoredOK'
  BY <1>2 DEF StoredOK
<1> QED
  BY <1>3, <1>4, <1>6, <1>7 DEF Parts

\* The persist ends with what it wrote in the store.
LEMMA PersistEnds ==
  ASSUME Parts, NEW c \in Callers, Persisting(c), store.rt = call[c].tok,
         Moved(c, "pubAT", call[c].rt, call[c].cid, call[c].tok, 0),
         UNCHANGED <<store, client, redeemable, cli>>
  PROVE  Parts'
<1>1. \A d \in Callers : /\ ~ Persisting(d)'
                         /\ Waiting(d)' => Waiting(d)
                         /\ Redeeming(d)' => Redeeming(d)
                         /\ Waiting(d)' => call'[d] = call[d]
  BY DEF Parts, PersisterOK, Moved, Persisting, Waiting, Redeeming
<1>2. ~ NonePersists
  BY DEF NonePersists
<1>3. PersisterOK'
  BY <1>1 DEF PersisterOK
<1>4. WaiterOK'
  BY <1>1, <1>2 DEF Parts, WaiterOK
<1>5. CommandOK'
  BY <1>1 DEF Parts, CommandOK
<1>6. StoredOK'
  BY DEF Parts, PersisterOK, StoredOK, Usable
<1> QED
  BY <1>3, <1>4, <1>5, <1>6 DEF Parts

\* A failed attempt is followed by another one, or reported.
LEMMA RetryMoves ==
  ASSUME call \in [Callers -> CallRec], NEW c \in Callers, Retry(c), ~ accounted'
  PROVE  call'[c].pc = "set"
<1>1. call' = [call EXCEPT ![c].pc = "set", ![c].tries = @ + 1]
  BY DEF Retry
<1> QED
  BY <1>1 DEF CallRec

\* Every step keeps the stored login sound while nothing was reported and no
\* writers overlapped.
LEMMA SoundStep ==
  ASSUME Shape, Known, Sound, [Next]_vars
  PROVE  Sound'
<1> DEFINE Goal == Parts'
<1> SUFFICES ASSUME ~ accounted', ~ overlap' PROVE Goal
  BY DEF Sound
<1> Parts /\ ~ accounted /\ ~ overlap
  BY QuietBefore DEF Sound
<1> USE TokenAssumption
<1>1. ASSUME NEW c \in Callers, Token(c) PROVE Goal
  <2>1. CalmMove(c)
    BY <1>1, CallEffects
    DEF Token, TokenEffect, CalmMove, Moved, Persisting, Redeeming, provider
  <2> QED
    BY <2>1, CalmMoves
<1>2. ASSUME NEW c \in Callers, LoadExp(c) PROVE Goal
  <2>1. CalmMove(c)
    BY <1>2, CallEffects
    DEF LoadExp, LoadExpEffect, CalmMove, Moved, Persisting, Redeeming,
        provider
  <2> QED
    BY <2>1, CalmMoves
<1>3. ASSUME NEW c \in Callers, ForceRefresh(c) PROVE Goal
  <2>1. CalmMove(c)
    BY <1>3, CallEffects
    DEF ForceRefresh, ForceEffect, CalmMove, Moved, Persisting, Redeeming,
        provider
  <2> QED
    BY <2>1, CalmMoves
<1>4. ASSUME NEW c \in Callers, GetRT(c) PROVE Goal
  <2>1. cli.cmd = "none" /\ NonePersists
    <3>1. ~ \E d \in Callers : Persisting(d)
      BY <1>4, Zenon DEF GetRT
    <3>2. cli.cmd = "none"
      BY <1>4, Zenon DEF GetRT
    <3> QED
      BY <3>1, <3>2 DEF NonePersists
  <2>2. /\ UNCHANGED <<store, client, redeemable, cli>>
        /\ call[c].pc = "getRT"
    BY <1>4 DEF GetRT, provider
  <2>3. CASE FailEffect(c)
    <3>1. CalmMove(c)
      BY <2>2, <2>3 DEF FailEffect, CalmMove, Moved, Persisting, Redeeming
    <3> QED
      BY <3>1, CalmMoves
  <2>4. CASE ~ FailEffect(c)
    <3>1. store.rt # 0 /\ Moved(c, "getCID", store.rt, call[c].cid, call[c].tok,
                                call[c].tries)
      BY <1>4, <2>4, CallEffects DEF GetRTEffect
    <3>2. NonePersists' /\ cli.step = 0
      BY <2>1, <2>2, <3>1 DEF NonePersists, Persisting, Moved, Parts, CommandOK
    <3>3. PersisterOK' /\ StoredOK'
      BY <2>1, <2>2, <3>1, <3>2
      DEF NonePersists, PersisterOK, StoredOK, Parts, Usable
    <3>4. WaiterOK'
      BY <2>2, <3>1, <3>2 DEF WaiterOK, Waiting, Moved, Parts
    <3>5. CommandOK'
      BY <2>1, <2>2, <3>2 DEF CommandOK, Parts
    <3> QED
      BY <3>3, <3>4, <3>5 DEF Parts
  <2> QED
    BY <2>3, <2>4
<1>5. ASSUME NEW c \in Callers, GetCID(c) PROVE Goal
  <2>1. /\ UNCHANGED <<store, client, redeemable, cli>>
        /\ call[c].pc = "getCID"
    BY <1>5 DEF GetCID, provider
  <2>2. CASE FailEffect(c)
    <3>1. CalmMove(c)
      BY <2>1, <2>2 DEF FailEffect, CalmMove, Moved, Persisting, Redeeming
    <3> QED
      BY <3>1, CalmMoves
  <2>3. CASE ~ FailEffect(c)
    <3>1. Moved(c, "redeem", call[c].rt, store.cid, call[c].tok, call[c].tries)
      BY <1>5, <2>3, CallEffects DEF GetCIDEffect
    <3>2. \A d \in Callers : (Persisting(d)' <=> Persisting(d)) /\ (Waiting(d)' <=> Waiting(d))
      BY <2>1, <3>1 DEF Persisting, Waiting, Moved
    <3>3. NonePersists' <=> NonePersists
      BY <3>2 DEF NonePersists
    <3>4. PersisterOK'
      BY <2>1, <3>1, <3>2 DEF PersisterOK, Parts, Moved, Persisting
    <3>5. WaiterOK'
      BY <2>1, <3>1, <3>2, <3>3 DEF WaiterOK, Waiting, Moved, Parts
    <3>6. CommandOK'
      BY <2>1, <3>1 DEF CommandOK, Parts, Moved, Redeeming, Persisting, Waiting
    <3>7. StoredOK'
      BY <2>1, <3>3 DEF StoredOK, Parts, Usable
    <3> QED
      BY <3>4, <3>5, <3>6, <3>7 DEF Parts
  <2> QED
    BY <2>2, <2>3
<1>6. ASSUME NEW c \in Callers, Refresh(c) PROVE Goal
  <2> DEFINE new == Len(client) + 1
             rt == call[c].rt
  <2>1. /\ UNCHANGED <<store, cli>>
        /\ call[c].pc = "redeem"
        /\ rt \in redeemable /\ client[rt] = call[c].cid
        /\ Redeemed(rt)
        /\ Moved(c, "set", 0, 0, new, call[c].tries)
    BY <1>6, CallEffects DEF Refresh, RefreshEffect
  <2>2. /\ redeemable' = (redeemable \ {rt}) \cup {new}
        /\ \A j \in Issued : client'[j] = client[j]
        /\ client'[new] = client[rt]
        /\ redeemable \subseteq Issued
    BY <2>1, RedeemedGrows DEF Redeemed, Known
  <2>3. new \notin Tokens
    BY DEF Tokens, Shape
  <2>4. /\ rt = store.rt /\ NonePersists /\ call[c].cid = store.cid
        /\ cli.cmd # "logout" /\ ~ (cli.step > 1) /\ ~ (cli.step > 2)
        /\ Waiting(c)
    BY <2>1
    DEF Parts, WaiterOK, CommandOK, Waiting, Redeeming, Shape, Command
  <2>5. \A d \in Callers : Persisting(d)' <=> d = c
    BY <2>1, <2>4 DEF Moved, Persisting, NonePersists
  <2>6. PersisterOK'
    BY <2>1, <2>2, <2>4, <2>5 DEF PersisterOK, Moved
  <2>7. WaiterOK'
    <3>1. ASSUME NEW d \in Callers, Waiting(d)', call'[d].rt \in redeemable'
          PROVE  FALSE
      <4>1. d # c /\ call'[d] = call[d] /\ Waiting(d)
        BY <2>1, <3>1 DEF Moved, Waiting
      <4>2. call[d].rt # new
        BY <2>3 DEF Known, CallsKnown
      <4>3. call[d].rt \in redeemable /\ call[d].rt # rt
        BY <2>2, <3>1, <4>1, <4>2
      <4> QED
        BY <2>4, <4>1, <4>3 DEF Parts, WaiterOK
    <3> QED
      BY <3>1 DEF WaiterOK
  <2>8. CommandOK'
    <3>1. cli.cmd = "login" => cli.tok # rt /\ cli.tok \in redeemable
      BY <2>4 DEF Parts, CommandOK
    <3>2. \A d \in Callers : Waiting(d)' => Waiting(d) /\ call'[d] = call[d]
      BY <2>1 DEF Moved, Waiting
    <3> QED
      BY <2>1, <2>2, <2>4, <3>1, <3>2 DEF Parts, CommandOK
  <2>9. StoredOK'
    BY <2>5 DEF StoredOK, NonePersists
  <2> QED
    BY <2>6, <2>7, <2>8, <2>9 DEF Parts
<1>7. ASSUME NEW c \in Callers, RefreshRefused(c) PROVE Goal
  <2>1. CalmMove(c)
    BY <1>7, CallEffects
    DEF RefreshRefused, FailEffect, CalmMove, Moved, Persisting, Redeeming,
        provider
  <2> QED
    BY <2>1, CalmMoves
<1>8. ASSUME NEW c \in Callers, SetRT(c) PROVE Goal
  <2>1. /\ UNCHANGED <<client, redeemable, cli>>
        /\ store'.cid = store.cid
        /\ Persisting(c)
        /\ Moved(c, "verify", call[c].rt, call[c].cid, call[c].tok,
                 call[c].tries)
    BY <1>8, CallEffects
    DEF SetRT, WriteEffect, Persisting, provider, Shape, Keys
  <2> QED
    BY <2>1, PersistGoesOn DEF Moved, Persisting
<1>9. ASSUME NEW c \in Callers, Verify(c) PROVE Goal
  <2>1. /\ UNCHANGED <<store, client, redeemable, cli>>
        /\ Persisting(c)
        /\ PersistEffect(c)
    BY <1>9, CallEffects DEF Verify, Persisting, provider
  <2>2. CASE call'[c].pc = "set"
    BY <2>1, <2>2, PersistGoesOn DEF PersistEffect, Moved, Persisting
  <2>3. CASE call'[c].pc # "set"
    <3>1. Moved(c, "pubAT", call[c].rt, call[c].cid, call[c].tok, 0)
      BY <2>1, <2>3 DEF PersistEffect, Moved
    <3>2. store.rt = call[c].tok
      BY <1>9, <2>3, RetryMoves DEF Shape, Verify
    <3> QED
      BY <2>1, <3>1, <3>2, PersistEnds
  <2> QED
    BY <2>2, <2>3
<1>10. ASSUME NEW c \in Callers, PublishAT(c) PROVE Goal
  <2>1. CalmMove(c)
    BY <1>10, CallEffects
    DEF PublishAT, PublishEffect, CalmMove, Moved, Persisting, Redeeming,
        provider, Shape, Keys
  <2> QED
    BY <2>1, CalmMoves
<1>11. ASSUME NEW c \in Callers, PublishExp(c) PROVE Goal
  <2>1. CalmMove(c)
    BY <1>11, CallEffects
    DEF PublishExp, ServeEffect, CalmMove, Moved, Persisting, Redeeming,
        provider, Shape, Keys
  <2> QED
    BY <2>1, CalmMoves
<1>12. ASSUME NEW c \in Callers, IssueOK(c) PROVE Goal
  <2>1. CalmMove(c)
    BY <1>12, CallEffects
    DEF IssueOK, OKEffect, CalmMove, Moved, Persisting, Redeeming, provider
  <2> QED
    BY <2>1, CalmMoves
<1>13. ASSUME NEW c \in Callers, Issue401(c) PROVE Goal
  <2>1. CalmMove(c)
    BY <1>13, CallEffects
    DEF Issue401, Effect401, CalmMove, Moved, Persisting, Redeeming, provider
  <2> QED
    BY <2>1, CalmMoves
<1>14. ASSUME NEW c \in Callers, GetFails(c) PROVE Goal
  <2>1. CalmMove(c)
    BY <1>14, CallEffects
    DEF GetFails, FailEffect, CalmMove, Moved, Persisting, Redeeming, provider
  <2> QED
    BY <2>1, CalmMoves
<1>15. ASSUME NEW c \in Callers, RefreshLost(c) PROVE Goal
  BY <1>15 DEF RefreshLost
<1>16. ASSUME NEW c \in Callers, SetLies(c) PROVE Goal
  <2>1. /\ UNCHANGED <<client, redeemable, cli>>
        /\ store'.cid = store.cid
        /\ Persisting(c)
        /\ Moved(c, "verify", call[c].rt, call[c].cid, call[c].tok,
                 call[c].tries)
    BY <1>16, CallEffects
    DEF SetLies, WriteEffect, Persisting, provider, Shape, Keys
  <2> QED
    BY <2>1, PersistGoesOn DEF Moved, Persisting
<1>17. ASSUME NEW c \in Callers, PersistFails(c) PROVE Goal
  <2>1. /\ UNCHANGED <<store, client, redeemable, cli>>
        /\ Persisting(c)
        /\ PersistEffect(c)
    BY <1>17, CallEffects DEF PersistFails, Persisting, provider
  <2>2. CASE call'[c].pc = "set"
    BY <2>1, <2>2, PersistGoesOn DEF PersistEffect, Moved, Persisting
  <2>3. CASE call'[c].pc # "set"
    <3>1. Moved(c, "pubAT", call[c].rt, call[c].cid, call[c].tok, 0)
      BY <2>1, <2>3 DEF PersistEffect, Moved
    <3>2. store.rt = call[c].tok
      BY <1>17, <2>3, RetryMoves DEF Shape, PersistFails
    <3> QED
      BY <2>1, <3>1, <3>2, PersistEnds
  <2> QED
    BY <2>2, <2>3
<1>18. ASSUME NEW c \in Callers, PersistCancelled(c) PROVE Goal
  BY <1>18 DEF PersistCancelled
<1>19. ASSUME NEW c \in Callers, PublishFails(c) PROVE Goal
  <2>1. CalmMove(c)
    BY <1>19, CallEffects
    DEF PublishFails, ServeEffect, CalmMove, Moved, Persisting, Redeeming,
        provider, Shape, Keys
  <2> QED
    BY <2>1, CalmMoves
<1>20. CASE LoginGranted
  <2> DEFINE new == Len(client) + 1
  <2>1. /\ UNCHANGED <<store, call>> /\ cli.cmd = "none"
        /\ redeemable' = redeemable \cup {new}
        /\ cli'.cmd = "login" /\ cli'.step = 1 /\ cli'.tok = new
        /\ client' = Append(client, new)
    BY <1>20 DEF LoginGranted
  <2>2. new \in Nat /\ new \notin Tokens
    BY DEF Tokens, Shape
  <2>3. /\ \A j \in Issued : client'[j] = client[j]
        /\ client'[new] = new
        /\ redeemable \subseteq Issued
    BY <2>1, <2>2, IssuedGrows DEF Known
  <2>4. /\ NonePersists' <=> NonePersists
        /\ \A c \in Callers : /\ Waiting(c)' <=> Waiting(c)
                              /\ Persisting(c)' <=> Persisting(c)
                              /\ call[c].rt # new
    BY <2>1, <2>2 DEF NonePersists, Waiting, Persisting, Known, CallsKnown
  <2>5. PersisterOK'
    BY <2>1, <2>3, <2>4 DEF Parts, PersisterOK
  <2>6. WaiterOK'
    BY <2>1, <2>4 DEF Parts, WaiterOK
  <2>7. CommandOK'
    BY <2>1, <2>3, <2>4 DEF CommandOK
  <2>8. StoredOK'
    <3>1. cli.step = 0
      BY <2>1 DEF Parts, CommandOK
    <3>2. NonePersists /\ store.rt # 0 => Usable
      BY <2>1, <3>1 DEF Parts, StoredOK
    <3> QED
      BY <2>1, <2>3, <2>4, <3>2 DEF StoredOK, Usable
  <2> QED
    BY <2>5, <2>6, <2>7, <2>8 DEF Parts
<1>21. CASE LogoutReads
  <2>1. \A c \in Callers : ~ Redeeming(c)
    BY <1>21, Zenon DEF LogoutReads
  <2>2. /\ UNCHANGED <<store, call, client, redeemable>>
        /\ cli'.cmd = "logout" /\ cli'.step = 0
    BY <1>21 DEF LogoutReads, provider
  <2>3. \A c \in Callers : ~ Redeeming(c)' /\ ~ Waiting(c)' /\ ~ Persisting(c)'
    BY <2>1, <2>2 DEF Redeeming, Waiting, Persisting
  <2> QED
    BY <2>2, <2>3 DEF Parts, PersisterOK, WaiterOK, CommandOK, StoredOK
<1>22. CASE LoginSet
  <2>1. \A c \in Callers : ~ Redeeming(c)
    BY <1>22, Zenon DEF LoginSet
  <2>2. UNCHANGED <<call, client, redeemable>> /\ cli.cmd = "login"
    BY <1>22 DEF LoginSet, provider
  <2>3. \A c \in Callers : ~ Redeeming(c)' /\ ~ Waiting(c)' /\ ~ Persisting(c)'
    BY <2>1, <2>2 DEF Redeeming, Waiting, Persisting
  <2>4. /\ cli.tok \in redeemable /\ client[cli.tok] = cli.tok
        /\ cli.step \in 1 .. 4
        /\ cli.step > 1 => store.cid = cli.tok
        /\ cli.step > 2 => store.rt = cli.tok
    BY <2>2 DEF Parts, CommandOK, Known, Shape, Command
  <2>5. /\ cli.step >= 1 => store'.cid = cli.tok
        /\ cli.step >= 2 => store'.rt = cli.tok
    BY <1>22, <2>4 DEF LoginSet, loginKeys, Shape, Keys
  <2>6. \/ cli'.cmd = "none" /\ cli'.step = 0 /\ cli.step = 4
        \/ cli'.cmd = "login" /\ cli'.tok = cli.tok /\ cli'.step = cli.step + 1
    BY <1>22, <2>4 DEF LoginSet, Done, Shape, Command
  <2>7. CommandOK'
    BY <2>2, <2>3, <2>4, <2>5, <2>6 DEF CommandOK
  <2>8. StoredOK'
    BY <2>2, <2>4, <2>5, <2>6 DEF StoredOK, Usable
  <2>9. PersisterOK' /\ WaiterOK'
    BY <2>3 DEF PersisterOK, WaiterOK
  <2> QED
    BY <2>7, <2>8, <2>9 DEF Parts
<1>23. CASE LogoutRevokes
  <2>1. UNCHANGED call /\ cli.cmd = "logout"
    BY <1>23 DEF LogoutRevokes
  <2>2. \A c \in Callers : ~ Redeeming(c)' /\ ~ Waiting(c)' /\ ~ Persisting(c)'
    BY <2>1 DEF Parts, CommandOK, Redeeming, Waiting, Persisting
  <2>3. PersisterOK' /\ WaiterOK'
    BY <2>2 DEF PersisterOK, WaiterOK
  <2>4. cli'.cmd = "logout" /\ cli'.step = 1
    BY <1>23 DEF LogoutRevokes, Shape, Command
  <2> QED
    BY <2>2, <2>3, <2>4 DEF Parts, CommandOK, StoredOK
<1>24. CASE LogoutDeletes
  <2>1. UNCHANGED call /\ cli.cmd = "logout"
    BY <1>24 DEF LogoutDeletes
  <2>2. \A c \in Callers : ~ Redeeming(c)' /\ ~ Waiting(c)' /\ ~ Persisting(c)'
    BY <2>1 DEF Parts, CommandOK, Redeeming, Waiting, Persisting
  <2>3. PersisterOK' /\ WaiterOK'
    BY <2>2 DEF PersisterOK, WaiterOK
  <2>4. cli.step \in 1 .. 4
    BY <1>24 DEF LogoutDeletes, Shape, Command
  <2>5. store'.rt = 0
    BY <1>24, <2>1, <2>4
    DEF LogoutDeletes, logoutKeys, Parts, CommandOK, Shape, Keys
  <2>6. \/ cli'.cmd = "none" /\ cli'.step = 0
        \/ cli'.cmd = "logout"
    <3>1. cli \in Command /\ cli.said \in Words
      BY DEF Shape, Command
    <3> QED
      BY <1>24, <3>1, CommandMoves DEF LogoutDeletes
  <2> QED
    BY <2>2, <2>3, <2>5, <2>6 DEF Parts, CommandOK, StoredOK
<1>25. CASE LoginFails
  <2>1. cli.step # 2
    BY <1>25, Zenon DEF LoginFails
  <2>2. /\ UNCHANGED <<store, call, client, redeemable>> /\ cli.cmd = "login"
        /\ cli'.cmd = "none" /\ cli'.step = 0
    BY <1>25 DEF LoginFails, Done, provider
  <2>3. PersisterOK' /\ WaiterOK'
    BY <2>2 DEF Parts, PersisterOK, WaiterOK, Persisting, Waiting, NonePersists
  <2>4. CommandOK'
    BY <2>2 DEF CommandOK
  <2>5. cli.step \in 1 .. 4
    BY <2>2 DEF Known, Shape, Command
  <2>6. StoredOK'
    BY <2>1, <2>2, <2>5
    DEF Parts, CommandOK, StoredOK, Usable, NonePersists, Persisting
  <2> QED
    BY <2>3, <2>4, <2>6 DEF Parts
<1>26. CASE LogoutFails
  BY <1>26 DEF LogoutFails
<1>27. CASE Age
  BY <1>27
  DEF Age, Parts, PersisterOK, WaiterOK, CommandOK, StoredOK, NonePersists,
      Usable, Persisting, Redeeming, Waiting
<1>28. CASE Refuse
  BY <1>28
  DEF Refuse, Parts, PersisterOK, WaiterOK, CommandOK, StoredOK,
      NonePersists, Usable, Persisting, Redeeming, Waiting
<1>29. ASSUME NEW p \in Procs, Crash(p) PROVE Goal
  <2>1. \A c \in Callers : ~ (ProcOf[c] = p /\ Persisting(c))
    BY <1>29, Zenon DEF Crash
  <2>2. UNCHANGED <<store, client, redeemable, cli>>
    BY <1>29 DEF Crash, provider
  <2>3. \A c \in Callers : IF ProcOf[c] = p THEN call'[c] = NoCall
                           ELSE call'[c] = call[c]
    BY <1>29 DEF Crash
  <2>4. \A c \in Callers : /\ Persisting(c)' <=> Persisting(c)
                           /\ Waiting(c)' => Waiting(c)
                           /\ Redeeming(c)' => Redeeming(c)
                           /\ Redeeming(c)' => call'[c] = call[c]
    BY <2>1, <2>3 DEF Persisting, Waiting, Redeeming, NoCall
  <2>5. NonePersists' <=> NonePersists
    BY <2>4 DEF NonePersists
  <2>6. PersisterOK'
    BY <2>2, <2>4 DEF Parts, PersisterOK, Redeeming
  <2>7. WaiterOK'
    BY <2>2, <2>4, <2>5 DEF Parts, WaiterOK, Redeeming, Waiting
  <2>8. CommandOK'
    BY <2>2, <2>4 DEF Parts, CommandOK, Redeeming, Waiting
  <2>9. StoredOK'
    BY <2>2, <2>5 DEF Parts, StoredOK, Usable
  <2> QED
    BY <2>6, <2>7, <2>8, <2>9 DEF Parts
<1>31. ASSUME NEW c \in Callers, RefreshKeeps(c) PROVE Goal
  <2>1. /\ UNCHANGED <<store, cli, redeemable>>
        /\ call[c].rt \in redeemable /\ Kept(call[c].rt)
        /\ call[c].pc = "redeem"
        /\ Moved(c, "pubAT", 0, 0, Len(client) + 1, call[c].tries)
    BY <1>31, CallEffects DEF RefreshKeeps, Kept, KeepEffect
  <2>2. /\ \A j \in Issued : client'[j] = client[j]
        /\ redeemable \subseteq Issued
    BY <2>1, KeptGrows DEF Known
  <2>3. \A d \in Callers : /\ Persisting(d)' <=> Persisting(d)
                           /\ Waiting(d)' => Waiting(d)
                           /\ Redeeming(d)' => Redeeming(d)
                           /\ Redeeming(d)' => call'[d] = call[d]
    BY <2>1 DEF Moved, Persisting, Waiting, Redeeming
  <2>4. NonePersists' <=> NonePersists
    BY <2>3 DEF NonePersists
  <2>5. PersisterOK'
    BY <2>1, <2>2, <2>3 DEF Parts, PersisterOK, Redeeming
  <2>6. WaiterOK'
    BY <2>1, <2>3, <2>4 DEF Parts, WaiterOK, Redeeming, Waiting
  <2>7. CommandOK'
    BY <2>1, <2>2, <2>3 DEF Parts, CommandOK, Redeeming, Waiting
  <2>8. StoredOK'
    BY <2>1, <2>2, <2>4 DEF Parts, StoredOK, Usable
  <2> QED
    BY <2>5, <2>6, <2>7, <2>8 DEF Parts
<1>32. CASE CommandKilled
  <2>0. cli.step # 2 /\ cli.cmd # "logout"
    BY <1>32, Zenon DEF CommandKilled
  <2>1. cli.step # 2
    BY <2>0
  <2>2. /\ UNCHANGED <<store, call, client, redeemable>> /\ cli.cmd = "login"
        /\ cli'.cmd = "none" /\ cli'.step = 0
    BY <1>32, <2>0 DEF CommandKilled, Done, Shape, Command, provider
  <2>3. PersisterOK' /\ WaiterOK'
    BY <2>2 DEF Parts, PersisterOK, WaiterOK, Persisting, Waiting, NonePersists
  <2>4. CommandOK'
    BY <2>2 DEF CommandOK
  <2>5. cli.step \in 1 .. 4
    BY <2>2 DEF Known, Shape, Command
  <2>6. StoredOK'
    BY <2>1, <2>2, <2>5
    DEF Parts, CommandOK, StoredOK, Usable, NonePersists, Persisting
  <2> QED
    BY <2>3, <2>4, <2>6 DEF Parts
<1>30. CASE UNCHANGED vars
  BY <1>30
  DEF vars, provider, Parts, PersisterOK, WaiterOK, CommandOK, StoredOK,
      NonePersists, Usable, Persisting, Redeeming, Waiting
<1> QED
  BY <1>1, <1>2, <1>3, <1>4, <1>5, <1>6, <1>7, <1>8, <1>9, <1>10, <1>11, <1>12,
     <1>13, <1>14, <1>15, <1>16, <1>17, <1>18, <1>19, <1>20, <1>21, <1>22,
     <1>23, <1>24, <1>25, <1>26, <1>27, <1>28, <1>29, <1>30, <1>31, <1>32
  DEF Next, CallStep, CallFault, CommandStep

-----------------------------------------------------------------------------
(* The theorems                                                             *)

Inv == Shape /\ Known /\ Mutex /\ Dropped /\ Sound

LEMMA InitInv == Init => Inv
<1> SUFFICES ASSUME Init PROVE Inv
  OBVIOUS
<1> USE TokenAssumption
<1>1. client = <<1>> /\ Len(client) = 1 /\ client[1] = 1 /\ client \in Seq(Nat)
  BY DEF Init
<1>2. Issued = {1} /\ Tokens = {0, 1}
  BY <1>1 DEF Issued, Tokens
<1>3. NoCall \in CallRec
  BY DEF NoCall, CallRec, PCs, Outside
<1>4. cli \in Command
  BY DEF Init, Command, Words
<1>5. Shape
  BY <1>1, <1>3, <1>4 DEF Init, Shape, Keys, NoPair
<1>6. Known
  BY <1>1, <1>2 DEF Init, Known, CallsKnown, NoCall, NoPair, Keys
<1>7. Mutex
  BY DEF Init, Mutex, NoCall, Outside
<1>8. Dropped
  BY <1>2 DEF Init, Dropped, ProcDropped, CallDropped, NoCall, NoPair
<1>9. \A c \in Callers : ~ Persisting(c) /\ ~ Waiting(c) /\ ~ Redeeming(c)
  BY DEF Init, Persisting, Waiting, Redeeming, NoCall
<1>10. Parts
  BY <1>1, <1>9 DEF Init, Parts, PersisterOK, WaiterOK, CommandOK, StoredOK,
                    Usable, Keys
<1> QED
  BY <1>5, <1>6, <1>7, <1>8, <1>10 DEF Inv, Sound

\* The state that Token, ForceRefresh, the refresh, the persist, login, logout
\* and a crash maintain together: values of issued tokens, the mutex of each
\* source, no copy of a dropped token, and a stored login that is sound while
\* nothing was reported and no writers overlapped.
THEOREM TokenInvariant == Spec => []Inv
<1>1. Inv /\ [Next]_vars => Inv'
  BY ShapeStep, KnownStep, MutexStep, DroppedStep, SoundStep DEF Inv
<1> QED
  BY <1>1, InitInv, PTL DEF Spec

\* Every cached, published and in-flight value of the token source is a token
\* the provider issued, a persist makes at most Attempts writes, and o.mu is
\* held exactly by the caller inside Token or ForceRefresh.
THEOREM TokenTypeOK == Spec => []TypeOK
<1>1. Inv => TypeOK
  <2> SUFFICES ASSUME Inv PROVE TypeOK
    OBVIOUS
  <2>1. store \in [Keys -> Tokens] /\ cache \in [Procs -> [at : Tokens, exp : Tokens]]
    BY DEF Inv, Shape, Known
  <2> QED
    BY <2>1 DEF Inv, Shape, Known, CallsKnown, Mutex, TypeOK, Outside
<1> QED
  BY <1>1, TokenInvariant, PTL

\* ForceRefresh: a token a process dropped after a 401 is handed to none of its
\* callers again, through the cache, the published copy or a refresh.
THEOREM TokenRejectedNotServed == Spec => RejectedNotServed
<1>1. Inv /\ [Next]_vars =>
        [\A c \in Callers :
           call[c].pc # "issue" /\ call'[c].pc = "issue" =>
             call'[c].tok \notin rejected[ProcOf[c]]]_vars
  BY DroppedStep DEF Inv, NotServed, ServedTo
<1> QED
  BY <1>1, TokenInvariant, PTL DEF Spec, RejectedNotServed

\* persistRotatedTokenLocked: without a report and without overlapping writers,
\* the refresh token in the store can be redeemed whenever nobody is writing it.
THEOREM TokenStrandNeedsOverlap == Spec => []StrandNeedsOverlap
<1>1. Inv => StrandNeedsOverlap
  BY DEF Inv, Sound, Parts, StoredOK, CommandOK, NonePersists, StrandNeedsOverlap,
         Stranded
<1> QED
  BY <1>1, TokenInvariant, PTL
=============================================================================
