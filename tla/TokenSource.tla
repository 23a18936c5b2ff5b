---------------------------- MODULE TokenSource ----------------------------
(***************************************************************************)
(* The login shared by the processes of a machine: the credential store,   *)
(* the refreshing token source of each process, the calls that use it, and *)
(* the login and logout commands (auth/tokensource.go, auth/refresh.go,    *)
(* auth/sync_transport.go, graphclient/cloud_auth.go, cli/auth_login.go,   *)
(* cli/auth_logout.go, cli/desktop_auth.go). The store is one value per    *)
(* key, each read and written atomically; nothing covers two keys, and     *)
(* nothing covers a read and a later write. The provider is external: it   *)
(* answers a redeemed refresh token with a new pair and refuses the old    *)
(* one from then on, or with a new access token alone. Token i is the      *)
(* answer number i, and 0 is an absent value.                              *)
(***************************************************************************)
EXTENDS Integers, Sequences, FiniteSets

CONSTANTS
  Procs,        \* processes holding an OAuthTokenSource
  Callers,      \* goroutines that issue cloud calls
  ProcOf,       \* Callers -> Procs
  None,         \* no caller holds the mutex
  Attempts,     \* writes of one persist: len(persistRetryDelays) + 1
  MaxEvents     \* bound: commands, turns of the tokens issued so far (they age
                \* or are refused), failures of the store or the provider, and
                \* crashes, together

ASSUME TokenAssumption ==
  /\ ProcOf \in [Callers -> Procs]
  /\ None \notin Callers
  /\ Attempts \in Nat \ {0}
  /\ MaxEvents \in Nat

VARIABLES
  store,       \* the credential store: key -> token, or client for "cid"
  client,      \* client[i]: the registered client token i was issued to
  redeemable,  \* refresh tokens the provider still accepts
  due,         \* tokens within accessCacheMargin of their expiry
  refused,     \* access tokens the server answers with 401
  cache,       \* o.accessToken and o.expiresAt of each process
  pubRead,     \* o.publicationRead
  mu,          \* holder of o.mu
  call,        \* the call each caller is in
  cli,         \* the login or logout command that is running
  rejected,    \* history: the tokens a process dropped after a 401
  accounted,   \* history: a loss of the stored login someone was told of, or a
               \* process that ended between two of its writes
  overlap,     \* history: two writers of the login were active at once
  events       \* of MaxEvents

vars == <<store, client, redeemable, due, refused, cache, pubRead, mu, call,
          cli, rejected, accounted, overlap, events>>

provider == <<client, redeemable, due, refused>>
history == <<rejected, accounted, overlap>>

Keys == {"rt", "cid", "at", "exp"}

Issued == 1 .. Len(client)

NoCall == [pc |-> "idle", rt |-> 0, cid |-> 0, tok |-> 0, tries |-> 0,
           again |-> FALSE]

NoPair == [at |-> 0, exp |-> 0]

Fresh(pair) == pair.at # 0 /\ pair.exp # 0 /\ pair.exp \notin due

\* Callers between reading the stored refresh token and the end of the persist.
Persisting(c) == call[c].pc \in {"set", "verify"}
Redeeming(c) == Persisting(c) \/ call[c].pc \in {"getCID", "redeem"}

\* The stored login can be redeemed by the stored client.
Usable ==
  /\ store.rt \in redeemable
  /\ store.cid = client[store.rt]

-----------------------------------------------------------------------------
Init ==
  /\ store = [k \in Keys |-> 1]
  /\ client = <<1>>
  /\ redeemable = {1}
  /\ due = {}
  /\ refused = {}
  /\ cache = [p \in Procs |-> NoPair]
  /\ pubRead = [p \in Procs |-> FALSE]
  /\ mu = [p \in Procs |-> None]
  /\ call = [c \in Callers |-> NoCall]
  /\ cli = [cmd |-> "none", step |-> 0, tok |-> 0, said |-> "nothing"]
  /\ rejected = [p \in Procs |-> {}]
  /\ accounted = FALSE
  /\ overlap = FALSE
  /\ events = 0

Event ==
  /\ events < MaxEvents
  /\ events' = events + 1

\* The steps of a call that leave everything but the named state alone.
Goto(c, s) == call' = [call EXCEPT ![c].pc = s]

Free(c) == mu[ProcOf[c]] = None

Lock(c) == mu' = [mu EXCEPT ![ProcOf[c]] = c]

Unlock(c) == mu' = [mu EXCEPT ![ProcOf[c]] = None]

\* The source returns token t and the caller sends its request with it.
Hand(c, t) == call' = [call EXCEPT ![c].pc = "issue", ![c].tok = t]

\* The call goes on to refreshLocked.
Refreshes(c) == call' = [call EXCEPT ![c].pc = "getRT", ![c].tok = 0]

\* The call ends; its locals die with it.
Return(c) == call' = [call EXCEPT ![c] = NoCall]

\* The source returns an error: the call ends and the mutex is released.
Fail(c) ==
  /\ Return(c)
  /\ Unlock(c)

-----------------------------------------------------------------------------
(* Token and ForceRefresh                                                   *)

\* Token: the cache; without one, loadPublishedLocked reads the published token,
\* whose absence goes on to a refresh.
Token(c) ==
  LET p == ProcOf[c]
  IN  /\ call[c].pc = "idle"
      /\ Free(c)
      /\ \/ /\ Fresh(cache[p])
            /\ Hand(c, cache[p].at)
            /\ UNCHANGED <<mu, pubRead>>
         \/ /\ ~ Fresh(cache[p])
            /\ ~ pubRead[p] /\ store.at # 0
            /\ call' = [call EXCEPT ![c].pc = "readExp", ![c].tok = store.at]
            /\ Lock(c)
            /\ UNCHANGED pubRead
         \/ /\ ~ Fresh(cache[p])
            /\ pubRead[p] \/ store.at = 0
            /\ pubRead' = [pubRead EXCEPT ![p] = TRUE]
            /\ Refreshes(c)
            /\ Lock(c)
      /\ UNCHANGED <<store, provider, cache, cli, history, events>>

\* loadPublishedLocked, the expiry, and the check of the loaded pair.
LoadExp(c) ==
  LET p == ProcOf[c]
      pair == IF store.exp = 0 THEN cache[p]
              ELSE [at |-> call[c].tok, exp |-> store.exp]
  IN  /\ call[c].pc = "readExp"
      /\ pubRead' = [pubRead EXCEPT ![p] = TRUE]
      /\ cache' = [cache EXCEPT ![p] = pair]
      /\ \/ /\ Fresh(pair)
            /\ Hand(c, pair.at)
            /\ Unlock(c)
         \/ /\ ~ Fresh(pair)
            /\ Refreshes(c)
            /\ UNCHANGED mu
      /\ UNCHANGED <<store, provider, cli, history, events>>

\* Mutant: the cache is replaced by the refresh, not cleared before it.
MutForceRefresh(c) ==
  LET p == ProcOf[c]
  IN  /\ call[c].pc = "force"
      /\ Free(c)
      /\ Lock(c)
      /\ pubRead' = [pubRead EXCEPT ![p] = TRUE]
      /\ rejected' = [rejected EXCEPT ![p] = @ \cup {call[c].tok}]
      /\ Refreshes(c)
      /\ UNCHANGED <<store, provider, cache, cli, accounted, overlap, events>>

\* ForceRefresh, up to refreshLocked.
ForceRefresh(c) ==
  LET p == ProcOf[c]
  IN  /\ call[c].pc = "force"
      /\ Free(c)
      /\ Lock(c)
      /\ pubRead' = [pubRead EXCEPT ![p] = TRUE]
      /\ cache' = [cache EXCEPT ![p] = NoPair]
      /\ rejected' = [rejected EXCEPT ![p] = @ \cup {call[c].tok}]
      /\ Refreshes(c)
      /\ UNCHANGED <<store, provider, cli, accounted, overlap, events>>

-----------------------------------------------------------------------------
(* refreshLocked                                                            *)

GetRT(c) ==
  /\ call[c].pc = "getRT"
  /\ IF store.rt = 0
     THEN Fail(c)
     ELSE /\ call' = [call EXCEPT ![c].pc = "getCID", ![c].rt = store.rt]
          /\ UNCHANGED mu
  /\ overlap' = (overlap \/ cli.cmd # "none" \/ \E d \in Callers : Persisting(d))
  /\ UNCHANGED <<store, provider, cache, pubRead, cli, rejected, accounted,
                 events>>

GetCID(c) ==
  /\ call[c].pc = "getCID"
  /\ IF store.cid = 0
     THEN Fail(c)
     ELSE /\ call' = [call EXCEPT ![c].pc = "redeem", ![c].cid = store.cid]
          /\ UNCHANGED mu
  /\ UNCHANGED <<store, provider, cache, pubRead, cli, history, events>>

\* The provider's side of a redemption: the answer is a new pair.
Redeemed(rt) ==
  /\ client' = Append(client, client[rt])
  /\ redeemable' = (redeemable \ {rt}) \cup {Len(client) + 1}
  /\ UNCHANGED <<due, refused>>

\* The provider answers without a new refresh token: the old one stays good.
Kept(rt) ==
  /\ client' = Append(client, client[rt])
  /\ UNCHANGED <<redeemable, due, refused>>

\* RefreshAccessToken answered; populateFromResponseLocked caches the answer.
Refresh(c) ==
  LET new == Len(client) + 1
  IN  /\ call[c].pc = "redeem"
      /\ call[c].rt \in redeemable
      /\ client[call[c].rt] = call[c].cid
      /\ Redeemed(call[c].rt)
      /\ cache' = [cache EXCEPT ![ProcOf[c]] = [at |-> new, exp |-> new]]
      /\ call' = [call EXCEPT ![c] = [@ EXCEPT !.pc = "set", !.rt = 0, !.cid = 0,
                                               !.tok = new]]
      /\ UNCHANGED <<store, pubRead, mu, cli, history, events>>

\* The answer does not rotate: there is nothing to persist.
RefreshKeeps(c) ==
  LET new == Len(client) + 1
  IN  /\ call[c].pc = "redeem"
      /\ call[c].rt \in redeemable
      /\ client[call[c].rt] = call[c].cid
      /\ Kept(call[c].rt)
      /\ cache' = [cache EXCEPT ![ProcOf[c]] = [at |-> new, exp |-> new]]
      /\ call' = [call EXCEPT ![c] = [@ EXCEPT !.pc = "pubAT", !.rt = 0, !.cid = 0,
                                               !.tok = new]]
      /\ UNCHANGED <<store, pubRead, mu, cli, history, events>>

\* invalid_grant: a consumed token, or one of another client.
RefreshRefused(c) ==
  /\ call[c].pc = "redeem"
  /\ \/ call[c].rt \notin redeemable
     \/ client[call[c].rt] # call[c].cid
  /\ Fail(c)
  /\ UNCHANGED <<store, provider, cache, pubRead, cli, history, events>>

\* The answer of a redemption is lost: the token is consumed all the same.
RefreshLost(c) ==
  /\ call[c].pc = "redeem"
  /\ call[c].rt \in redeemable
  /\ client[call[c].rt] = call[c].cid
  /\ Event
  /\ Redeemed(call[c].rt)
  /\ accounted' = TRUE
  /\ Fail(c)
  /\ UNCHANGED <<store, cache, pubRead, cli, rejected, overlap>>

\* A read of the store (the one of the published token fails like the one of
\* its expiry) or a request to the provider fails before it has effect.
GetFails(c) ==
  /\ call[c].pc \in {"readExp", "getRT", "getCID", "redeem"}
  /\ Event
  /\ Fail(c)
  /\ UNCHANGED <<store, provider, cache, pubRead, cli, history>>

-----------------------------------------------------------------------------
(* persistRotatedTokenLocked and PublishSessionToken                        *)

Publishes(c) == call' = [call EXCEPT ![c].pc = "pubAT", ![c].tries = 0]

SetRT(c) ==
  /\ call[c].pc = "set"
  /\ store' = [store EXCEPT !.rt = call[c].tok]
  /\ Goto(c, "verify")
  /\ UNCHANGED <<provider, cache, pubRead, mu, cli, history, events>>

\* A write that reports success and does not land.
SetLies(c) ==
  /\ call[c].pc = "set"
  /\ Event
  /\ Goto(c, "verify")
  /\ UNCHANGED <<store, provider, cache, pubRead, mu, cli, history>>

\* One attempt failed: the next one, or the ERROR that names the loss.
Retry(c) ==
  IF call[c].tries + 1 < Attempts
  THEN /\ call' = [call EXCEPT ![c].pc = "set", ![c].tries = @ + 1]
       /\ UNCHANGED accounted
  ELSE /\ Publishes(c)
       /\ accounted' = TRUE

\* Mutant: the read-back is not compared with what was written.
MutVerify(c) ==
  /\ call[c].pc = "verify"
  /\ Publishes(c)
  /\ UNCHANGED <<store, provider, cache, pubRead, mu, cli, history, events>>

Verify(c) ==
  /\ call[c].pc = "verify"
  /\ \/ /\ store.rt = call[c].tok
        /\ Publishes(c)
        /\ UNCHANGED accounted
     \/ /\ store.rt # call[c].tok
        /\ Retry(c)
  /\ UNCHANGED <<store, provider, cache, pubRead, mu, cli, rejected, overlap,
                 events>>

\* The write or its read-back returns an error.
PersistFails(c) ==
  /\ Persisting(c)
  /\ Event
  /\ Retry(c)
  /\ UNCHANGED <<store, provider, cache, pubRead, mu, cli, rejected, overlap>>

\* The caller's context ends during the wait before a retry.
PersistCancelled(c) ==
  /\ call[c].pc = "set"
  /\ call[c].tries > 0
  /\ Publishes(c)
  /\ accounted' = TRUE
  /\ UNCHANGED <<store, provider, cache, pubRead, mu, cli, rejected, overlap,
                 events>>

PublishAT(c) ==
  /\ call[c].pc = "pubAT"
  /\ store' = [store EXCEPT !.at = call[c].tok]
  /\ Goto(c, "pubExp")
  /\ UNCHANGED <<provider, cache, pubRead, mu, cli, history, events>>

\* The last write of a refresh, and its return.
PublishExp(c) ==
  /\ call[c].pc = "pubExp"
  /\ store' = [store EXCEPT !.exp = call[c].tok]
  /\ Hand(c, cache[ProcOf[c]].at)
  /\ Unlock(c)
  /\ UNCHANGED <<provider, cache, pubRead, cli, history, events>>

\* A publication that fails costs its readers, not this caller.
PublishFails(c) ==
  /\ call[c].pc \in {"pubAT", "pubExp"}
  /\ Event
  /\ Hand(c, cache[ProcOf[c]].at)
  /\ Unlock(c)
  /\ UNCHANGED <<store, provider, cache, pubRead, cli, history>>

-----------------------------------------------------------------------------
(* sendWithAuthBytes and bearerRoundTripper.RoundTrip                       *)

IssueOK(c) ==
  /\ call[c].pc = "issue"
  /\ call[c].tok \notin refused
  /\ Return(c)
  /\ UNCHANGED <<store, provider, cache, pubRead, mu, cli, history, events>>

\* Mutant: the 401 is handed to the caller.
MutIssue401(c) ==
  /\ call[c].pc = "issue"
  /\ call[c].tok \in refused
  /\ Return(c)
  /\ UNCHANGED <<store, provider, cache, pubRead, mu, cli, history, events>>

\* The first 401 forces a refresh; the second one is the answer.
Issue401(c) ==
  /\ call[c].pc = "issue"
  /\ call[c].tok \in refused
  /\ IF call[c].again
     THEN Return(c)
     ELSE call' = [call EXCEPT ![c].pc = "force", ![c].again = TRUE]
  /\ UNCHANGED <<store, provider, cache, pubRead, mu, cli, history, events>>

-----------------------------------------------------------------------------
(* knowledge login and knowledge logout                                     *)

\* The command ends; what it reported is its last word on the store.
Done(said) == cli' = [cmd |-> "none", step |-> 0, tok |-> 0, said |-> said]

\* The browser flow: a new client, and the first pair issued to it.
LoginGranted ==
  LET new == Len(client) + 1
  IN  /\ cli.cmd = "none"
      /\ Event
      /\ client' = Append(client, new)
      /\ redeemable' = redeemable \cup {new}
      /\ cli' = [cmd |-> "login", step |-> 1, tok |-> new, said |-> "nothing"]
      /\ UNCHANGED <<store, due, refused, cache, pubRead, mu, call, history>>

\* The keys a login writes, in order.
loginKeys == <<"cid", "rt", "at", "exp">>

LoginSet ==
  /\ cli.cmd = "login"
  /\ LET k == loginKeys[cli.step]
     IN  store' = [store EXCEPT ![k] = IF k = "cid" THEN client[cli.tok]
                                       ELSE cli.tok]
  /\ IF cli.step < 4 THEN cli' = [cli EXCEPT !.step = @ + 1]
     ELSE Done("loggedIn")
  /\ overlap' = (overlap \/ \E c \in Callers : Redeeming(c))
  /\ UNCHANGED <<provider, cache, pubRead, mu, call, rejected, accounted, events>>

\* A failed write of the client or the refresh token is an error of the command.
\* (handleKeychainUnavailable answers an error no backend of the store returns.)
LoginFails ==
  /\ cli.cmd = "login"
  /\ Event
  /\ Done(IF cli.step < 3 THEN "error" ELSE "loggedIn")
  /\ accounted' = (accounted \/ cli.step = 2)
  /\ UNCHANGED <<store, provider, cache, pubRead, mu, call, rejected, overlap>>

\* revokeIfPresent reads the refresh token.
LogoutReads ==
  /\ cli.cmd = "none"
  /\ Event
  /\ cli' = [cmd |-> "logout", step |-> 0, tok |-> store.rt, said |-> "loggedOut"]
  /\ overlap' = (overlap \/ \E c \in Callers : Redeeming(c))
  /\ UNCHANGED <<store, provider, cache, pubRead, mu, call, rejected, accounted>>

\* The revocation is best effort: it may have no effect at all.
LogoutRevokes ==
  /\ cli.cmd = "logout"
  /\ cli.step = 0
  /\ redeemable' \in {redeemable, redeemable \ {cli.tok}}
  /\ cli' = [cli EXCEPT !.step = 1]
  /\ UNCHANGED <<store, client, due, refused, cache, pubRead, mu, call, history,
                 events>>

\* The keys deleteCredentials deletes, in order.
logoutKeys == <<"rt", "cid", "at", "exp">>

\* deleteCredentials goes on to the next key whether or not one failed.
LogoutNext(said) ==
  IF cli.step < 4 THEN cli' = [cli EXCEPT !.step = @ + 1, !.said = said]
  ELSE Done(said)

LogoutDeletes ==
  /\ cli.cmd = "logout"
  /\ cli.step > 0
  /\ store' = [store EXCEPT ![logoutKeys[cli.step]] = 0]
  /\ LogoutNext(cli.said)
  /\ UNCHANGED <<provider, cache, pubRead, mu, call, history, events>>

LogoutFails ==
  /\ cli.cmd = "logout"
  /\ cli.step > 0
  /\ Event
  /\ LogoutNext("error")
  /\ accounted' = TRUE
  /\ UNCHANGED <<store, provider, cache, pubRead, mu, call, rejected, overlap>>

\* The command is killed: a login between its keys leaves a client without its
\* refresh token.
CommandKilled ==
  /\ cli.cmd # "none"
  /\ Event
  /\ Done("nothing")
  /\ accounted' = (accounted \/ cli.cmd = "logout" \/ cli.step = 2)
  /\ UNCHANGED <<store, provider, cache, pubRead, mu, call, rejected, overlap>>

-----------------------------------------------------------------------------
(* Time, the server and the processes                                       *)

\* The tokens issued so far come within the margin of their expiry.
Age ==
  /\ Event
  /\ due' = Issued
  /\ UNCHANGED <<store, client, redeemable, refused, cache, pubRead, mu, call,
                 cli, history>>

\* The tokens issued so far expire, or the server drops their signing key.
Refuse ==
  /\ Event
  /\ refused' = Issued
  /\ UNCHANGED <<store, client, redeemable, due, cache, pubRead, mu, call, cli,
                 history>>

\* A process ends wherever it is and starts with a new source.
Crash(p) ==
  /\ Event
  /\ cache' = [cache EXCEPT ![p] = NoPair]
  /\ pubRead' = [pubRead EXCEPT ![p] = FALSE]
  /\ mu' = [mu EXCEPT ![p] = None]
  /\ rejected' = [rejected EXCEPT ![p] = {}]
  /\ accounted' = (accounted \/ \E c \in Callers : ProcOf[c] = p /\ Persisting(c))
  /\ call' = [c \in Callers |->
                IF ProcOf[c] # p THEN call[c]
                ELSE NoCall]
  /\ UNCHANGED <<store, provider, cli, overlap>>

-----------------------------------------------------------------------------
CallStep(c) ==
  \/ Token(c)
  \/ LoadExp(c)
  \/ ForceRefresh(c)
  \/ GetRT(c)
  \/ GetCID(c)
  \/ Refresh(c)
  \/ RefreshKeeps(c)
  \/ RefreshRefused(c)
  \/ SetRT(c)
  \/ Verify(c)
  \/ PublishAT(c)
  \/ PublishExp(c)
  \/ IssueOK(c)
  \/ Issue401(c)

CallFault(c) ==
  \/ GetFails(c)
  \/ RefreshLost(c)
  \/ SetLies(c)
  \/ PersistFails(c)
  \/ PersistCancelled(c)
  \/ PublishFails(c)

CommandStep ==
  \/ LoginSet
  \/ LogoutRevokes
  \/ LogoutDeletes

Next ==
  \/ \E c \in Callers : CallStep(c)
  \/ \E c \in Callers : CallFault(c)
  \/ LoginGranted
  \/ LogoutReads
  \/ CommandStep
  \/ LoginFails
  \/ LogoutFails
  \/ CommandKilled
  \/ Age
  \/ Refuse
  \/ \E p \in Procs : Crash(p)

Spec == Init /\ [][Next]_vars

\* Callers keep calling and a call keeps going (the mutex is handed over in
\* turn, hence the strong fairness), and a command runs to its end.
FairSpec ==
  /\ Spec
  /\ \A c \in Callers : SF_vars(CallStep(c))
  /\ WF_vars(CommandStep)

-----------------------------------------------------------------------------
(* Properties                                                               *)

Tokens == 0 .. Len(client)

\* Every value names a token that was issued, and the mutex is held exactly by
\* the caller that is inside the token source.
TypeOK ==
  /\ store \in [Keys -> Tokens]
  /\ redeemable \cup due \cup refused \subseteq Issued
  /\ cache \in [Procs -> [at : Tokens, exp : Tokens]]
  /\ pubRead \in [Procs -> BOOLEAN]
  /\ \A c \in Callers :
       /\ {call[c].rt, call[c].cid, call[c].tok} \subseteq Tokens
       /\ call[c].tries < Attempts
       /\ (mu[ProcOf[c]] = c) <=> (call[c].pc \notin {"idle", "issue", "force"})

\* ForceRefresh, "so that if the refresh itself fails the caller can't
\* accidentally read a stale token": once a process dropped a token after a 401
\* it never hands that token to a call again, through the cache, the published
\* copy or a refresh, whatever fails in between.
RejectedNotServed ==
  [][\A c \in Callers :
       call[c].pc # "issue" /\ call'[c].pc = "issue" =>
         call'[c].tok \notin rejected[ProcOf[c]]]_vars

\* The stored login cannot be redeemed and no writer is about to repair it.
Stranded ==
  /\ store.rt # 0
  /\ ~ Usable
  /\ cli.cmd = "none"
  /\ ~ \E c \in Callers : Persisting(c)

\* The persist of a rotated token, retried and read back: the stored login goes
\* stale only with a report (the persist error, a lost answer, a command that
\* failed), when a process ended inside the persist, a login between its keys or
\* a logout, or when writers overlapped.
StrandNeedsOverlap == Stranded => accounted \/ overlap

\* A 401 forces a refresh and a retry: while the stored login stays usable,
\* every caller is served again and again, whatever was cached, torn, refused or
\* lost on the way.
Recovers ==
  <>[]Usable => \A c \in Callers : []<><<IssueOK(c)>>_vars
-----------------------------------------------------------------------------
(***************************************************************************)
(* Further claims of comments.  No recorded run checks them; the README    *)
(* names an instance that refutes each.                                    *)
(***************************************************************************)

\* refreshLocked, "what is not tolerable is silence": a stale stored login is
\* always accounted for, however many processes refresh it.
NoSilentStrand == Stranded => accounted

\* LogoutCmd, "the critical invariant": when it has reported success, neither a
\* refresh token nor a session token is left in the store.
LogoutLeavesNothing ==
  cli.cmd = "none" /\ cli.said = "loggedOut" => store.rt = 0 /\ store.at = 0
=============================================================================
