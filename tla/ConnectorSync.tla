---------------------------- MODULE ConnectorSync ----------------------------
(***************************************************************************)
(* A connector built with the SDK pulls the pages of a remote system       *)
(* (sdk/connector/examples/rest): a token of the shared bucket for a page, *)
(* then the shared circuit breaker around the attempts of retry.Do, each   *)
(* of which asks for the shared OAuth2 token first.  The syncs are the     *)
(* goroutines of SdkBreaker, and its variables are the connector's breaker.*)
(*                                                                         *)
(* The remote system holds Records records and answers with pages of any   *)
(* of the PageSizes, none of them empty.  What a token of the bucket costs *)
(* in time is left out: one is refilled now and then.  The consumer reads  *)
(* the channel.                                                            *)
(***************************************************************************)
EXTENDS SdkBreaker, Integers, FiniteSets

CONSTANTS Syncs,        \* the goroutines of Sync
          Records,      \* what the remote system holds
          PageSizes,    \* the sizes of its pages
          Limits,       \* the limits callers ask for, 0 for none
          MaxAttempts,  \* attempts of retry.Do
          Burst,        \* capacity of the bucket
          MaxSyncs      \* bound: syncs started

\* A limit below 1 is none.
ASSUME ConnectorAssumption ==
  /\ Syncs \subseteq Calls
  /\ PageSizes \subseteq Nat \ {0}
  /\ Limits \subseteq Int

VARIABLES sync,      \* sync[c]: where the goroutine is, its page and context
          tokens,    \* the whole tokens of the bucket
          bearer,    \* the cached OAuth2 token, and who holds its mutex
          started    \* ghost: syncs started

connectorVars == <<vars, sync, tokens, bearer, started>>

\* `done` when its context is cancelled; `cursor` records were on the pages fetched,
\* `left` of them wait to be sent, `size` were on the latest, and `pages` were sent.
\* Ghosts: the `sizes` of the pages fetched, the `faults` of the attempts at this one
\* while the context was live, and whether the credentials were `refused`.
NotSyncing == [phase |-> "closed", done |-> FALSE, limit |-> 0, cursor |-> 0, left |-> 0,
               size |-> 0, pages |-> 0, attempt |-> 0,
               sizes |-> {}, faults |-> 0, refused |-> FALSE]

ConnectorInit ==
  /\ Init
  /\ sync = [c \in Syncs |-> NotSyncing]
  /\ tokens = Burst
  /\ bearer = [cached |-> "none", holder |-> {}]
  /\ started = 0

At(c, phase) == sync[c].phase = phase
Goes(c, new) == sync' = [sync EXCEPT ![c] = new]
To(c, phase) == Goes(c, [sync[c] EXCEPT !.phase = phase])

\* A sync is over; how far it came, and why, stays to be seen.
Sent(s)  == s.cursor - s.left
Over(s)  == [NotSyncing EXCEPT !.cursor = Sent(s), !.faults = s.faults,
                               !.refused = s.refused]
Close(c) == Goes(c, Over(sync[c]))

(***************************************************************************)
(* The loop of Sync                                                        *)
(***************************************************************************)

StartSync(c, limit) ==
  /\ At(c, "closed") /\ started < MaxSyncs
  /\ Goes(c, [NotSyncing EXCEPT !.phase = "acquire", !.limit = limit])
  /\ started' = started + 1
  /\ UNCHANGED <<vars, tokens, bearer>>

\* The caller gives up at any time.
Cancel(c) ==
  /\ ~At(c, "closed") /\ ~sync[c].done
  /\ Goes(c, [sync[c] EXCEPT !.done = TRUE])
  /\ UNCHANGED <<vars, tokens, bearer, started>>

\* ctx.Err() at the top of the loop, and Acquire, which takes a token that is there
\* whatever becomes of the context, and waits for one while it is live.
Acquire(c) ==
  /\ At(c, "acquire")
  /\ \/ tokens >= 1 /\ tokens' = tokens - 1 /\ To(c, "allow")
     \/ sync[c].done /\ UNCHANGED tokens /\ Close(c)
  /\ UNCHANGED <<vars, bearer, started>>

\* Mutant: a bucket that ran empty stays so.
Refill_NotEmpty ==
  /\ tokens \in 1..(Burst - 1) /\ tokens' = tokens + 1
  /\ UNCHANGED <<vars, sync, bearer, started>>

Refill ==
  /\ tokens < Burst /\ tokens' = tokens + 1
  /\ UNCHANGED <<vars, sync, bearer, started>>

\* breaker.Do: Allow, and the end of the sync on ErrOpen.
EnterBreaker(c) ==
  /\ At(c, "allow")
  /\ \/ (AllowClosed(c) \/ AllowProbe(c))
        /\ Goes(c, [sync[c] EXCEPT !.phase = "attempt", !.attempt = 1])
     \/ AllowRejected(c) /\ Close(c)
  /\ UNCHANGED <<tokens, bearer, started>>

\* An error of Do is recorded and ends the sync; nothing is sent of it.
EndInError(c) == RecordFailure(c) /\ Close(c)

(***************************************************************************)
(* One attempt of retry.Do: fetchPage                                      *)
(***************************************************************************)

\* ctx.Err() before an attempt.
StartAttempt(c) ==
  /\ At(c, "attempt")
  /\ IF sync[c].done THEN EndInError(c) ELSE To(c, "auth") /\ UNCHANGED vars
  /\ UNCHANGED <<tokens, bearer, started>>

\* The attempt failed: the last one ends Do, the others back off.
Fail(c) ==
  LET failed == [sync[c] EXCEPT !.faults = IF sync[c].done THEN @ ELSE @ + 1]
  IN  IF failed.attempt = MaxAttempts
      THEN RecordFailure(c) /\ Goes(c, Over(failed))
      ELSE Goes(c, [failed EXCEPT !.phase = "backoff"]) /\ UNCHANGED vars

\* Mutant: the cached token is looked at before the mutex is taken, so a sync that
\* waited for another one's token fetches again.
LockToken_CheckedEarlier(c) ==
  /\ At(c, "auth")
  /\ \/ bearer.cached = "fresh" /\ To(c, "request") /\ UNCHANGED bearer
     \/ bearer.holder = {} /\ To(c, "fetching")
        /\ bearer' = [bearer EXCEPT !.holder = {c}]
  /\ UNCHANGED <<vars, tokens, started>>

\* token(): waits for the mutex whatever the context.
LockToken(c) ==
  /\ At(c, "auth") /\ bearer.holder = {}
  /\ IF bearer.cached = "fresh"
     THEN To(c, "request") /\ UNCHANGED bearer
     ELSE To(c, "fetching") /\ bearer' = [bearer EXCEPT !.holder = {c}]
  /\ UNCHANGED <<vars, tokens, started>>

\* Mutant: an error of the token endpoint leaves the mutex locked.
FetchToken_KeepsLock(c) ==
  /\ At(c, "fetching")
  /\ \/ /\ ~sync[c].done
        /\ bearer' = [cached |-> "fresh", holder |-> {}]
        /\ To(c, "request") /\ UNCHANGED vars
     \/ UNCHANGED bearer /\ Fail(c)
  /\ UNCHANGED <<tokens, started>>

\* fetchToken, with the mutex held: a token, or an error, which is not permanent.
FetchToken(c) ==
  /\ At(c, "fetching")
  /\ \/ /\ ~sync[c].done
        /\ bearer' = [cached |-> "fresh", holder |-> {}]
        /\ To(c, "request") /\ UNCHANGED vars
     \/ bearer' = [bearer EXCEPT !.holder = {}] /\ Fail(c)
  /\ UNCHANGED <<tokens, started>>

ExpireToken ==
  /\ bearer.cached = "fresh"
  /\ bearer' = [bearer EXCEPT !.cached = "expired"]
  /\ UNCHANGED <<vars, sync, tokens, started>>

\* A page, as long as the context is live.
ReceivePage(c) ==
  /\ At(c, "request") /\ ~sync[c].done
  /\ RecordSuccess(c)
  /\ \E size \in {s \in PageSizes : sync[c].cursor + s <= Records} :
       Goes(c, [sync[c] EXCEPT !.phase = "send", !.cursor = @ + size, !.left = size,
                               !.attempt = 0, !.faults = 0, !.size = size, !.sizes = @ \cup {size}])
  /\ UNCHANGED <<tokens, bearer, started>>

\* Anything but a page, or a cancelled request.
AttemptFails(c) ==
  /\ At(c, "request") /\ Fail(c)
  /\ UNCHANGED <<tokens, bearer, started>>

\* 401 and 403 are permanent.
Refused(c) ==
  /\ At(c, "request") /\ ~sync[c].done
  /\ RecordFailure(c)
  /\ Goes(c, Over([sync[c] EXCEPT !.refused = TRUE]))
  /\ UNCHANGED <<tokens, bearer, started>>

\* The select between the context and the timer.
BackOff(c) ==
  /\ At(c, "backoff")
  /\ \/ sync[c].done /\ EndInError(c)
     \/ /\ Goes(c, [sync[c] EXCEPT !.phase = "attempt", !.attempt = @ + 1])
        /\ UNCHANGED vars
  /\ UNCHANGED <<tokens, bearer, started>>

(***************************************************************************)
(* The records of a page                                                   *)
(***************************************************************************)

\* Mutant: the limit is compared before the page is counted.
LimitReached_EarlierPages(s) == s.limit > 0 /\ s.pages * s.size >= s.limit

\* The limit is compared with the pages sent, each as long as the last.
LimitReached(s) == s.limit > 0 /\ (s.pages + 1) * s.size >= s.limit

\* After the last record of a page: the limit, the last page, or the next one.
AfterPage(s) ==
  IF LimitReached(s) \/ s.cursor = Records THEN Over([s EXCEPT !.left = 0])
  ELSE [s EXCEPT !.left = 0, !.pages = @ + 1, !.phase = "acquire"]

\* One record into the channel, or the context.
SendRecord(c) ==
  /\ At(c, "send")
  /\ \/ Goes(c, IF sync[c].left = 1 THEN AfterPage(sync[c])
                ELSE [sync[c] EXCEPT !.left = @ - 1])
     \/ sync[c].done /\ Close(c)
  /\ UNCHANGED <<vars, tokens, bearer, started>>

Step(c) ==
  \/ Acquire(c) \/ EnterBreaker(c)
  \/ StartAttempt(c) \/ LockToken(c) \/ FetchToken(c)
  \/ ReceivePage(c) \/ AttemptFails(c) \/ Refused(c) \/ BackOff(c)
  \/ SendRecord(c)

\* Healthcheck reads the circuit's state, and time passes.
BreakerStep == /\ Observe \/ Tick
               /\ UNCHANGED <<sync, tokens, bearer, started>>

ConnectorNext ==
  \/ \E c \in Syncs : Step(c) \/ Cancel(c) \/ \E limit \in Limits : StartSync(c, limit)
  \/ Refill \/ ExpireToken \/ BreakerStep

\* Requests return (30 s), timers fire and the bucket fills; callers need neither
\* start nor cancel anything.
ConnectorFairness ==
  WF_connectorVars(Refill) /\ \A c \in Syncs : WF_connectorVars(Step(c))

ConnectorSpec == ConnectorInit /\ [][ConnectorNext]_connectorVars /\ ConnectorFairness

(***************************************************************************)
(* Properties                                                              *)
(***************************************************************************)

Ends(c) == ~At(c, "closed") /\ sync'[c].phase = "closed"

\* "The channel is closed when all pages have been sent or ctx is cancelled"
\* (rest/connector.go:141-142), or, with no word to the consumer, at the limit, when
\* the remote system refused the credentials or failed every attempt, and when
\* failures, of this sync or of others, opened the circuit.
EndIsExplained ==
  [][\A c \in Syncs : Ends(c) =>
       \/ Sent(sync'[c]) = Records
       \/ sync[c].done
       \/ /\ sync[c].limit > 0
          /\ Sent(sync'[c]) >= sync[c].limit \/ Cardinality(sync[c].sizes) > 1
       \/ sync'[c].refused \/ sync'[c].faults = MaxAttempts
       \/ At(c, "allow") /\ consecutiveFails >= FailureThreshold]_connectorVars

\* A sync whose pages are of one size ends less than a page beyond its limit: "Limit
\* caps the number of records returned" (connector.go:37) is true of whole pages
\* only, since the pages sent are counted, at the length of the last one.
EvenPagesKeepLimit ==
  [][\A c \in Syncs : (Ends(c) /\ sync[c].limit > 0 /\ Cardinality(sync[c].sizes) = 1) =>
       Sent(sync'[c]) < sync[c].limit + sync[c].size]_connectorVars

\* Syncs that wait for an OAuth2 token together fetch one: nobody fetches while a
\* token is cached that has not expired (token, auth.go:184-199).
NoNeedlessFetch == bearer.holder # {} => bearer.cached # "fresh"

\* Whatever waits on the bucket, the breaker, the mutex and the remote system, a
\* sync comes to its end.
SyncsEnd == \A c \in Syncs : ~At(c, "closed") ~> At(c, "closed")

\* A connector's syncs end, for a reason, at the limit if there is one, and share
\* one OAuth2 token meanwhile.
SyncsComeToAnEnd ==
  []NoNeedlessFetch /\ EvenPagesKeepLimit /\ EndIsExplained /\ SyncsEnd
=============================================================================
