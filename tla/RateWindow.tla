----------------------------- MODULE RateWindow -----------------------------
(***************************************************************************)
(* The two sliding windows that limit requests: the gateway's, one Lua     *)
(* script (services/gateway/internal/middleware/ratelimit.go), and the     *)
(* shared cache's, a pipeline of single commands                           *)
(* (shared/cache/ratelimit.go).  Both keep a sorted set in Redis with one  *)
(* member a request, scored with the time the server read before it sent   *)
(* its commands.                                                           *)
(*                                                                         *)
(* Times are ages: a tick makes every stamp one older, so the model runs   *)
(* for ever.  A stamp is at most MaxDelay old when its commands run, and   *)
(* the ages from Oldest on are not told apart.  One key is modelled: the   *)
(* requests of other organisations and addresses do not touch it.  Counts  *)
(* stop at Limit + 1: the limiters only compare them with Limit.           *)
(***************************************************************************)
EXTENDS Integers, FiniteSets, Functions

CONSTANTS Clients,    \* requests that can be served at a time
          Window,     \* length of the window, in ticks
          Limit,      \* requests a window admits
          MaxDelay    \* bound on the age of a stamp when its commands run

\* A limit of 0 is one that admits nobody.
ASSUME WindowAssumption == /\ IsFiniteSet(Clients)
                           /\ Window \in Nat \ {0}
                           /\ Limit \in Nat
                           /\ MaxDelay \in Nat

VARIABLES limiter,    \* which of the two limiters the key belongs to
          entries,    \* by age of the score: members of the sorted set
          ttl,        \* ticks the key has left
          request,    \* what a request is doing, and the age of its stamp
          newest,     \* age of the latest time that members were removed for
          lastSeen,   \* age of the latest answer
          regular,    \* by age of the stamp: requests admitted, except those
                      \* that came late or shared a member
          outcome     \* the latest answer, and whether its request was alone

windowVars == <<limiter, entries, ttl, request, newest, lastSeen, regular, outcome>>

Oldest == Window + MaxDelay
Ages   == 0..Oldest
Idle   == [phase |-> "idle", age |-> 0, alone |-> FALSE]
Empty  == [a \in Ages |-> 0]
Capped(n) == IF n > Limit + 1 THEN Limit + 1 ELSE n
Older(a)  == IF a = Oldest THEN Oldest ELSE a + 1

WindowInit ==
  /\ limiter \in {"gateway", "cache"}
  /\ entries = Empty /\ regular = Empty
  /\ ttl = 0 /\ newest = Oldest /\ lastSeen = Oldest
  /\ request = [c \in Clients |-> Idle]
  /\ outcome = [answer |-> "none", alone |-> FALSE]

\* A request reads the clock.
Ask(c) ==
  /\ request[c] = Idle
  /\ request' = [d \in Clients |->
       IF d = c THEN [phase |-> "stamped", age |-> 0,
                      alone |-> /\ lastSeen >= Window
                                /\ \A e \in Clients : request[e] = Idle]
       ELSE [request[d] EXCEPT !.alone = FALSE]]
  /\ UNCHANGED <<limiter, entries, ttl, newest, lastSeen, regular, outcome>>

\* Mutant: members exactly one window old are kept.
InWindow_Closed(age, stamp) == age <= stamp + Window

\* ZREMRANGEBYSCORE key -inf now-window leaves the members younger than that.
InWindow(age, stamp) == age < stamp + Window

Prune(stamp) == [a \in Ages |-> IF InWindow(a, stamp) THEN entries[a] ELSE 0]
Newest(stamp) == IF stamp < newest THEN stamp ELSE newest

\* ZADD: one more member, or the member of another request with the same stamp
\* and the same random number or nanosecond.
Add(set, stamp) == {[set EXCEPT ![stamp] = Capped(@ + 1)]}
                   \cup {s \in {set} : set[stamp] > 0}

\* The request of c is answered; admitted with a member of its own and in the
\* order of the stamps, it is a regular one.
Answer(c, answer, own) ==
  /\ outcome' = [answer |-> answer, alone |-> request[c].alone]
  /\ lastSeen' = 0
  /\ request' = [request EXCEPT ![c] = Idle]
  /\ regular' = IF answer = "admitted" /\ own /\ request[c].age <= newest
                THEN [regular EXCEPT ![request[c].age] = @ + 1] ELSE regular

(***************************************************************************)
(* The gateway's script                                                    *)
(***************************************************************************)

\* Mutant: off by one.
HasRoom_OneMore(count) == count <= Limit

HasRoom(count) == count < Limit

\* Mutant: refused requests are recorded as well.
LimiterScript_CountsRefused(c) ==
  LET stamp == request[c].age
      kept  == Prune(stamp)
  IN  /\ limiter = "gateway" /\ request[c].phase = "stamped"
      /\ newest' = Newest(stamp)
      /\ \E set \in Add(kept, stamp) :
           /\ entries' = set
           /\ ttl' = Window
           /\ Answer(c, IF HasRoom(SumFunction(kept)) THEN "admitted" ELSE "refused",
                     set # kept)
      /\ UNCHANGED limiter

\* limiterScript: remove, count, and record the request if there is room.
LimiterScript(c) ==
  LET stamp == request[c].age
      kept  == Prune(stamp)
  IN  /\ limiter = "gateway" /\ request[c].phase = "stamped"
      /\ newest' = Newest(stamp)
      /\ IF HasRoom(SumFunction(kept))
         THEN \E set \in Add(kept, stamp) :
                /\ entries' = set
                /\ ttl' = Window
                /\ Answer(c, "admitted", set # kept)
         ELSE /\ entries' = kept
              /\ UNCHANGED ttl
              /\ Answer(c, "refused", FALSE)
      /\ UNCHANGED limiter

\* Redis does not answer: the gateway lets the request through.
FailOpen(c) ==
  /\ limiter = "gateway" /\ request[c].phase = "stamped"
  /\ Answer(c, "open", FALSE)
  /\ UNCHANGED <<limiter, entries, ttl, newest>>

(***************************************************************************)
(* The cache's pipeline: three commands, between which those of other      *)
(* clients may run                                                         *)
(***************************************************************************)

PipelinePrune(c) ==
  /\ limiter = "cache" /\ request[c].phase = "stamped"
  /\ entries' = Prune(request[c].age)
  /\ newest' = Newest(request[c].age)
  /\ request' = [request EXCEPT ![c].phase = "pruned"]
  /\ UNCHANGED <<limiter, ttl, lastSeen, regular, outcome>>

PipelineAdd(c) ==
  /\ limiter = "cache" /\ request[c].phase = "pruned"
  /\ \E set \in Add(entries, request[c].age) :
       /\ entries' = set
       /\ request' = [request EXCEPT ![c].phase =
                        IF set = entries THEN "shared" ELSE "added"]
  /\ ttl' = Window + 1
  /\ UNCHANGED <<limiter, newest, lastSeen, regular, outcome>>

\* ZCARD, and the verdict of Increment.
PipelineCount(c) ==
  /\ limiter = "cache" /\ request[c].phase \in {"added", "shared"}
  /\ Answer(c, IF SumFunction(entries) <= Limit THEN "admitted" ELSE "refused",
            request[c].phase = "added")
  /\ UNCHANGED <<limiter, entries, ttl, newest>>

\* Reset deletes the key, the members of requests in progress with it.
Reset == /\ limiter = "cache" /\ SumFunction(entries) > 0
         /\ entries' = Empty /\ ttl' = 0 /\ regular' = Empty
         /\ request' = [c \in Clients |-> IF request[c].phase = "added"
                          THEN [request[c] EXCEPT !.phase = "shared"] ELSE request[c]]
         /\ UNCHANGED <<limiter, newest, lastSeen, outcome>>

(***************************************************************************)
(* The clock, and the specification                                        *)
(***************************************************************************)

Shift(counts) == [a \in Ages |->
  IF a = 0 THEN 0 ELSE IF a < Oldest THEN counts[a - 1]
  ELSE Capped(counts[Oldest - 1] + counts[Oldest])]

\* A tick of the clock; a key whose time is up is gone.
WindowTick ==
  /\ \A c \in Clients : request[c] # Idle => request[c].age < MaxDelay
  /\ request' = [c \in Clients |->
       IF request[c] = Idle THEN Idle ELSE [request[c] EXCEPT !.age = @ + 1]]
  /\ ttl' = IF ttl = 0 THEN 0 ELSE ttl - 1
  /\ entries' = IF ttl <= 1 THEN Empty ELSE Shift(entries)
  /\ regular' = Shift(regular)
  /\ newest' = IF ttl = 1 THEN 0 ELSE Older(newest)
  /\ lastSeen' = Older(lastSeen)
  /\ UNCHANGED <<limiter, outcome>>

WindowNext ==
  \/ \E c \in Clients : \/ Ask(c) \/ LimiterScript(c) \/ FailOpen(c)
                        \/ PipelinePrune(c) \/ PipelineAdd(c) \/ PipelineCount(c)
  \/ Reset \/ WindowTick

\* Clients keep asking, requests are served, and time passes; Redis need not fail.
WindowFairness ==
  /\ WF_windowVars(WindowTick)
  /\ \A c \in Clients : WF_windowVars(Ask(c)) /\ WF_windowVars(LimiterScript(c))

WindowSpec == WindowInit /\ [][WindowNext]_windowVars /\ WindowFairness

(***************************************************************************)
(* Properties                                                              *)
(***************************************************************************)

\* In every window of the stamps at most Limit requests are admitted, not
\* counting those that reached Redis after members were removed for a later
\* time, nor those that shared a member (ratelimit.go:107-118 of the gateway,
\* ratelimit.go:47-74 of the cache).
AdmittedWithinLimit ==
  \A a \in 0..MaxDelay : SumFunctionOnSet(regular, a..(a + Window - 1)) <= Limit

\* A request that nobody shares the key with, a whole window after the latest
\* answer, is not refused, in either limiter and whatever was recorded before:
\* no stamp outlives its window.
PatientIsAdmitted == ~(outcome.answer = "refused" /\ outcome.alone)

\* The gateway does not record what it refuses, so while clients keep asking,
\* however often, requests are let through again and again.
GatewayKeepsServing ==
  limiter = "gateway" => []<>(outcome.answer \in {"admitted", "open"})

\* A sliding window admits its limit and no more, never refuses a client that waited
\* for a whole window, and the gateway's keeps admitting (ratelimit.go of the gateway
\* and of the cache).
LimitersServe == [](AdmittedWithinLimit /\ PatientIsAdmitted) /\ GatewayKeepsServing
=============================================================================
