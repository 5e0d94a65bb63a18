------------------------------ MODULE Webhooks ------------------------------
(***************************************************************************)
(* Webhook delivery of services/webhooks for one organisation and one      *)
(* event type: fan-out of an event to the subscriptions, a goroutine per   *)
(* attempt, and the poller that retries due rows (internal/delivery,       *)
(* internal/store, internal/handler).                                      *)
(*                                                                         *)
(* Every SQL statement is atomic and there are no transactions.  An        *)
(* attempt works on the copy of the row it was started with; an attempt    *)
(* whose process stops, or whose final UPDATE fails, ends unrecorded.      *)
(* The HTTP deadline (10 s) is shorter than any backoff (30 s), so a       *)
(* backoff elapses only after the attempts under way have ended; a copy    *)
(* the poller holds may still be older.                                    *)
(*                                                                         *)
(* Abstracted: payloads, signatures, response codes, URLs, secrets and the *)
(* length of a backoff.                                                    *)
(***************************************************************************)
EXTENDS Naturals, FiniteSets, Sequences

CONSTANTS Subs,         \* the organisation's subscriptions
          MaxRows,      \* bound on the delivery rows
          Slots,        \* bound on the attempts in flight at once
          BatchSize,    \* retryBatchSize
          MaxLosses     \* bound on crashes and failed statements

ASSUME BoundsAssumption == /\ MaxRows \in Nat \ {0}
                           /\ BatchSize \in Nat \ {0}
                           /\ MaxLosses \in Nat

VARIABLES active,    \* active[u]: subscription u has is_active set
          rows,      \* webhook_deliveries, in the order of created_at
          attempt,   \* attempt[s]: the attempt in slot s, or Free
          dispatch,  \* the POST /dispatch being served, or NoDispatch
          batch,     \* the copies of rows the poller has read and still to start
          posts,     \* posts[r]: POSTs made for row r, counted up to MaxAttempts
          losses

vars == <<active, rows, attempt, dispatch, batch, posts, losses>>

RowIds        == 1..MaxRows
MaxAttempts   == 3

\* due: next_retry_at is NULL or past.
Row(u) == [sub |-> u, status |-> "pending", attempt_count |-> 0, due |-> TRUE]

Delivery == [sub : Subs, status : {"pending", "delivered", "failed"},
             attempt_count : 0..MaxAttempts, due : BOOLEAN]

AttemptOf(ids) == [phase : {"posting", "ok", "failed"}, row : ids, count : 0..MaxAttempts]

Free       == [phase |-> "free"]
NoDispatch == [phase |-> "none"]

Init == /\ active \in [Subs -> BOOLEAN]
        /\ rows = <<>>
        /\ attempt = [s \in Slots |-> Free]
        /\ dispatch = NoDispatch
        /\ batch = {}
        /\ posts = [r \in RowIds |-> 0]
        /\ losses = 0

(***************************************************************************)
(* internal/handler and internal/store: subscriptions                      *)
(***************************************************************************)

\* POST, PUT is_active and DELETE (a soft delete) of a subscription.
SetActive(u, value) ==
  /\ active[u] # value
  /\ active' = [active EXCEPT ![u] = value]
  /\ UNCHANGED <<rows, attempt, dispatch, batch, posts, losses>>

(***************************************************************************)
(* internal/delivery: Dispatch                                             *)
(***************************************************************************)

\* ActiveSubscriptionsForEvent.
DispatchStart ==
  /\ dispatch = NoDispatch
  /\ dispatch' = [phase |-> "fan_out", todo |-> {u \in Subs : active[u]}]
  /\ UNCHANGED <<active, rows, attempt, batch, posts, losses>>

\* The attempt of row r in slot s, on a copy of its attempt_count.
Attempt(s, r, count) ==
  /\ attempt[s] = Free
  /\ attempt' = [attempt EXCEPT ![s] = [phase |-> "posting", row |-> r, count |-> count]]

\* CreateDelivery, then go w.attempt.
CreateDelivery(u, s) ==
  /\ dispatch # NoDispatch /\ u \in dispatch.todo
  /\ Len(rows) < MaxRows
  /\ rows' = Append(rows, Row(u))
  /\ Attempt(s, Len(rows) + 1, 0)
  /\ dispatch' = [dispatch EXCEPT !.todo = @ \ {u}]
  /\ UNCHANGED <<active, batch, posts, losses>>

\* CreateDelivery fails: it is logged and the loop continues.
CreateDeliveryFails(u) ==
  /\ dispatch # NoDispatch /\ u \in dispatch.todo
  /\ losses < MaxLosses
  /\ losses' = losses + 1
  /\ dispatch' = [dispatch EXCEPT !.todo = @ \ {u}]
  /\ UNCHANGED <<active, rows, attempt, batch, posts>>

\* 202 "dispatched".
DispatchAnswer ==
  /\ dispatch # NoDispatch /\ dispatch.todo = {}
  /\ dispatch' = NoDispatch
  /\ UNCHANGED <<active, rows, attempt, batch, posts, losses>>

(***************************************************************************)
(* internal/delivery: attempt                                              *)
(***************************************************************************)

\* The POST returns: 2xx, or anything else.
Post(s, answer) ==
  /\ attempt[s].phase = "posting"
  /\ attempt' = [attempt EXCEPT ![s].phase = answer]
  /\ posts' = [posts EXCEPT ![attempt[s].row] = IF @ < MaxAttempts THEN @ + 1 ELSE @]
  /\ UNCHANGED <<active, rows, dispatch, batch, losses>>

EndAttempt(s) == attempt' = [attempt EXCEPT ![s] = Free]

\* MarkDelivered: WHERE id = $1, whatever the status has become.
MarkDelivered(s) ==
  /\ attempt[s].phase = "ok"
  /\ rows' = [rows EXCEPT ![attempt[s].row].status = "delivered"]
  /\ EndAttempt(s)
  /\ UNCHANGED <<active, dispatch, batch, posts, losses>>

\* Mutant: the attempt is counted before it is made and again after.
FailedRow_CountedTwice(row, count) ==
  LET n == count + 2
  IN  [row EXCEPT !.attempt_count = n,
                  !.status = IF n < MaxAttempts THEN "pending" ELSE "failed",
                  !.due = n >= MaxAttempts]

\* Mutant: a row below MaxAttempts is dead-lettered one attempt late.
FailedRow_OneMore(row, count) ==
  LET n == count + 1
  IN  [row EXCEPT !.attempt_count = n,
                  !.status = IF n <= MaxAttempts THEN "pending" ELSE "failed",
                  !.due = FALSE]

\* The row after RecordAttemptFailure with AttemptCount + 1.
FailedRow(row, count) ==
  LET n == count + 1
  IN  [row EXCEPT !.attempt_count = n,
                  !.status = IF n < MaxAttempts THEN "pending" ELSE "failed",
                  !.due = n >= MaxAttempts]

\* recordFailure: WHERE id = $1 as well.
RecordFailure(s) ==
  /\ attempt[s].phase = "failed"
  /\ rows' = [rows EXCEPT ![attempt[s].row] = FailedRow(@, attempt[s].count)]
  /\ EndAttempt(s)
  /\ UNCHANGED <<active, dispatch, batch, posts, losses>>

\* The attempt's last UPDATE fails, or the worker's context is cancelled.
AttemptLost(s) ==
  /\ attempt[s] # Free
  /\ losses < MaxLosses
  /\ losses' = losses + 1
  /\ EndAttempt(s)
  /\ UNCHANGED <<active, rows, dispatch, batch, posts>>

\* The process stops and is started again.
Crash ==
  /\ losses < MaxLosses
  /\ losses' = losses + 1
  /\ attempt' = [s \in Slots |-> Free]
  /\ dispatch' = NoDispatch /\ batch' = {}
  /\ UNCHANGED <<active, rows, posts>>

(***************************************************************************)
(* internal/delivery: the poller                                           *)
(***************************************************************************)

BackoffElapses(r) ==
  /\ r <= Len(rows) /\ ~rows[r].due
  /\ \A s \in Slots : attempt[s] # Free => attempt[s].row # r
  /\ rows' = [rows EXCEPT ![r].due = TRUE]
  /\ UNCHANGED <<active, attempt, dispatch, batch, posts, losses>>

\* Mutant: next_retry_at <= NOW() alone, which is false of NULL.
Due_NotNull == {r \in 1..Len(rows) :
                  rows[r].status = "pending" /\ rows[r].due /\ rows[r].attempt_count > 0}

\* Mutant: the condition on the status is dropped.
Due_AnyStatus == {r \in 1..Len(rows) : rows[r].due}

Due == {r \in 1..Len(rows) : rows[r].status = "pending" /\ rows[r].due}

\* Mutant: the newest due rows come first.
PendingDeliveries_NewestFirst == {r \in Due : Cardinality({q \in Due : q > r}) < BatchSize}

\* PendingDeliveries: the oldest BatchSize due rows.  Nothing claims them.
PendingDeliveries == {r \in Due : Cardinality({q \in Due : q < r}) < BatchSize}

\* runRetryBatch reads the batch: copies of its rows.
Poll ==
  /\ batch = {} /\ PendingDeliveries # {}
  /\ batch' = {[row |-> r, count |-> rows[r].attempt_count] : r \in PendingDeliveries}
  /\ UNCHANGED <<active, rows, attempt, dispatch, posts, losses>>

\* The loop goes through the batch from its oldest row on.
TakeNext(del) == /\ del \in batch /\ \A other \in batch : del.row <= other.row
                 /\ batch' = batch \ {del}

\* The attempt is made on the copy, whatever the row is by now.
Retry(del, s) ==
  /\ TakeNext(del)
  /\ active[rows[del.row].sub]
  /\ Attempt(s, del.row, del.count)
  /\ UNCHANGED <<active, rows, dispatch, posts, losses>>

\* The row of an inactive subscription is skipped and stays as it is.
RetrySkip(del) ==
  /\ TakeNext(del)
  /\ ~active[rows[del.row].sub]
  /\ UNCHANGED <<active, rows, attempt, dispatch, posts, losses>>

\* The lookup of the subscription fails: logged, and the row is skipped.
RetryLookupFails(del) ==
  /\ TakeNext(del)
  /\ losses < MaxLosses
  /\ losses' = losses + 1
  /\ UNCHANGED <<active, rows, attempt, dispatch, posts>>

Next == \/ \E u \in Subs, value \in BOOLEAN : SetActive(u, value)
        \/ DispatchStart \/ DispatchAnswer
        \/ \E u \in Subs : CreateDeliveryFails(u) \/ \E s \in Slots : CreateDelivery(u, s)
        \/ \E s \in Slots : \/ \E answer \in {"ok", "failed"} : Post(s, answer)
                            \/ MarkDelivered(s) \/ RecordFailure(s) \/ AttemptLost(s)
        \/ \E r \in RowIds : BackoffElapses(r)
        \/ Poll
        \/ \E del \in batch : \/ RetrySkip(del) \/ RetryLookupFails(del)
                             \/ \E s \in Slots : Retry(del, s)
        \/ Crash

Spec == Init /\ [][Next]_vars

\* POSTs time out, goroutines run, the ticker fires and time passes.  A step of
\* the batch is strongly fair because a free slot is a bound of the model, not
\* of the code, and because is_active may change between its two cases.
Fairness ==
  /\ \A s \in Slots : /\ WF_vars(\E answer \in {"ok", "failed"} : Post(s, answer))
                      /\ WF_vars(MarkDelivered(s) \/ RecordFailure(s))
  /\ \A r \in RowIds : WF_vars(BackoffElapses(r))
  /\ WF_vars(Poll)
  /\ SF_vars(\E del \in batch : RetrySkip(del) \/ \E s \in Slots : Retry(del, s))

LiveSpec == Spec /\ Fairness

(***************************************************************************)
(* Properties                                                              *)
(***************************************************************************)

\* An attempt of the row is under way, or the poller holds a copy of it.
Outstanding(r) == \/ \E s \in Slots : attempt[s] # Free /\ attempt[s].row = r
                  \/ \E del \in batch : del.row = r

Settled(r) == rows[r].status \in {"delivered", "failed"}

\* Rows, attempts in flight, the dispatch and the batch keep their types.
TypeOK ==
  /\ active \in [Subs -> BOOLEAN]
  /\ rows \in Seq(Delivery) /\ Len(rows) <= MaxRows
  /\ \A s \in Slots : attempt[s] = Free \/ attempt[s] \in AttemptOf(1..Len(rows))
  /\ dispatch = NoDispatch \/ dispatch \in [phase : {"fan_out"}, todo : SUBSET Subs]
  /\ batch \subseteq [row : 1..Len(rows), count : 0..MaxAttempts]
  /\ posts \in [RowIds -> 0..MaxAttempts] /\ losses \in 0..MaxLosses

\* A row is dead-lettered only after MaxAttempts POSTs were made for it, also
\* when attempts overlap on stale counts, are lost or are repeated after a
\* crash (RecordAttemptFailure, store.go:310-343).
NotGivenUpEarly ==
  \A r \in 1..Len(rows) : rows[r].status = "failed" => posts[r] >= MaxAttempts

\* Older due rows of inactive subscriptions fill the batch: they are skipped, stay due
\* and are read again at every poll, and the row is never among them.
Starved(r) ==
  Cardinality({q \in Due : q < r /\ ~active[rows[q].sub]}) >= BatchSize

\* A delivery settles, it is delivered or dead-lettered, across lost attempts and
\* crashes, unless time and again its subscription is inactive or the oldest due rows
\* of inactive ones keep it out of the batch (delivery.go:40 and 192-257).
Settles == \A r \in RowIds :
  (r <= Len(rows) /\ ~Settled(r))
    ~> (r <= Len(rows) /\ (Settled(r) \/ ~active[rows[r].sub] \/ Starved(r)))

\* Once a row is settled, no attempt of it is under way and the poller holds no
\* copy of it, it stays so and is never sent again.  An attempt or a copy that is
\* still out may set a delivered row back to pending: RecordAttemptFailure has no
\* condition on the status (store.go:327-337).
SettledIsFinal ==
  [][\A r \in 1..Len(rows) : Settled(r) /\ ~Outstanding(r)
                               => Settled(r)' /\ ~Outstanding(r)']_vars

\* Every delivery that is not starved comes to an end, and no overlapping attempt
\* undoes it
\* (delivery.go:75-136, store.go:324-372).
SettlesForGood == Settles /\ SettledIsFinal
=============================================================================
