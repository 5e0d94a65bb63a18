-------------------------- MODULE SubscribersProofs -------------------------
(***************************************************************************)
(* The services that pass changes on: webhook delivery and the search      *)
(* index, each under its own specification.                                *)
(***************************************************************************)
EXTENDS Webhooks, SearchSync, SequenceTheorems, TLAPS

(***************************************************************************)
(* Webhooks.  No delivery is dead-lettered early, however many attempts    *)
(* overlap.  A row, an attempt and a copy the poller holds each carry a    *)
(* count, and none of them ever exceeds the POSTs made for the row: a copy *)
(* inherits the count of its row, and an attempt adds one only after its   *)
(* own POST.                                                               *)
(***************************************************************************)

\* What the count of a row says of its status.
RowsAreCounted ==
  \A r \in 1..Len(rows) :
    /\ rows[r].attempt_count <= posts[r]
    /\ rows[r].status = "pending" => rows[r].attempt_count < MaxAttempts
    /\ rows[r].status = "failed"  => posts[r] >= MaxAttempts

\* An attempt was started below the maximum, and after its POST there is one more.
AttemptsAreCounted ==
  \A s \in Slots : attempt[s] # Free =>
    /\ attempt[s].count < MaxAttempts
    /\ attempt[s].count <= posts[attempt[s].row]
    /\ attempt[s].phase # "posting" => attempt[s].count + 1 <= posts[attempt[s].row]

CopiesAreCounted ==
  \A del \in batch : del.count < MaxAttempts /\ del.count <= posts[del.row]

SlotsExist == DOMAIN attempt = Slots /\ attempt = [s \in Slots |-> attempt[s]]

DeliveryInv == /\ TypeOK /\ SlotsExist
               /\ RowsAreCounted /\ AttemptsAreCounted /\ CopiesAreCounted

USE BoundsAssumption DEF MaxAttempts

\* A row stands among the row ids.
LEMMA RowsWithinBound ==
  ASSUME TypeOK
  PROVE  Len(rows) \in Nat /\ 1..Len(rows) \subseteq RowIds
BY DEF TypeOK, RowIds

\* An attempt is not Free once its phase says so.
LEMMA AttemptKind ==
  ASSUME TypeOK, NEW s \in Slots, attempt[s].phase \in {"posting", "ok", "failed"}
  PROVE  attempt[s] # Free /\ attempt[s] \in AttemptOf(1..Len(rows))
BY DEF TypeOK, Free

LEMMA InitInv == Init => DeliveryInv
<1> SUFFICES ASSUME Init PROVE DeliveryInv
  OBVIOUS
<1>1. /\ active \in [Subs -> BOOLEAN] /\ rows = <<>> /\ Len(rows) = 0
      /\ attempt = [s \in Slots |-> Free] /\ dispatch = NoDispatch /\ batch = {}
      /\ posts = [r \in RowIds |-> 0] /\ losses = 0
  BY DEF Init
<1>2. TypeOK
  BY <1>1 DEF TypeOK
<1>3. SlotsExist /\ AttemptsAreCounted
  BY <1>1 DEF SlotsExist, AttemptsAreCounted
<1>4. RowsAreCounted /\ CopiesAreCounted
  BY <1>1 DEF RowsAreCounted, CopiesAreCounted
<1> QED  BY <1>2, <1>3, <1>4 DEF DeliveryInv

\* Steps that touch neither rows, attempts, copies nor POSTs.
LEMMA QuietInv ==
  ASSUME DeliveryInv, UNCHANGED <<rows, attempt, batch, posts>>,
         active' \in [Subs -> BOOLEAN], losses' \in 0..MaxLosses,
         dispatch' = NoDispatch \/ dispatch' \in [phase : {"fan_out"}, todo : SUBSET Subs]
  PROVE  DeliveryInv'
BY DEF DeliveryInv, TypeOK, SlotsExist, RowsAreCounted, AttemptsAreCounted, CopiesAreCounted

\* Attempts and copies that end.
LEMMA FewerInv ==
  ASSUME DeliveryInv, UNCHANGED <<active, rows, posts>>, losses' \in 0..MaxLosses,
         dispatch' \in {dispatch, NoDispatch}, batch' \subseteq batch,
         SlotsExist', \A s \in Slots : attempt'[s] \in {attempt[s], Free}
  PROVE  DeliveryInv'
<1>1. TypeOK'
  BY DEF DeliveryInv, TypeOK
<1>2. AttemptsAreCounted'
  BY DEF DeliveryInv, AttemptsAreCounted
<1>3. RowsAreCounted' /\ CopiesAreCounted'
  BY DEF DeliveryInv, RowsAreCounted, CopiesAreCounted
<1> QED  BY <1>1, <1>2, <1>3 DEF DeliveryInv

\* An attempt that starts on a count no greater than the POSTs of its row.
LEMMA StartInv ==
  ASSUME DeliveryInv, NEW s \in Slots, NEW r \in 1..Len(rows)', NEW count \in 0..MaxAttempts-1,
         Attempt(s, r, count), count <= posts[r], r \in RowIds,
         UNCHANGED <<active, posts, losses>>,
         TypeOK => /\ rows' \in Seq(Delivery) /\ Len(rows)' <= MaxRows
                   /\ Len(rows) <= Len(rows)',
         RowsAreCounted',
         batch' \subseteq batch,
         dispatch' = NoDispatch \/ dispatch' \in [phase : {"fan_out"}, todo : SUBSET Subs]
  PROVE  DeliveryInv'
<1> DEFINE new == [phase |-> "posting", row |-> r, count |-> count]
<1>1. TypeOK /\ SlotsExist /\ AttemptsAreCounted /\ CopiesAreCounted
  BY DEF DeliveryInv
<1>2. attempt' = [attempt EXCEPT ![s] = new]
  BY DEF Attempt
<1>3. /\ attempt'[s] = new
      /\ \A t \in Slots \ {s} : attempt'[t] = attempt[t]
      /\ SlotsExist'
  BY <1>1, <1>2 DEF SlotsExist
<1>4. Len(rows) \in Nat /\ Len(rows)' \in Nat
  BY <1>1 DEF TypeOK
<1>5. new \in AttemptOf(1..Len(rows)')
  BY DEF AttemptOf
<1>6. \A t \in Slots : attempt'[t] = Free \/ attempt'[t] \in AttemptOf(1..Len(rows)')
  BY <1>1, <1>3, <1>4, <1>5 DEF TypeOK, AttemptOf
<1>7. batch' \subseteq [row : 1..Len(rows)', count : 0..MaxAttempts]
  BY <1>1, <1>4 DEF TypeOK
<1>8. TypeOK'
  BY <1>1, <1>6, <1>7 DEF TypeOK
<1>9. AttemptsAreCounted'
  BY <1>1, <1>3 DEF AttemptsAreCounted
<1>10. CopiesAreCounted'
  BY <1>1 DEF CopiesAreCounted
<1> QED  BY <1>3, <1>8, <1>9, <1>10 DEF DeliveryInv

LEMMA CreateDeliveryInv ==
  ASSUME DeliveryInv, NEW u \in Subs, NEW s \in Slots, CreateDelivery(u, s)
  PROVE  DeliveryInv'
<1> DEFINE r == Len(rows) + 1
<1>1. /\ TypeOK /\ RowsAreCounted /\ Len(rows) \in Nat /\ r \in RowIds /\ r <= MaxRows
      /\ rows \in Seq(Delivery)
  BY RowsWithinBound DEF DeliveryInv, TypeOK, CreateDelivery, RowIds
<1>2. /\ rows' = Append(rows, Row(u)) /\ Attempt(s, r, 0)
      /\ dispatch # NoDispatch /\ dispatch' = [dispatch EXCEPT !.todo = @ \ {u}]
      /\ UNCHANGED <<active, batch, posts, losses>>
  BY DEF CreateDelivery
<1>3. Row(u) \in Delivery
  BY DEF Row, Delivery
<1>4. /\ rows' \in Seq(Delivery) /\ Len(rows)' = r /\ rows'[r] = Row(u)
      /\ \A q \in 1..Len(rows) : rows'[q] = rows[q]
  BY <1>1, <1>2, <1>3
<1>5. RowsAreCounted'
  <2> SUFFICES ASSUME NEW q \in 1..r
               PROVE  /\ rows'[q].attempt_count <= posts[q]
                      /\ rows'[q].status = "pending" => rows'[q].attempt_count < MaxAttempts
                      /\ rows'[q].status = "failed"  => posts[q] >= MaxAttempts
    BY <1>2, <1>4 DEF RowsAreCounted
  <2>1. CASE q = r
    BY <2>1, <1>1, <1>4 DEF Row, TypeOK
  <2>2. CASE q # r
    BY <2>2, <1>1, <1>4 DEF RowsAreCounted
  <2> QED  BY <2>1, <2>2
<1>6. posts[r] >= 0
  BY <1>1 DEF TypeOK
<1>7. dispatch' \in [phase : {"fan_out"}, todo : SUBSET Subs]
  BY <1>1, <1>2 DEF TypeOK
<1> QED  BY <1>1, <1>2, <1>4, <1>5, <1>6, <1>7, StartInv, SMTT(30)

\* Retry starts the attempt on a copy the poller holds.
LEMMA RetryInv ==
  ASSUME DeliveryInv, NEW del \in batch, NEW s \in Slots, Retry(del, s)
  PROVE  DeliveryInv'
<1>1. /\ batch' = batch \ {del} /\ Attempt(s, del.row, del.count)
      /\ UNCHANGED <<active, rows, dispatch, posts, losses>>
  BY DEF Retry, TakeNext
<1>2. /\ TypeOK /\ RowsAreCounted /\ CopiesAreCounted
      /\ Len(rows) \in Nat /\ 1..Len(rows) \subseteq RowIds
  BY RowsWithinBound DEF DeliveryInv
<1>3. del.row \in 1..Len(rows) /\ del.count \in 0..MaxAttempts
  BY <1>2 DEF TypeOK
<1>4. del.count \in 0..MaxAttempts-1 /\ del.count <= posts[del.row]
  BY <1>2, <1>3 DEF CopiesAreCounted
<1>5. RowsAreCounted'
  BY <1>1, <1>2 DEF RowsAreCounted
<1>6. dispatch' = NoDispatch \/ dispatch' \in [phase : {"fan_out"}, todo : SUBSET Subs]
  BY <1>1, <1>2 DEF TypeOK
<1>7. rows \in Seq(Delivery) /\ Len(rows) <= MaxRows
  BY <1>2 DEF TypeOK
<1> QED  BY <1>1, <1>2, <1>3, <1>4, <1>5, <1>6, <1>7, StartInv

\* A POST raises the count of POSTs of its row, up to MaxAttempts.
LEMMA PostInv ==
  ASSUME DeliveryInv, NEW s \in Slots, NEW answer \in {"ok", "failed"}, Post(s, answer)
  PROVE  DeliveryInv'
<1> DEFINE att == attempt[s]
           r   == att.row
<1>1. /\ TypeOK /\ SlotsExist /\ RowsAreCounted /\ AttemptsAreCounted /\ CopiesAreCounted
      /\ Len(rows) \in Nat /\ 1..Len(rows) \subseteq RowIds
  BY RowsWithinBound DEF DeliveryInv
<1>2. /\ att.phase = "posting"
      /\ attempt' = [attempt EXCEPT ![s].phase = answer]
      /\ posts' = [posts EXCEPT ![r] = IF @ < MaxAttempts THEN @ + 1 ELSE @]
      /\ UNCHANGED <<active, rows, dispatch, batch, losses>>
  BY DEF Post
<1>3. att # Free /\ att \in AttemptOf(1..Len(rows)) /\ r \in RowIds
  BY <1>1, <1>2, AttemptKind DEF AttemptOf
<1>4. /\ attempt'[s] = [att EXCEPT !.phase = answer]
      /\ \A t \in Slots \ {s} : attempt'[t] = attempt[t]
      /\ SlotsExist'
  BY <1>1, <1>2 DEF SlotsExist
<1>5. attempt'[s] = [phase |-> answer, row |-> r, count |-> att.count]
  BY <1>3, <1>4 DEF AttemptOf
<1>6. /\ posts' \in [RowIds -> 0..MaxAttempts]
      /\ \A q \in RowIds : posts[q] <= posts'[q]
      /\ att.count < MaxAttempts /\ att.count <= posts[r] => att.count + 1 <= posts'[r]
  <2>1. /\ posts \in [RowIds -> 0..MaxAttempts] /\ att.count \in Nat /\ r \in RowIds
        /\ posts[r] \in 0..MaxAttempts
    BY <1>1, <1>3 DEF TypeOK, AttemptOf
  <2> HIDE DEF att, r
  <2>2. /\ posts'[r] = (IF posts[r] < MaxAttempts THEN posts[r] + 1 ELSE posts[r])
        /\ \A q \in RowIds \ {r} : posts'[q] = posts[q]
    BY <1>2, <2>1
  <2>3. posts' \in [RowIds -> 0..MaxAttempts]
    BY <1>2, <2>1
  <2>4. \A q \in RowIds : posts[q] <= posts'[q]
    BY <2>1, <2>2
  <2>5. att.count < MaxAttempts /\ att.count <= posts[r] => att.count + 1 <= posts'[r]
    BY <2>1, <2>2
  <2> QED  BY <2>3, <2>4, <2>5
<1>7. TypeOK'
  <2>1. attempt'[s] \in AttemptOf(1..Len(rows))
    BY <1>3, <1>5 DEF AttemptOf
  <2> QED  BY <2>1, <1>1, <1>2, <1>4, <1>6 DEF TypeOK
<1>8. RowsAreCounted'
  <2> SUFFICES ASSUME NEW q \in 1..Len(rows)
               PROVE  /\ rows[q].attempt_count <= posts'[q]
                      /\ rows[q].status = "pending" => rows[q].attempt_count < MaxAttempts
                      /\ rows[q].status = "failed"  => posts'[q] >= MaxAttempts
    BY <1>2 DEF RowsAreCounted
  <2> HIDE DEF att, r
  <2>1. rows[q] \in Delivery /\ q \in RowIds
    BY <1>1 DEF TypeOK
  <2>2. rows[q].attempt_count \in Nat /\ posts[q] \in Nat /\ posts'[q] \in Nat
    BY <1>1, <1>6, <2>1 DEF TypeOK, Delivery
  <2>3. posts[q] <= posts'[q]
    BY <1>6, <2>1
  <2> QED  BY <2>2, <2>3, <1>1 DEF RowsAreCounted
<1>9. AttemptsAreCounted'
  <2> SUFFICES ASSUME NEW t \in Slots, attempt'[t] # Free
               PROVE  /\ attempt'[t].count < MaxAttempts
                      /\ attempt'[t].count <= posts'[attempt'[t].row]
                      /\ attempt'[t].phase # "posting" =>
                           attempt'[t].count + 1 <= posts'[attempt'[t].row]
    BY DEF AttemptsAreCounted
  <2>1. CASE t = s
    <3>1. att.count < MaxAttempts /\ att.count <= posts[r] /\ att.count \in Nat
      BY <1>1, <1>3 DEF AttemptsAreCounted, AttemptOf
    <3> QED  BY <2>1, <3>1, <1>3, <1>5, <1>6
  <2>2. CASE t # s
    <3> HIDE DEF att, r
    <3>1. attempt'[t] = attempt[t] /\ attempt[t] \in AttemptOf(1..Len(rows))
      BY <2>2, <1>1, <1>4 DEF TypeOK
    <3>2. /\ attempt[t].row \in RowIds /\ attempt[t].count \in Nat
      BY <3>1, <1>1 DEF AttemptOf
    <3>3. /\ posts[attempt[t].row] \in Nat /\ posts'[attempt[t].row] \in Nat
          /\ posts[attempt[t].row] <= posts'[attempt[t].row]
      <4>1. \A q \in RowIds : posts[q] \in Nat /\ posts'[q] \in Nat /\ posts[q] <= posts'[q]
        BY <1>1, <1>6 DEF TypeOK
      <4> QED  BY <4>1, <3>2
    <3>4. /\ attempt[t].count < MaxAttempts
          /\ attempt[t].count <= posts[attempt[t].row]
          /\ attempt[t].phase # "posting" => attempt[t].count + 1 <= posts[attempt[t].row]
      BY <3>1, <1>1 DEF AttemptsAreCounted
    <3> QED  BY <3>1, <3>2, <3>3, <3>4
  <2> QED  BY <2>1, <2>2
<1>10. CopiesAreCounted'
  <2> SUFFICES ASSUME NEW del \in batch
               PROVE  del.count < MaxAttempts /\ del.count <= posts'[del.row]
    BY <1>2 DEF CopiesAreCounted
  <2>1. /\ del.row \in RowIds /\ del.count \in Nat
        /\ posts[del.row] \in Nat /\ posts'[del.row] \in Nat
    BY <1>1, <1>6 DEF TypeOK
  <2> QED  BY <2>1, <1>1, <1>6 DEF CopiesAreCounted
<1> QED  BY <1>4, <1>7, <1>8, <1>9, <1>10 DEF DeliveryInv

\* A row that is written by the attempt that ends.
LEMMA RecordInv ==
  ASSUME DeliveryInv, NEW s \in Slots, NEW r \in 1..Len(rows), NEW new \in Delivery,
         rows' = [rows EXCEPT ![r] = new], EndAttempt(s),
         UNCHANGED <<active, dispatch, batch, posts, losses>>,
         new.attempt_count <= posts[r],
         new.status = "pending" => new.attempt_count < MaxAttempts,
         new.status = "failed" => posts[r] >= MaxAttempts
  PROVE  DeliveryInv'
<1>1. /\ TypeOK /\ SlotsExist /\ RowsAreCounted /\ AttemptsAreCounted /\ CopiesAreCounted
      /\ rows \in Seq(Delivery)
  BY DEF DeliveryInv, TypeOK
<1>2. /\ rows' \in Seq(Delivery) /\ Len(rows)' = Len(rows) /\ rows'[r] = new
      /\ \A q \in (1..Len(rows)) \ {r} : rows'[q] = rows[q]
  BY <1>1
<1>3. /\ attempt'[s] = Free
      /\ \A t \in Slots \ {s} : attempt'[t] = attempt[t]
      /\ SlotsExist'
  BY <1>1 DEF SlotsExist, EndAttempt
<1>4. TypeOK'
  BY <1>1, <1>2, <1>3 DEF TypeOK
<1>5. RowsAreCounted'
  BY <1>1, <1>2 DEF RowsAreCounted
<1>6. AttemptsAreCounted' /\ CopiesAreCounted'
  BY <1>1, <1>3 DEF AttemptsAreCounted, CopiesAreCounted
<1> QED  BY <1>3, <1>4, <1>5, <1>6 DEF DeliveryInv

LEMMA MarkDeliveredInv ==
  ASSUME DeliveryInv, NEW s \in Slots, MarkDelivered(s)
  PROVE  DeliveryInv'
<1> DEFINE r   == attempt[s].row
           new == [rows[r] EXCEPT !.status = "delivered"]
<1>1. /\ attempt[s].phase = "ok"
      /\ rows' = [rows EXCEPT ![r].status = "delivered"]
      /\ EndAttempt(s) /\ UNCHANGED <<active, dispatch, batch, posts, losses>>
  BY DEF MarkDelivered
<1>2. r \in 1..Len(rows)
  BY <1>1, AttemptKind DEF AttemptOf, DeliveryInv
<1>3. rows[r] \in Delivery /\ rows[r].attempt_count <= posts[r]
  BY <1>2 DEF DeliveryInv, TypeOK, RowsAreCounted
<1>4. /\ new \in Delivery /\ new.status = "delivered"
      /\ new.attempt_count = rows[r].attempt_count
  BY <1>3 DEF Delivery
<1>5. rows' = [rows EXCEPT ![r] = new]
  BY <1>1
<1> HIDE DEF r, new
<1> QED  BY <1>1, <1>2, <1>3, <1>4, <1>5, RecordInv

\* The count that is recorded is that of the attempt and one for its own POST.
LEMMA RecordFailureInv ==
  ASSUME DeliveryInv, NEW s \in Slots, RecordFailure(s)
  PROVE  DeliveryInv'
<1> DEFINE r     == attempt[s].row
           count == attempt[s].count
           new   == FailedRow(rows[r], count)
<1>1. /\ attempt[s].phase = "failed"
      /\ rows' = [rows EXCEPT ![r] = new]
      /\ EndAttempt(s) /\ UNCHANGED <<active, dispatch, batch, posts, losses>>
  BY DEF RecordFailure
<1>2. /\ attempt[s] # Free /\ r \in 1..Len(rows) /\ count \in 0..MaxAttempts
  BY <1>1, AttemptKind DEF AttemptOf, DeliveryInv
<1>3. count < MaxAttempts /\ count + 1 <= posts[r]
  BY <1>1, <1>2 DEF DeliveryInv, AttemptsAreCounted
<1>4. rows[r] \in Delivery
  BY <1>2 DEF DeliveryInv, TypeOK
<1>5. /\ new \in Delivery /\ new.attempt_count = count + 1
      /\ new.status = (IF count + 1 < MaxAttempts THEN "pending" ELSE "failed")
  <2> DEFINE old == rows[r]
             n   == count + 1
  <2>1. old \in Delivery /\ count \in 0..MaxAttempts /\ count < MaxAttempts
    BY <1>2, <1>3, <1>4
  <2>2. new = [old EXCEPT !.attempt_count = n,
                          !.status = IF n < MaxAttempts THEN "pending" ELSE "failed",
                          !.due = n >= MaxAttempts]
    BY DEF FailedRow
  <2> HIDE DEF r, count, new, old
  <2>3. n \in 0..MaxAttempts
    BY <2>1
  <2>4. new = [sub |-> old.sub, status |-> IF n < MaxAttempts THEN "pending" ELSE "failed",
               attempt_count |-> n, due |-> n >= MaxAttempts]
    BY <2>1, <2>2 DEF Delivery
  <2> QED  BY <2>1, <2>3, <2>4 DEF Delivery
<1>6. posts[r] \in Nat
  BY <1>2, RowsWithinBound DEF DeliveryInv, TypeOK
<1> HIDE DEF r, count, new
<1>7. new.status = "failed" => posts[r] >= MaxAttempts
  BY <1>2, <1>3, <1>5, <1>6
<1> QED  BY <1>1, <1>2, <1>3, <1>5, <1>7, RecordInv

LEMMA BackoffInv ==
  ASSUME DeliveryInv, NEW r \in RowIds, BackoffElapses(r)
  PROVE  DeliveryInv'
<1> DEFINE new == [rows[r] EXCEPT !.due = TRUE]
<1>1. /\ r <= Len(rows) /\ rows' = [rows EXCEPT ![r].due = TRUE]
      /\ UNCHANGED <<active, attempt, dispatch, batch, posts, losses>>
  BY DEF BackoffElapses
<1>2. /\ TypeOK /\ RowsAreCounted /\ rows \in Seq(Delivery) /\ r \in 1..Len(rows)
  BY <1>1 DEF DeliveryInv, TypeOK, RowIds
<1>3. /\ rows' \in Seq(Delivery) /\ Len(rows)' = Len(rows)
      /\ \A q \in 1..Len(rows) : /\ rows'[q].status = rows[q].status
                                 /\ rows'[q].attempt_count = rows[q].attempt_count
  <2>1. rows[r] \in Delivery
    BY <1>2
  <2>2. /\ new \in Delivery /\ new.status = rows[r].status
        /\ new.attempt_count = rows[r].attempt_count
    BY <2>1 DEF Delivery
  <2>3. rows' = [rows EXCEPT ![r] = new]
    BY <1>1
  <2> HIDE DEF new
  <2> QED  BY <2>2, <2>3, <1>2
<1>4. TypeOK'
  BY <1>1, <1>2, <1>3 DEF TypeOK
<1>5. RowsAreCounted'
  BY <1>1, <1>2, <1>3 DEF RowsAreCounted
<1> QED  BY <1>1, <1>4, <1>5 DEF DeliveryInv, SlotsExist, AttemptsAreCounted, CopiesAreCounted

\* The poller copies rows that are pending, so below the maximum.
LEMMA PollInv ==
  ASSUME DeliveryInv, Poll
  PROVE  DeliveryInv'
<1>1. /\ batch' = {[row |-> r, count |-> rows[r].attempt_count] : r \in PendingDeliveries}
      /\ UNCHANGED <<active, rows, attempt, dispatch, posts, losses>>
  BY DEF Poll
<1>2. TypeOK /\ RowsAreCounted /\ rows \in Seq(Delivery)
  BY DEF DeliveryInv, TypeOK
<1>3. \A r \in PendingDeliveries : r \in 1..Len(rows) /\ rows[r].status = "pending"
  BY DEF PendingDeliveries, Due
<1>4. \A r \in PendingDeliveries : /\ rows[r].attempt_count \in 0..MaxAttempts
                                   /\ rows[r].attempt_count < MaxAttempts
                                   /\ rows[r].attempt_count <= posts[r]
  <2> SUFFICES ASSUME NEW r \in PendingDeliveries
               PROVE  /\ rows[r].attempt_count \in 0..MaxAttempts
                      /\ rows[r].attempt_count < MaxAttempts
                      /\ rows[r].attempt_count <= posts[r]
    OBVIOUS
  <2>1. r \in 1..Len(rows) /\ rows[r].status = "pending"
    BY <1>3
  <2>2. rows[r] \in Delivery
    BY <1>2, <2>1
  <2>3. rows[r].attempt_count \in 0..MaxAttempts
    BY <2>2 DEF Delivery
  <2> QED  BY <1>2, <2>1, <2>3 DEF RowsAreCounted
<1>5. TypeOK'
  BY <1>1, <1>2, <1>3, <1>4 DEF TypeOK
<1>6. CopiesAreCounted'
  BY <1>1, <1>4 DEF CopiesAreCounted
<1> QED  BY <1>1, <1>5, <1>6 DEF DeliveryInv, SlotsExist, RowsAreCounted, AttemptsAreCounted

LEMMA DispatchInv ==
  ASSUME DeliveryInv, DispatchStart \/ DispatchAnswer \/ \E u \in Subs : CreateDeliveryFails(u)
  PROVE  DeliveryInv'
<1>1. TypeOK
  BY DEF DeliveryInv
<1>2. CASE DispatchStart \/ DispatchAnswer
  BY <1>1, <1>2, QuietInv DEF DispatchStart, DispatchAnswer, TypeOK
<1>3. CASE \E u \in Subs : CreateDeliveryFails(u)
  <2>1. PICK u \in Subs : CreateDeliveryFails(u)
    BY <1>3
  <2>2. dispatch' \in [phase : {"fan_out"}, todo : SUBSET Subs] /\ losses' \in 0..MaxLosses
    BY <1>1, <2>1 DEF CreateDeliveryFails, TypeOK
  <2> QED  BY <1>1, <2>1, <2>2, QuietInv DEF CreateDeliveryFails, TypeOK
<1> QED  BY <1>2, <1>3

LEMMA LossInv ==
  ASSUME DeliveryInv,
         \/ Crash
         \/ \E s \in Slots : AttemptLost(s)
         \/ \E del \in batch : RetrySkip(del) \/ RetryLookupFails(del)
  PROVE  DeliveryInv'
<1>1. TypeOK /\ SlotsExist
  BY DEF DeliveryInv
<1>2. CASE Crash
  BY <1>1, <1>2, FewerInv DEF Crash, TypeOK, SlotsExist
<1>3. CASE \E s \in Slots : AttemptLost(s)
  BY <1>1, <1>3, FewerInv DEF AttemptLost, EndAttempt, TypeOK, SlotsExist
<1>4. CASE \E del \in batch : RetrySkip(del) \/ RetryLookupFails(del)
  BY <1>1, <1>4, FewerInv DEF RetrySkip, RetryLookupFails, TakeNext, TypeOK, SlotsExist
<1> QED  BY <1>2, <1>3, <1>4

LEMMA NextInv == DeliveryInv /\ [Next]_vars => DeliveryInv'
<1> SUFFICES ASSUME DeliveryInv, [Next]_vars PROVE DeliveryInv'
  OBVIOUS
<1>1. ASSUME NEW u \in Subs, NEW value \in BOOLEAN, SetActive(u, value) PROVE DeliveryInv'
  BY <1>1, QuietInv DEF SetActive, DeliveryInv, TypeOK
<1>2. CASE DispatchStart \/ DispatchAnswer \/ \E u \in Subs : CreateDeliveryFails(u)
  BY <1>2, DispatchInv
<1>3. ASSUME NEW u \in Subs, NEW s \in Slots, CreateDelivery(u, s) PROVE DeliveryInv'
  BY <1>3, CreateDeliveryInv
<1>4. ASSUME NEW s \in Slots, NEW answer \in {"ok", "failed"}, Post(s, answer) PROVE DeliveryInv'
  BY <1>4, PostInv
<1>5. ASSUME NEW s \in Slots, MarkDelivered(s) PROVE DeliveryInv'
  BY <1>5, MarkDeliveredInv
<1>6. ASSUME NEW s \in Slots, RecordFailure(s) PROVE DeliveryInv'
  BY <1>6, RecordFailureInv
<1>7. ASSUME NEW r \in RowIds, BackoffElapses(r) PROVE DeliveryInv'
  BY <1>7, BackoffInv
<1>8. CASE Poll
  BY <1>8, PollInv
<1>9. ASSUME NEW del \in batch, NEW s \in Slots, Retry(del, s) PROVE DeliveryInv'
  BY <1>9, RetryInv
<1>10. CASE \/ Crash
            \/ \E s \in Slots : AttemptLost(s)
            \/ \E del \in batch : RetrySkip(del) \/ RetryLookupFails(del)
  BY <1>10, LossInv
<1>11. CASE UNCHANGED vars
  BY <1>11 DEF vars, DeliveryInv, TypeOK, SlotsExist,
               RowsAreCounted, AttemptsAreCounted, CopiesAreCounted
<1> QED  BY <1>1, <1>2, <1>3, <1>4, <1>5, <1>6, <1>7, <1>8, <1>9, <1>10, <1>11 DEF Next

THEOREM WebhooksInvariant == Spec => []DeliveryInv
<1> QED  BY InitInv, NextInv, PTL DEF Spec

\* Rows, attempts, copies and counts keep their types.
THEOREM WebhooksTypeCorrect == Spec => []TypeOK
<1>1. DeliveryInv => TypeOK
  BY DEF DeliveryInv
<1> QED  BY <1>1, WebhooksInvariant, PTL

\* A row is dead-lettered only after MaxAttempts POSTs (store.go:310-343), for any
\* number of subscriptions, rows, overlapping attempts, crashes and failures.
THEOREM GivenUpAfterMaxAttempts == Spec => []NotGivenUpEarly
<1>1. DeliveryInv => NotGivenUpEarly
  BY DEF DeliveryInv, RowsAreCounted, NotGivenUpEarly
<1> QED  BY <1>1, WebhooksInvariant, PTL

HIDE BoundsAssumption DEF MaxAttempts

\* What a step does to a settled row that nothing refers to.
LEMMA SettledStays ==
  ASSUME DeliveryInv, Next, NEW r \in 1..Len(rows), Settled(r), ~Outstanding(r)
  PROVE  Settled(r)' /\ ~Outstanding(r)'
<1>1. /\ TypeOK /\ rows \in Seq(Delivery) /\ Len(rows) \in Nat /\ rows[r] \in Delivery
      /\ DOMAIN attempt = Slots
  BY DEF DeliveryInv, TypeOK, SlotsExist
<1>2. /\ \A s \in Slots : attempt[s] # Free => attempt[s].row # r
      /\ \A del \in batch : del.row # r
  BY DEF Outstanding
<1>3. ASSUME rows'[r] = rows[r],
             \A s \in Slots : attempt'[s] # Free => attempt'[s].row # r,
             \A del \in batch' : del.row # r
      PROVE  Settled(r)' /\ ~Outstanding(r)'
  BY <1>3 DEF Settled, Outstanding
<1>4. ASSUME NEW u \in Subs, NEW s \in Slots, CreateDelivery(u, s)
      PROVE  Settled(r)' /\ ~Outstanding(r)'
  <2>1. /\ rows' = Append(rows, Row(u)) /\ batch' = batch
        /\ attempt' = [attempt EXCEPT ![s] = [phase |-> "posting", row |-> Len(rows) + 1, count |-> 0]]
    BY <1>4 DEF CreateDelivery, Attempt
  <2>2. rows'[r] = rows[r]
    BY <1>1, <2>1
  <2>3. \A t \in Slots : attempt'[t] # Free => attempt'[t].row # r
    BY <1>1, <1>2, <2>1
  <2>4. QED
    BY <1>2, <1>3, <2>1, <2>2, <2>3
<1>5. ASSUME NEW s \in Slots, NEW answer \in {"ok", "failed"}, Post(s, answer)
      PROVE  Settled(r)' /\ ~Outstanding(r)'
  <2>1. /\ attempt[s].phase = "posting" /\ rows' = rows /\ batch' = batch
        /\ attempt' = [attempt EXCEPT ![s].phase = answer]
    BY <1>5 DEF Post
  <2>2. attempt[s] # Free /\ attempt[s] \in AttemptOf(1..Len(rows))
    BY <1>1, <2>1, AttemptKind
  <2>3. attempt'[s].row = attempt[s].row /\ \A t \in Slots : t # s => attempt'[t] = attempt[t]
    BY <1>1, <2>1, <2>2 DEF AttemptOf
  <2>4. QED
    BY <1>2, <1>3, <2>1, <2>2, <2>3
<1>6. ASSUME NEW s \in Slots, MarkDelivered(s) \/ RecordFailure(s)
      PROVE  Settled(r)' /\ ~Outstanding(r)'
  <2>1. attempt[s].phase \in {"ok", "failed"} /\ batch' = batch
    BY <1>6 DEF MarkDelivered, RecordFailure
  <2>2. attempt[s] # Free /\ attempt[s] \in AttemptOf(1..Len(rows))
    BY <1>1, <2>1, AttemptKind
  <2>3. attempt[s].row # r
    BY <1>2, <2>2
  <2>4. rows'[r] = rows[r]
    BY <1>1, <1>6, <2>3 DEF MarkDelivered, RecordFailure
  <2>5. attempt' = [attempt EXCEPT ![s] = Free]
    BY <1>6 DEF MarkDelivered, RecordFailure, EndAttempt
  <2>6. QED
    BY <1>1, <1>2, <1>3, <2>1, <2>4, <2>5
<1>7. ASSUME NEW s \in Slots, AttemptLost(s) PROVE Settled(r)' /\ ~Outstanding(r)'
  <2>1. rows' = rows /\ batch' = batch /\ attempt' = [attempt EXCEPT ![s] = Free]
    BY <1>7 DEF AttemptLost, EndAttempt
  <2>2. QED
    BY <1>1, <1>2, <1>3, <2>1
<1>8. ASSUME NEW q \in RowIds, BackoffElapses(q) PROVE Settled(r)' /\ ~Outstanding(r)'
  <2>1. rows'[r].status = rows[r].status
    BY <1>1, <1>8 DEF BackoffElapses, Delivery
  <2>2. attempt' = attempt /\ batch' = batch
    BY <1>8 DEF BackoffElapses
  <2>3. QED
    BY <2>1, <2>2 DEF Settled, Outstanding
<1>9. CASE Poll
  <2>1. /\ rows' = rows /\ attempt' = attempt
        /\ batch' = {[row |-> q, count |-> rows[q].attempt_count] : q \in PendingDeliveries}
    BY <1>9 DEF Poll
  <2>2. \A q \in PendingDeliveries : q # r
    BY DEF PendingDeliveries, Due, Settled
  <2>3. \A del \in batch' : del.row # r
    BY <2>1, <2>2
  <2>4. QED
    BY <1>2, <1>3, <2>1, <2>3
<1>10. ASSUME NEW del \in batch, NEW s \in Slots, Retry(del, s)
       PROVE  Settled(r)' /\ ~Outstanding(r)'
  <2>1. /\ rows' = rows /\ batch' = batch \ {del}
        /\ attempt' = [attempt EXCEPT ![s] = [phase |-> "posting", row |-> del.row, count |-> del.count]]
    BY <1>10 DEF Retry, TakeNext, Attempt
  <2>2. QED
    BY <1>1, <1>2, <1>3, <2>1
<1>11. CASE rows' = rows /\ attempt' = attempt /\ batch' \subseteq batch
  BY <1>2, <1>3, <1>11
<1>12. CASE Crash
  <2>1. rows' = rows /\ attempt' = [s \in Slots |-> Free] /\ batch' = {}
    BY <1>12 DEF Crash
  <2>2. QED
    BY <1>3, <2>1
<1>13. QED
  BY <1>4, <1>5, <1>6, <1>7, <1>8, <1>9, <1>10, <1>11, <1>12
     DEF Next, SetActive, DispatchStart, DispatchAnswer, CreateDeliveryFails, RetrySkip,
         RetryLookupFails, TakeNext

\* A settled delivery that no attempt and no copy of the poller refers to stays
\* settled, and nothing will refer to it again (store.go:258-372).
THEOREM SpecSettledIsFinal == Spec => SettledIsFinal
<1>1. DeliveryInv /\ [Next]_vars =>
        [\A r \in 1..Len(rows) : Settled(r) /\ ~Outstanding(r)
                                   => Settled(r)' /\ ~Outstanding(r)']_vars
  <2> SUFFICES ASSUME DeliveryInv, Next
               PROVE  \A r \in 1..Len(rows) : Settled(r) /\ ~Outstanding(r)
                                               => Settled(r)' /\ ~Outstanding(r)'
    OBVIOUS
  <2>1. QED
    BY SettledStays
<1>2. QED
  BY WebhooksInvariant, <1>1, PTL DEF Spec, SettledIsFinal

(***************************************************************************)
(* The search index.  A stale document is always explained.  The index     *)
(* alone is not enough of an invariant: a row read by the handler or by    *)
(* the bulk reindex may be stale before it is written, and a notification  *)
(* may be skipped because its row is gone.  Both are safe for one reason:  *)
(* whatever has changed since is announced after it, because a connection  *)
(* delivers in order and an id is not used again.                          *)
(***************************************************************************)

\* Something in q after the i-th notification is about a row.
Announced(q, i, id) == \E j \in i+1..Len(q) : q[j] # Nil /\ q[j].id = id

\* What comes after a notification when its row is gone: after a DELETE nothing, and
\* after any other something, unless it was missed.
Fits(ev, i) ==
  /\ ev.id \in used
  /\ ev.op = "DELETE" => row[ev.id] = 0 /\ ~Announced(queue, i, ev.id)
  /\ ev.op # "DELETE" /\ row[ev.id] = 0 => ev.id \in missed \/ Announced(queue, i, ev.id)

QueueFits == \A i \in 1..Len(queue) : queue[i] # Nil => Fits(queue[i], i)

\* The event in hand is ahead of the queue, and so is the row fetched for it.
HandFits ==
  hand # Idle =>
    /\ Fits(hand.ev, 0)
    /\ hand.step = "fetched" =>
         /\ hand.ev.op # "DELETE"
         /\ hand.doc # row[hand.ev.id] =>
              hand.ev.id \in missed \/ Announced(queue, 0, hand.ev.id)

\* While the bulk reindex runs no connection listens, so every change is missed.
BulkFits == \A id \in Ids : bulk[id] \notin {0, row[id]} => id \in missed

\* What the service holds is what its step uses.
ServiceFits ==
  /\ service # "listening" => ~connected /\ queue = <<>> /\ hand = Idle
  /\ service # "bulk" => InBulk = {}

RowsAreUsed == \A id \in Ids : row[id] # 0 => id \in used

SyncInv == /\ SyncTypeOK /\ RowsAreUsed /\ ServiceFits
           /\ QueueFits /\ HandFits /\ BulkFits
           /\ StaleIsExplained

Notes == Event \cup {Nil}

USE VersionsAssumption

(***************************************************************************)
(* Notifications on a queue                                                *)
(***************************************************************************)

LEMMA EventKind ==
  /\ Nil \notin Event
  /\ \A e \in Event : e # Nil /\ e.id \in Ids
  /\ \A id \in Ids : /\ [op |-> "INSERT", id |-> id] \in Event
                     /\ [op |-> "UPDATE", id |-> id] \in Event
                     /\ [op |-> "DELETE", id |-> id] \in Event
BY DEF Event, Nil

LEMMA NothingAnnounced ==
  \A i \in Nat : \A id : ~Announced(<<>>, i, id)
BY DEF Announced

LEMMA QueuedIsAnnounced ==
  ASSUME NEW q \in Seq(Notes), NEW id
  PROVE  id \in Queued(q) <=> Announced(q, 0, id)
BY DEF Queued, Announced

LEMMA AppendAnnounces ==
  ASSUME NEW q \in Seq(Notes), NEW e \in Notes, NEW i \in 0..Len(q), NEW id
  PROVE  Announced(Append(q, e), i, id) <=> Announced(q, i, id) \/ (e # Nil /\ e.id = id)
<1>1. /\ Len(q) \in Nat /\ Len(Append(q, e)) = Len(q) + 1
      /\ \A j \in 1..Len(q) : Append(q, e)[j] = q[j]
      /\ Append(q, e)[Len(q) + 1] = e
  BY AppendProperties, LenProperties
<1>2. \A j : j \in i+1..Len(q)+1 <=> j \in i+1..Len(q) \/ j = Len(q) + 1
  BY <1>1
<1> QED  BY <1>1, <1>2 DEF Announced

LEMMA TailAnnounces ==
  ASSUME NEW q \in Seq(Notes), q # <<>>, NEW i \in 1..Len(q), NEW id
  PROVE  Announced(Tail(q), i - 1, id) <=> Announced(q, i, id)
<1>1. /\ Len(q) \in Nat /\ Len(Tail(q)) = Len(q) - 1
      /\ \A j \in 1..Len(q) - 1 : Tail(q)[j] = q[j + 1]
  BY HeadTailProperties, LenProperties
<1>2. ASSUME NEW j \in i..Len(q)-1 PROVE j + 1 \in i+1..Len(q) /\ Tail(q)[j] = q[j + 1]
  BY <1>1
<1>3. ASSUME NEW j \in i+1..Len(q) PROVE j - 1 \in i..Len(q)-1 /\ Tail(q)[j - 1] = q[j]
  BY <1>1
<1> QED  BY <1>1, <1>2, <1>3 DEF Announced

\* What is cut off is queued in what is cut off.
LEMMA PrefixAnnounces ==
  ASSUME NEW q \in Seq(Notes), NEW n \in 0..Len(q), NEW i \in 0..n, NEW id
  PROVE  /\ SubSeq(q, 1, n) \in Seq(Notes) /\ Len(SubSeq(q, 1, n)) = n
         /\ \A j \in 1..n : SubSeq(q, 1, n)[j] = q[j]
         /\ Announced(SubSeq(q, 1, n), i, id) => Announced(q, i, id)
         /\ Announced(q, i, id) => \/ Announced(SubSeq(q, 1, n), i, id)
                                   \/ id \in Queued(SubSeq(q, n + 1, Len(q)))
<1> DEFINE kept == SubSeq(q, 1, n)
           lost == SubSeq(q, n + 1, Len(q))
<1>1. Len(q) \in Nat /\ \A j \in 1..Len(q) : q[j] \in Notes
  BY LenProperties, ElementOfSeq
<1>2. kept \in Seq(Notes) /\ Len(kept) = n /\ \A j \in 1..n : kept[j] = q[j]
  BY <1>1, SubSeqProperties
<1>3. /\ Len(lost) = Len(q) - n
      /\ \A j \in 1..Len(q) - n : lost[j] = q[n + j]
  BY <1>1, SubSeqProperties
<1> HIDE DEF kept, lost
<1>4. ASSUME Announced(q, i, id), ~Announced(kept, i, id)
      PROVE  id \in Queued(lost)
  <2>1. PICK j \in i+1..Len(q) : q[j] # Nil /\ q[j].id = id
    BY <1>4 DEF Announced
  <2>2. j > n
    BY <2>1, <1>1, <1>2, <1>4 DEF Announced
  <2>3. j - n \in 1..Len(lost) /\ lost[j - n] = q[j]
    BY <2>1, <2>2, <1>1, <1>3
  <2> QED  BY <2>1, <2>3 DEF Queued
<1>5. Announced(kept, i, id) => Announced(q, i, id)
  BY <1>1, <1>2 DEF Announced
<1> QED  BY <1>2, <1>4, <1>5 DEF kept, lost

(***************************************************************************)
(* Initially, and when a row changes                                       *)
(***************************************************************************)

LEMMA InitSyncInv == SyncInit => SyncInv
<1> SUFFICES ASSUME SyncInit PROVE SyncInv
  OBVIOUS
<1>1. Len(Tables) \in Nat
  BY TablesAssumption
<1>2. queue = <<>> /\ queue \in Seq(Event \cup {Nil}) /\ Len(queue) = 0
  BY DEF SyncInit
<1>3. SyncTypeOK
  <2>1. hand = Idle /\ table = 1 /\ drops = 0 /\ service = "stopped" /\ connected = FALSE
    BY DEF SyncInit
  <2>2. row = [id \in Ids |-> 0] /\ index = row /\ bulk = row /\ used = {} /\ missed = {}
    BY DEF SyncInit
  <2>3. row \in [Ids -> 0..MaxVersion]
    BY <2>2
  <2>4. used \subseteq Ids /\ missed \subseteq Ids
    BY <2>2
  <2>5. table \in 1..Len(Tables)+1 /\ drops \in 0..MaxDrops
    BY <1>1, <2>1
  <2> QED  BY <1>2, <2>1, <2>2, <2>3, <2>4, <2>5 DEF SyncTypeOK
<1>4. RowsAreUsed /\ ServiceFits /\ HandFits /\ BulkFits /\ StaleIsExplained
  BY DEF SyncInit, RowsAreUsed, ServiceFits, HandFits, BulkFits, StaleIsExplained, InBulk
<1>5. QueueFits
  BY <1>2 DEF QueueFits
<1> QED  BY <1>3, <1>4, <1>5 DEF SyncInv

\* What is in hand and on the queue, in the terms of the invariant.
LEMMA HeldFacts ==
  ASSUME SyncTypeOK
  PROVE  /\ queue \in Seq(Notes) /\ Len(queue) \in Nat
         /\ \A i \in 1..Len(queue) : queue[i] \in Notes /\ (queue[i] # Nil => queue[i] \in Event)
         /\ hand # Idle => /\ hand.ev \in Event /\ hand.ev.id \in Ids
                           /\ hand.step \in {"dispatched", "fetched"} /\ hand.doc \in 0..MaxVersion
BY LenProperties, ElementOfSeq, EventKind DEF SyncTypeOK, Notes, Idle

\* The row of id becomes v, and a notification says how.
RowChange(op, id, v) ==
  /\ op \in {"INSERT", "UPDATE", "DELETE"} /\ v \in 0..MaxVersion
  /\ v = 0 <=> op = "DELETE"
  /\ row[id] # 0 \/ id \notin used
  /\ row' = [row EXCEPT ![id] = v]
  /\ used' = used \cup {id}
  /\ NotifyChange(op, id)
  /\ UNCHANGED <<index, service, table, bulk, connected, hand, drops>>

\* After a change of a row its id is announced after everything, or missed.
LEMMA ChangeIsAnnounced ==
  ASSUME SyncInv, NEW op, NEW id \in Ids, NEW v, RowChange(op, id, v)
  PROVE  /\ queue' \in Seq(Notes)
         /\ Len(queue') \in {Len(queue), Len(queue) + 1}
         /\ Len(queue') # Len(queue) =>
              connected /\ queue'[Len(queue')] = [op |-> op, id |-> id]
         /\ \A i \in 1..Len(queue) : queue'[i] = queue[i]
         /\ missed \subseteq missed' /\ missed' \subseteq missed \cup {id}
         /\ connected \/ id \in missed'
         /\ \A i \in 0..Len(queue) :
              /\ id \in missed' \/ Announced(queue', i, id)
              /\ \A other : other # id => (Announced(queue', i, other) <=> Announced(queue, i, other))
<1> DEFINE e == [op |-> op, id |-> id]
<1>1. queue \in Seq(Notes) /\ Len(queue) \in Nat
  BY HeldFacts DEF SyncInv
<1>2. e \in Notes /\ e # Nil /\ e.id = id
  BY EventKind DEF RowChange, Notes
<1> HIDE DEF e
<1>3. CASE connected
  <2>1. queue' = Append(queue, e) /\ missed' = missed
    BY <1>3 DEF RowChange, NotifyChange, e
  <2>2. /\ queue' \in Seq(Notes) /\ Len(queue') = Len(queue) + 1
        /\ queue'[Len(queue')] = e /\ \A i \in 1..Len(queue) : queue'[i] = queue[i]
    BY <2>1, <1>1, <1>2, AppendProperties
  <2>3. \A i \in 0..Len(queue) : \A other :
          Announced(queue', i, other) <=> Announced(queue, i, other) \/ other = id
    BY <2>1, <1>1, <1>2, AppendAnnounces
  <2> QED  BY <2>1, <2>2, <2>3, <1>3 DEF e
<1>4. CASE ~connected
  BY <1>4, <1>1 DEF RowChange, NotifyChange
<1> QED  BY <1>3, <1>4

\* So whatever fitted before the change fits after it.
LEMMA FitsAfterChange ==
  ASSUME SyncInv, NEW op, NEW id \in Ids, NEW v, RowChange(op, id, v),
         NEW ev \in Event, NEW i \in 0..Len(queue), Fits(ev, i)
  PROVE  Fits(ev, i)'
<1>1. row' = [row EXCEPT ![id] = v] /\ row \in [Ids -> 0..MaxVersion] /\ used' = used \cup {id}
  BY DEF RowChange, SyncInv, SyncTypeOK
<1>2. ev.id \in Ids
  BY EventKind
<1>3. CASE ev.id = id
  <2>1. ev.op # "DELETE"
    BY <1>3 DEF Fits, RowChange
  <2> QED  BY <2>1, <1>1, <1>3, ChangeIsAnnounced DEF Fits
<1>4. CASE ev.id # id
  <2>1. /\ row'[ev.id] = row[ev.id] /\ missed \subseteq missed'
        /\ Announced(queue', i, ev.id) <=> Announced(queue, i, ev.id)
    BY <1>1, <1>2, <1>4, ChangeIsAnnounced
  <2> QED  BY <2>1, <1>1 DEF Fits
<1> QED  BY <1>3, <1>4

LEMMA RowChangeInv ==
  ASSUME SyncInv, NEW op, NEW id \in Ids, NEW v, RowChange(op, id, v)
  PROVE  SyncInv'
<1> DEFINE e == [op |-> op, id |-> id]
<1>1. /\ row \in [Ids -> 0..MaxVersion] /\ row' = [row EXCEPT ![id] = v] /\ v \in 0..MaxVersion
      /\ used' = used \cup {id}
      /\ UNCHANGED <<index, service, table, bulk, connected, hand, drops>>
      /\ SyncTypeOK /\ e \in Event
  BY EventKind DEF SyncInv, SyncTypeOK, RowChange
<1>2. /\ queue' \in Seq(Notes) /\ Len(queue) \in Nat
      /\ Len(queue') \in {Len(queue), Len(queue) + 1}
      /\ Len(queue') # Len(queue) => connected /\ queue'[Len(queue')] = e
      /\ \A i \in 1..Len(queue) : queue'[i] = queue[i]
      /\ missed \subseteq missed' /\ missed' \subseteq missed \cup {id}
      /\ connected \/ id \in missed'
      /\ id \in missed' \/ Announced(queue', 0, id)
      /\ \A other : other # id => (Announced(queue', 0, other) <=> Announced(queue, 0, other))
  BY ChangeIsAnnounced, HeldFacts DEF SyncInv
<1>3. /\ \A other \in Ids : row'[other] = IF other = id THEN v ELSE row[other]
      /\ row' \in [Ids -> 0..MaxVersion]
  BY <1>1
<1>4. SyncTypeOK'
  BY <1>1, <1>2, <1>3 DEF SyncTypeOK, Notes
<1>5. RowsAreUsed'
  BY <1>1, <1>3 DEF SyncInv, RowsAreUsed
<1>6. ServiceFits'
  <2>1. ~connected => queue' = queue
    BY DEF RowChange, NotifyChange
  <2> QED  BY <2>1, <1>1 DEF SyncInv, ServiceFits, InBulk
<1>7. QueueFits'
  <2> SUFFICES ASSUME NEW i \in 1..Len(queue'), queue'[i] # Nil
               PROVE  Fits(queue[i], i)'
    BY DEF QueueFits
  <2>1. CASE i = Len(queue) + 1
    <3>1. queue'[i] = e /\ e.op = op /\ e.id = id
      BY <2>1, <1>2
    <3>2. ~Announced(queue', i, id)
      BY <2>1, <1>2 DEF Announced
    <3>3. op # "DELETE" => v # 0
      BY DEF RowChange
    <3>4. op = "DELETE" => v = 0
      BY DEF RowChange
    <3> HIDE DEF e
    <3> QED  BY <3>1, <3>2, <3>3, <3>4, <1>1, <1>3 DEF Fits
  <2>2. CASE i # Len(queue) + 1
    <3>1. i \in 1..Len(queue) /\ i \in 0..Len(queue) /\ queue'[i] = queue[i]
      BY <2>2, <1>2
    <3>2. queue[i] \in Event /\ Fits(queue[i], i)
      BY <3>1, HeldFacts DEF SyncInv, QueueFits
    <3>3. PICK ev \in Event : ev = queue[i]
      BY <3>2
    <3>4. Fits(ev, i)'
      BY <3>1, <3>2, <3>3, FitsAfterChange
    <3> QED  BY <3>1, <3>3, <3>4 DEF Fits
  <2> QED  BY <2>1, <2>2
<1>8. HandFits'
  <2> SUFFICES ASSUME hand' # Idle PROVE HandFits'
    BY DEF HandFits
  <2>1. PICK ev \in Event : ev = hand.ev
    BY <1>1, HeldFacts
  <2>2. Fits(ev, 0)
    BY <2>1, <1>1 DEF SyncInv, HandFits
  <2>3. Fits(ev, 0)'
    BY <2>2, <1>2, FitsAfterChange
  <2>4. Fits(hand.ev, 0)'
    BY <2>1, <2>3, <1>1 DEF Fits
  <2>5. ASSUME hand.step = "fetched", hand.doc # row'[ev.id]
        PROVE  ev.id \in missed' \/ Announced(queue', 0, ev.id)
    <3>1. hand # Idle /\ ev.id \in Ids
      BY <1>1, EventKind
    <3>2. hand.doc # row[ev.id] => ev.id \in missed \/ Announced(queue, 0, ev.id)
      BY <2>1, <2>5, <3>1 DEF SyncInv, HandFits
    <3> QED  BY <2>5, <3>1, <3>2, <1>2, <1>3
  <2>6. hand.step = "fetched" => hand.ev.op # "DELETE"
    BY <1>1 DEF SyncInv, HandFits
  <2> QED  BY <2>1, <2>4, <2>5, <2>6, <1>1 DEF HandFits
<1>9. BulkFits'
  <2>1. ASSUME NEW other \in Ids, bulk[other] \notin {0, row'[other]}
        PROVE  other \in missed'
    <3>1. service = "bulk"
      BY <2>1 DEF SyncInv, ServiceFits, InBulk
    <3>2. ~connected
      BY <3>1 DEF SyncInv, ServiceFits
    <3> QED  BY <2>1, <3>2, <1>2, <1>3 DEF SyncInv, BulkFits
  <2> QED  BY <2>1, <1>1 DEF BulkFits
<1>10. StaleIsExplained'
  <2>1. ASSUME NEW other \in Ids, index[other] # row'[other]
        PROVE  other \in missed' \/ Announced(queue', 0, other) \/ other \in InHand \/ other \in InBulk
    <3>1. CASE other = id
      BY <3>1, <1>2
    <3>2. CASE other # id
      <4>1. other \in missed \/ other \in Queued(queue) \/ other \in InHand \/ other \in InBulk
        BY <2>1, <3>2, <1>3 DEF SyncInv, StaleIsExplained
      <4>2. other \in Queued(queue) <=> Announced(queue, 0, other)
        BY QueuedIsAnnounced, HeldFacts, <1>1
      <4> QED  BY <4>1, <4>2, <3>2, <1>2
    <3> QED  BY <3>1, <3>2
  <2>2. \A other : other \in Queued(queue') <=> Announced(queue', 0, other)
    BY QueuedIsAnnounced, <1>2
  <2>3. InHand' = InHand /\ InBulk' = InBulk
    BY <1>1 DEF InHand, InBulk
  <2> QED  BY <2>1, <2>2, <2>3, <1>1 DEF StaleIsExplained
<1> QED  BY <1>4, <1>5, <1>6, <1>7, <1>8, <1>9, <1>10 DEF SyncInv

\* The three changes of a row.
LEMMA RowChanges ==
  ASSUME SyncInv, NEW id \in Ids, InsertRow(id) \/ UpdateRow(id) \/ DeleteRow(id)
  PROVE  SyncInv'
<1>1. row \in [Ids -> 0..MaxVersion] /\ (row[id] # 0 => used = used \cup {id})
  BY DEF SyncInv, SyncTypeOK, RowsAreUsed
<1>2. CASE InsertRow(id)
  <2>1. RowChange("INSERT", id, 1)
    BY <1>2 DEF InsertRow, RowChange
  <2> QED  BY <2>1, RowChangeInv
<1>3. CASE UpdateRow(id)
  <2>1. RowChange("UPDATE", id, row[id] + 1)
    BY <1>1, <1>3 DEF UpdateRow, RowChange
  <2> QED  BY <2>1, RowChangeInv
<1>4. CASE DeleteRow(id)
  <2>1. RowChange("DELETE", id, 0)
    BY <1>1, <1>4 DEF DeleteRow, RowChange
  <2> QED  BY <2>1, RowChangeInv
<1> QED  BY <1>2, <1>3, <1>4

(***************************************************************************)
(* The bulk reindex                                                        *)
(***************************************************************************)

\* The queue and the hand stay empty: what is left is the index and the rows read.
LEMMA BulkStepInv ==
  ASSUME SyncInv, service \in {"stopped", "bulk"},
         UNCHANGED <<row, used, queue, hand, drops>>,
         index' \in [Ids -> 0..MaxVersion], bulk' \in [Ids -> 0..MaxVersion],
         missed' \subseteq Ids, table' \in 1..Len(Tables)+1,
         service' \in {"bulk", "listening"},
         connected' \in BOOLEAN, connected' => service' = "listening",
         service' # "bulk" => \A id \in Ids : bulk'[id] = 0,
         BulkFits',
         \A id \in Ids : index'[id] # row[id] => id \in missed' \/ bulk'[id] # 0
  PROVE  SyncInv'
<1>1. queue = <<>> /\ hand = Idle /\ SyncTypeOK
  BY DEF SyncInv, ServiceFits
<1>2. SyncTypeOK'
  BY <1>1 DEF SyncTypeOK
<1>3. RowsAreUsed'
  BY DEF SyncInv, RowsAreUsed
<1>4. ServiceFits'
  BY <1>1 DEF ServiceFits, InBulk
<1>5. QueueFits' /\ HandFits'
  BY <1>1 DEF QueueFits, HandFits
<1>6. StaleIsExplained'
  BY DEF StaleIsExplained, InBulk
<1> QED  BY <1>2, <1>3, <1>4, <1>5, <1>6 DEF SyncInv

\* Who is not on the queue while it is empty, and what the index lacks.
LEMMA BulkFacts ==
  ASSUME SyncInv, service \in {"stopped", "bulk"}
  PROVE  /\ row \in [Ids -> 0..MaxVersion] /\ index \in [Ids -> 0..MaxVersion]
         /\ bulk \in [Ids -> 0..MaxVersion] /\ missed \subseteq Ids
         /\ Len(Tables) \in Nat /\ table \in 1..Len(Tables)+1
         /\ \A id \in Ids : bulk[id] \notin {0, row[id]} => id \in missed
         /\ \A id \in Ids : index[id] # row[id] => id \in missed \/ bulk[id] # 0
         /\ connected \in BOOLEAN /\ ~connected
<1>1. queue = <<>> /\ hand = Idle /\ SyncTypeOK /\ ~connected
  BY DEF SyncInv, ServiceFits
<1>2. Queued(queue) = {} /\ InHand = {}
  BY <1>1 DEF Queued, InHand
<1>3. \A id \in Ids : index[id] # row[id] => id \in missed \/ bulk[id] # 0
  BY <1>2 DEF SyncInv, StaleIsExplained, InBulk
<1>4. Len(Tables) \in Nat
  BY TablesAssumption
<1> QED  BY <1>1, <1>3, <1>4 DEF SyncTypeOK, SyncInv, BulkFits

LEMMA BulkInv ==
  ASSUME SyncInv,
         Start \/ BulkQuery \/ Listen \/ (\E id \in Ids : BulkIndex(id) \/ BulkIndexFails(id))
  PROVE  SyncInv'
<1>1. CASE Start
  <2>1. service = "stopped" /\ service' = "bulk" /\ table' = 1
        /\ UNCHANGED <<row, used, index, bulk, connected, queue, hand, drops, missed>>
    BY <1>1 DEF Start
  <2>2. BulkFits'
    BY <2>1 DEF SyncInv, BulkFits
  <2> QED  BY <2>1, <2>2, BulkFacts, BulkStepInv
<1>2. CASE Listen
  <2>1. service = "bulk" /\ service' = "listening" /\ connected' = TRUE
        /\ UNCHANGED <<row, used, index, table, bulk, queue, hand, drops, missed>>
        /\ \A id \in Ids : bulk[id] = 0
    BY <1>2 DEF Listen, InBulk
  <2>2. BulkFits'
    BY <2>1 DEF SyncInv, BulkFits
  <2> QED  BY <2>1, <2>2, BulkFacts, BulkStepInv
<1>3. CASE BulkQuery
  <2> DEFINE read == {id \in Tables[table] : row[id] # 0}
  <2>1. /\ service = "bulk" /\ table <= Len(Tables) /\ \A id \in Ids : bulk[id] = 0
        /\ bulk' = [id \in Ids |-> IF id \in read THEN row[id] ELSE 0]
        /\ missed' = missed \ read /\ table' = table + 1
        /\ UNCHANGED <<row, used, index, service, connected, queue, hand, drops>>
    BY <1>3 DEF BulkQuery, InBulk
  <2>2. \A id \in read : row[id] # 0
    OBVIOUS
  <2> HIDE DEF read
  <2>3. bulk' \in [Ids -> 0..MaxVersion] /\ BulkFits'
    BY <2>1, BulkFacts DEF BulkFits
  <2>4. \A id \in Ids : index'[id] # row[id] => id \in missed' \/ bulk'[id] # 0
    BY <2>1, <2>2, BulkFacts
  <2>5. table' \in 1..Len(Tables)+1
    BY <2>1, BulkFacts
  <2> QED  BY <2>1, <2>3, <2>4, <2>5, BulkFacts, BulkStepInv
<1>4. ASSUME NEW id \in Ids, BulkIndex(id) \/ BulkIndexFails(id)
      PROVE  SyncInv'
  <2>1. /\ service = "bulk" /\ bulk[id] # 0
        /\ bulk' = [bulk EXCEPT ![id] = 0]
        /\ UNCHANGED <<row, used, service, table, connected, queue, hand, drops>>
    BY <1>4 DEF BulkIndex, BulkIndexFails
  <2>2. /\ index' = index \/ index' = [index EXCEPT ![id] = bulk[id]]
        /\ missed' = missed \/ missed' = missed \cup {id}
        /\ index' = [index EXCEPT ![id] = bulk[id]] \/ missed' = missed \cup {id}
    BY <1>4 DEF BulkIndex, BulkIndexFails, IndexDoc
  <2>3. index' \in [Ids -> 0..MaxVersion] /\ bulk' \in [Ids -> 0..MaxVersion]
    BY <2>1, <2>2, BulkFacts
  <2>4. missed \subseteq missed' /\ missed' \subseteq Ids
    BY <2>1, <2>2, BulkFacts
  <2>5. \A other \in Ids \ {id} : index'[other] = index[other] /\ bulk'[other] = bulk[other]
    BY <2>1, <2>2, BulkFacts
  <2>6. bulk'[id] = 0 /\ (index'[id] # row[id] => id \in missed')
    BY <2>1, <2>2, BulkFacts
  <2>7. BulkFits'
    BY <2>1, <2>4, <2>5, <2>6, BulkFacts DEF BulkFits
  <2>8. \A other \in Ids : index'[other] # row[other] => other \in missed' \/ bulk'[other] # 0
    BY <2>1, <2>4, <2>5, <2>6, BulkFacts
  <2> QED  BY <2>1, <2>3, <2>4, <2>7, <2>8, BulkFacts, BulkStepInv
<1> QED  BY <1>1, <1>2, <1>3, <1>4

(***************************************************************************)
(* The listener                                                            *)
(***************************************************************************)

\* The bulk reindex does not run: nothing read is still to be indexed.
LEMMA ListenerFacts ==
  ASSUME SyncInv, service = "listening"
  PROVE  /\ InBulk = {} /\ \A id \in Ids : bulk[id] = 0
         /\ queue \in Seq(Notes) /\ Len(queue) \in Nat
         /\ row \in [Ids -> 0..MaxVersion] /\ index \in [Ids -> 0..MaxVersion]
         /\ missed \subseteq Ids
         /\ \A id \in Ids : index[id] # row[id] =>
              id \in missed \/ Announced(queue, 0, id) \/ id \in InHand
<1>1. InBulk = {} /\ \A id \in Ids : bulk[id] = 0
  BY DEF SyncInv, ServiceFits, InBulk
<1>2. queue \in Seq(Notes) /\ Len(queue) \in Nat
  BY HeldFacts DEF SyncInv
<1>3. \A id \in Ids : index[id] # row[id] =>
        id \in missed \/ Announced(queue, 0, id) \/ id \in InHand
  BY <1>1, <1>2, QueuedIsAnnounced DEF SyncInv, StaleIsExplained
<1> QED  BY <1>1, <1>2, <1>3 DEF SyncInv, SyncTypeOK

\* A step of the listener keeps the rows and the service's step.
LEMMA ListenerStepInv ==
  ASSUME SyncInv, service = "listening",
         UNCHANGED <<row, used, service, table, bulk>>,
         connected' \in BOOLEAN, drops' \in 0..MaxDrops,
         index' \in [Ids -> 0..MaxVersion], missed' \subseteq Ids,
         queue' \in Seq(Notes),
         hand' = Idle \/ hand' \in [step : {"dispatched", "fetched"}, ev : Event, doc : 0..MaxVersion],
         QueueFits', HandFits',
         \A id \in Ids : index'[id] # row[id] =>
           id \in missed' \/ Announced(queue', 0, id) \/ id \in InHand'
  PROVE  SyncInv'
<1>1. \A id \in Ids : bulk'[id] = 0
  BY ListenerFacts
<1>2. SyncTypeOK'
  BY DEF SyncInv, SyncTypeOK, Notes
<1>3. RowsAreUsed' /\ BulkFits'
  BY <1>1 DEF SyncInv, RowsAreUsed, BulkFits
<1>4. ServiceFits'
  BY <1>1 DEF ServiceFits, InBulk
<1>5. StaleIsExplained'
  BY QueuedIsAnnounced DEF StaleIsExplained
<1> QED  BY <1>2, <1>3, <1>4, <1>5 DEF SyncInv

\* What fits still fits at its new place, when what was announced after it still is
\* or is missed, and nothing of a missing row is forgotten.
LEMMA FitsMoves ==
  ASSUME NEW ev, NEW i, NEW k, Fits(ev, i), UNCHANGED <<row, used>>,
         Announced(queue', k, ev.id) => Announced(queue, i, ev.id),
         Announced(queue, i, ev.id) => ev.id \in missed' \/ Announced(queue', k, ev.id),
         ev.op # "DELETE" /\ row[ev.id] = 0 /\ ev.id \in missed => ev.id \in missed'
  PROVE  Fits(ev, k)'
BY DEF Fits

\* Only the first notification leaves the queue; the rest moves up.
LEMMA TailFits ==
  ASSUME SyncInv, service = "listening", queue # <<>>, queue' = Tail(queue),
         UNCHANGED <<row, used, missed>>
  PROVE  /\ queue' \in Seq(Notes) /\ QueueFits'
         /\ Head(queue) = queue[1] /\ Head(queue) \in Notes
         /\ \A i \in 1..Len(queue) : \A id : Announced(queue', i - 1, id) <=> Announced(queue, i, id)
<1>1. queue \in Seq(Notes) /\ Len(queue) \in Nat /\ Len(queue) # 0
  BY ListenerFacts, EmptySeq
<1>2. /\ queue' \in Seq(Notes) /\ Len(queue') = Len(queue) - 1
      /\ \A i \in 1..Len(queue') : queue'[i] = queue[i + 1]
      /\ Head(queue) = queue[1] /\ Head(queue) \in Notes
  BY <1>1, HeadTailProperties
<1>3. \A i \in 1..Len(queue) : \A id : Announced(queue', i - 1, id) <=> Announced(queue, i, id)
  BY <1>1, TailAnnounces
<1>4. ASSUME NEW i \in 1..Len(queue'), queue'[i] # Nil
      PROVE  Fits(queue[i], i)'
  <2>1. i + 1 \in 1..Len(queue) /\ queue'[i] = queue[i + 1] /\ (i + 1) - 1 = i
    BY <1>1, <1>2
  <2>2. PICK ev : ev = queue[i + 1]
    OBVIOUS
  <2>3. Fits(ev, i + 1)
    BY <1>4, <2>1, <2>2 DEF SyncInv, QueueFits
  <2>4. Announced(queue', i, ev.id) <=> Announced(queue, i + 1, ev.id)
    BY <1>3, <2>1
  <2>5. Fits(ev, i)'
    BY <2>3, <2>4, FitsMoves
  <2> QED  BY <2>1, <2>2, <2>5 DEF Fits
<1> QED  BY <1>2, <1>3, <1>4 DEF QueueFits

LEMMA DequeueInv ==
  ASSUME SyncInv, SkipNil \/ Dispatch
  PROVE  SyncInv'
<1>1. /\ service = "listening" /\ hand = Idle /\ queue # <<>> /\ queue' = Tail(queue)
      /\ UNCHANGED <<row, used, index, service, table, bulk, connected, drops, missed>>
  BY DEF SkipNil, Dispatch
<1>2. /\ queue' \in Seq(Notes) /\ QueueFits'
      /\ Head(queue) = queue[1] /\ Head(queue) \in Notes
      /\ \A i \in 1..Len(queue) : \A id : Announced(queue', i - 1, id) <=> Announced(queue, i, id)
  BY <1>1, TailFits
<1>3. Len(queue) \in Nat /\ 1 \in 1..Len(queue) /\ 1 - 1 = 0
  BY <1>1, ListenerFacts, EmptySeq
<1>4. \A id : Announced(queue', 0, id) <=> Announced(queue, 1, id)
  BY <1>2, <1>3
<1>5. \A id : Announced(queue, 0, id) <=>
                Announced(queue, 1, id) \/ (queue[1] # Nil /\ queue[1].id = id)
  <2>1. \A j : j \in 0+1..Len(queue) <=> j = 1 \/ j \in 1+1..Len(queue)
    BY <1>3
  <2> QED  BY <2>1 DEF Announced
<1>6. \A id \in Ids : index[id] # row[id] => id \in missed \/ Announced(queue, 0, id)
  BY <1>1, ListenerFacts DEF InHand
<1>7. CASE SkipNil
  <2>1. hand' = Idle /\ queue[1] = Nil
    BY <1>1, <1>2, <1>7 DEF SkipNil
  <2>2. HandFits'
    BY <2>1 DEF HandFits
  <2> QED  BY <1>1, <1>2, <1>4, <1>5, <1>6, <2>1, <2>2, ListenerStepInv DEF SyncInv, SyncTypeOK
<1>8. CASE Dispatch
  <2>1. PICK ev : ev = Head(queue)
    OBVIOUS
  <2>2. ev # Nil /\ ev = queue[1] /\ ev \in Event
    BY <2>1, <1>2, <1>8 DEF Dispatch, Notes
  <2>3. hand' = [step |-> "dispatched", ev |-> ev, doc |-> 0]
    BY <2>1, <1>8 DEF Dispatch
  <2>4. /\ hand' \in [step : {"dispatched", "fetched"}, ev : Event, doc : 0..MaxVersion]
        /\ hand'.ev = ev /\ hand'.step = "dispatched" /\ InHand' = {ev.id}
    BY <2>2, <2>3 DEF InHand, Idle
  <2>5. Fits(ev, 1)
    BY <2>2, <1>3 DEF SyncInv, QueueFits
  <2>6. Fits(ev, 0)'
    BY <2>5, <1>1, <1>4, FitsMoves
  <2>7. HandFits'
    BY <2>4, <2>6 DEF HandFits, Fits
  <2>8. \A id \in Ids : index[id] # row[id] =>
          id \in missed \/ Announced(queue', 0, id) \/ id \in InHand'
    BY <1>4, <1>5, <1>6, <2>2, <2>4
  <2> QED  BY <1>1, <1>2, <2>4, <2>7, <2>8, ListenerStepInv, ListenerFacts DEF SyncInv, SyncTypeOK
<1> QED  BY <1>7, <1>8

\* The queue fits as long as what is missed of rows that are gone stays missed.
LEMMA QueueStillFits ==
  ASSUME SyncInv, UNCHANGED <<row, used, queue>>,
         \A id \in missed : id \in missed' \/ row[id] # 0 \/ ~Announced(queue, 0, id)
  PROVE  QueueFits'
<1>1. queue \in Seq(Notes) /\ Len(queue) \in Nat
  BY HeldFacts DEF SyncInv
<1>2. ASSUME NEW i \in 1..Len(queue), queue[i] # Nil
      PROVE  Fits(queue[i], i)'
  <2>1. PICK ev : ev = queue[i]
    OBVIOUS
  <2>2. Fits(ev, i)
    BY <1>2, <2>1 DEF SyncInv, QueueFits
  <2>3. Announced(queue, 0, ev.id)
    BY <1>1, <1>2, <2>1 DEF Announced
  <2>4. Fits(ev, i)'
    BY <2>2, <2>3 DEF Fits
  <2> QED  BY <2>1, <2>4 DEF Fits
<1> QED  BY <1>2 DEF QueueFits

\* The event in hand is handled, or not.
LEMMA HandleInv ==
  ASSUME SyncInv, Fetch \/ WriteDoc \/ DeleteDoc \/ HandleFails
  PROVE  SyncInv'
<1> DEFINE id == hand.ev.id
<1>1. /\ hand # Idle /\ UNCHANGED <<row, used, service, table, bulk, connected, queue, drops>>
  BY DEF Fetch, WriteDoc, DeleteDoc, HandleFails
<1>2. service = "listening"
  BY <1>1 DEF SyncInv, ServiceFits
<1>3. /\ queue \in Seq(Notes) /\ connected \in BOOLEAN /\ drops \in 0..MaxDrops
      /\ row \in [Ids -> 0..MaxVersion] /\ index \in [Ids -> 0..MaxVersion] /\ missed \subseteq Ids
      /\ \A other \in Ids : index[other] # row[other] =>
           other \in missed \/ Announced(queue, 0, other) \/ other = id
  BY <1>1, <1>2, ListenerFacts DEF SyncInv, SyncTypeOK, InHand
<1>4. /\ hand.ev \in Event /\ id \in Ids /\ hand.doc \in 0..MaxVersion
      /\ hand \in [step : {"dispatched", "fetched"}, ev : Event, doc : 0..MaxVersion]
  BY <1>1, HeldFacts DEF SyncInv, SyncTypeOK
<1>5. /\ id \in used
      /\ hand.ev.op = "DELETE" => row[id] = 0 /\ ~Announced(queue, 0, id)
      /\ hand.ev.op # "DELETE" /\ row[id] = 0 => id \in missed \/ Announced(queue, 0, id)
      /\ hand.step = "fetched" /\ hand.doc # row[id] => id \in missed \/ Announced(queue, 0, id)
  BY <1>1 DEF SyncInv, HandFits, Fits
<1> HIDE DEF id
<1>6. CASE Fetch
  <2>1. hand.ev.op # "DELETE" /\ index' = index
    BY <1>6 DEF Fetch
  <2>2. CASE row[id] = 0
    <3>1. hand' = Idle /\ missed' = missed
      BY <1>6, <2>2 DEF Fetch, id
    <3>2. QueueFits'
      BY <1>1, <3>1, QueueStillFits
    <3>3. HandFits'
      BY <3>1 DEF HandFits
    <3>4. \A other \in Ids : index[other] # row[other] =>
            other \in missed \/ Announced(queue, 0, other)
      BY <1>3, <1>5, <2>1, <2>2
    <3> QED  BY <1>1, <1>2, <1>3, <2>1, <3>1, <3>2, <3>3, <3>4, ListenerStepInv
  <2>3. CASE row[id] # 0
    <3>1. hand' = [hand EXCEPT !.step = "fetched", !.doc = row[id]] /\ missed' = missed \ {id}
      BY <1>6, <2>3 DEF Fetch, id
    <3>2. /\ hand'.ev = hand.ev /\ hand'.step = "fetched" /\ hand'.doc = row[id]
          /\ hand' \in [step : {"dispatched", "fetched"}, ev : Event, doc : 0..MaxVersion]
          /\ hand' # Idle
      BY <1>3, <1>4, <3>1 DEF Idle
    <3>3. QueueFits'
      BY <1>1, <2>3, <3>1, QueueStillFits
    <3>4. HandFits'
      BY <1>1, <1>5, <2>1, <2>3, <3>2 DEF HandFits, Fits, id
    <3>5. InHand' = {id}
      BY <3>2 DEF InHand, id
    <3>6. \A other \in Ids : index[other] # row[other] =>
            other \in missed' \/ Announced(queue, 0, other) \/ other \in InHand'
      BY <1>3, <3>1, <3>5
    <3>7. missed' \subseteq Ids
      BY <1>3, <3>1
    <3> QED  BY <1>1, <1>2, <1>3, <2>1, <3>2, <3>3, <3>4, <3>6, <3>7, ListenerStepInv
  <2> QED  BY <2>2, <2>3
<1>7. ASSUME NEW doc \in 0..MaxVersion, hand' = Idle,
             index' = index \/ index' = [index EXCEPT ![id] = doc],
             missed' \in {missed, missed \cup {id}, missed \ {id}},
             id \in missed' \/ Announced(queue, 0, id) \/ index'[id] = row[id],
             id \in missed' \/ id \notin missed \/ ~Announced(queue, 0, id)
      PROVE  SyncInv'
  <2>1. index' \in [Ids -> 0..MaxVersion] /\ missed' \subseteq Ids
        /\ \A other \in Ids \ {id} : index'[other] = index[other]
    BY <1>3, <1>4, <1>7, SMTT(30)
  <2>2. \A other \in missed : other \in missed' \/ ~Announced(queue, 0, other)
    BY <1>7
  <2>3. QueueFits'
    BY <1>1, <2>2, QueueStillFits
  <2>4. HandFits'
    BY <1>7 DEF HandFits
  <2>5. \A other \in Ids : index'[other] # row[other] =>
          other \in missed' \/ Announced(queue, 0, other)
    BY <1>3, <1>7, <2>1
  <2> QED  BY <1>1, <1>2, <1>3, <1>7, <2>1, <2>3, <2>4, <2>5, ListenerStepInv
<1>8. CASE WriteDoc
  <2>1. /\ hand' = Idle /\ index' = [index EXCEPT ![id] = hand.doc] /\ missed' = missed
        /\ hand.step = "fetched"
    BY <1>8 DEF WriteDoc, IndexDoc, id
  <2>2. index'[id] = hand.doc
    BY <2>1, <1>3, <1>4
  <2>3. id \in missed' \/ id \notin missed
    BY <2>1
  <2> QED  BY <1>4, <1>5, <2>1, <2>2, <2>3, <1>7
<1>9. CASE DeleteDoc
  <2>1. /\ hand' = Idle /\ index' = [index EXCEPT ![id] = 0] /\ missed' = missed \ {id}
        /\ hand.ev.op = "DELETE"
    BY <1>9 DEF DeleteDoc, IndexDoc, id
  <2>2. index'[id] = 0 /\ 0 \in 0..MaxVersion
    BY <2>1, <1>3, <1>4
  <2> QED  BY <1>5, <2>1, <2>2, <1>7
<1>10. CASE HandleFails
  <2>1. /\ hand' = Idle /\ missed' = missed \cup {id}
        /\ index' = index \/ index' = [index EXCEPT ![id] = hand.doc]
    BY <1>10 DEF HandleFails, IndexDoc, id
  <2>2. id \in missed'
    BY <2>1
  <2> QED  BY <1>4, <2>1, <2>2, <1>7
<1> QED  BY <1>6, <1>8, <1>9, <1>10

(***************************************************************************)
(* Losses                                                                  *)
(***************************************************************************)

\* Of the queue a prefix is left, and what was cut off is missed.
LEMMA LoseConnectionInv ==
  ASSUME SyncInv, NEW n \in 0..Len(queue), LoseConnection(n)
  PROVE  SyncInv'
<1> DEFINE lost == Queued(SubSeq(queue, n + 1, Len(queue)))
<1>1. /\ connected /\ drops < MaxDrops /\ connected' = FALSE /\ drops' = drops + 1
      /\ queue' = SubSeq(queue, 1, n) /\ missed' = missed \cup lost
      /\ UNCHANGED <<row, used, index, service, table, bulk, hand>>
  BY DEF LoseConnection
<1>2. service = "listening"
  BY <1>1 DEF SyncInv, SyncTypeOK, ServiceFits
<1>3. queue \in Seq(Notes) /\ Len(queue) \in Nat /\ missed \subseteq Ids
  BY <1>2, ListenerFacts
<1>4. /\ queue' \in Seq(Notes) /\ Len(queue') = n /\ \A i \in 1..n : queue'[i] = queue[i]
  BY <1>1, <1>3, PrefixAnnounces
<1>5. \A i \in 0..n : \A id :
        /\ Announced(queue', i, id) => Announced(queue, i, id)
        /\ Announced(queue, i, id) => id \in missed' \/ Announced(queue', i, id)
  BY <1>1, <1>3, PrefixAnnounces
<1>6. lost \subseteq Ids
  <2>1. \A i \in 1..Len(queue) : queue[i] # Nil => queue[i].id \in Ids
    BY HeldFacts, EventKind DEF SyncInv
  <2> DEFINE cut == SubSeq(queue, n + 1, Len(queue))
  <2>2. Len(cut) = Len(queue) - n /\ \A i \in 1..Len(cut) : cut[i] = queue[n + i]
    <3>1. \A i \in n+1..Len(queue) : queue[i] \in Notes
      BY <1>3, ElementOfSeq
    <3> QED  BY <1>3, <3>1, SubSeqProperties
  <2> HIDE DEF cut
  <2>3. \A i \in 1..Len(cut) : cut[i] # Nil => cut[i].id \in Ids
    BY <1>3, <2>1, <2>2
  <2>4. Queued(cut) \subseteq Ids
    BY <2>3 DEF Queued
  <2> QED  BY <2>4 DEF cut
<1> HIDE DEF lost
<1>7. QueueFits'
  <2> SUFFICES ASSUME NEW i \in 1..n, queue'[i] # Nil PROVE Fits(queue[i], i)'
    BY <1>4 DEF QueueFits
  <2>1. PICK ev : ev = queue[i]
    OBVIOUS
  <2>2. queue'[i] = ev /\ Fits(ev, i)
    BY <1>3, <1>4, <2>1 DEF SyncInv, QueueFits
  <2>3. i \in 0..n
    OBVIOUS
  <2>4. Fits(ev, i)'
    BY <1>1, <1>5, <2>2, <2>3, FitsMoves
  <2> QED  BY <2>2, <2>4 DEF Fits
<1>8. HandFits'
  <2> SUFFICES ASSUME hand # Idle PROVE HandFits'
    BY <1>1 DEF HandFits
  <2>1. PICK ev : ev = hand.ev
    OBVIOUS
  <2>2. Fits(ev, 0) /\ 0 \in 0..n
    BY <2>1 DEF SyncInv, HandFits
  <2>3. Fits(ev, 0)'
    BY <1>1, <1>5, <2>2, FitsMoves
  <2>4. hand.step = "fetched" =>
          /\ ev.op # "DELETE"
          /\ hand.doc # row[ev.id] => ev.id \in missed' \/ Announced(queue', 0, ev.id)
    BY <1>1, <1>5, <2>1, <2>2 DEF SyncInv, HandFits
  <2> QED  BY <1>1, <2>1, <2>3, <2>4 DEF HandFits, Fits
<1>9. \A id \in Ids : index[id] # row[id] =>
        id \in missed' \/ Announced(queue', 0, id) \/ id \in InHand
  <2>1. 0 \in 0..n /\ missed \subseteq missed'
    BY <1>1
  <2> QED  BY <1>2, <1>5, <2>1, ListenerFacts
<1>10. InHand' = InHand /\ missed' \subseteq Ids /\ drops' \in 0..MaxDrops
  BY <1>1, <1>3, <1>6 DEF InHand, SyncInv, SyncTypeOK
<1>11. hand = Idle \/ hand \in [step : {"dispatched", "fetched"}, ev : Event, doc : 0..MaxVersion]
  BY DEF SyncInv, SyncTypeOK
<1> QED  BY <1>1, <1>2, <1>3, <1>4, <1>7, <1>8, <1>9, <1>10, <1>11, ListenerFacts, ListenerStepInv

\* The nil that pq delivers is about no row.
LEMMA ReconnectInv ==
  ASSUME SyncInv, Reconnect
  PROVE  SyncInv'
<1>1. /\ service = "listening" /\ connected' = TRUE /\ queue' = Append(queue, Nil)
      /\ UNCHANGED <<row, used, index, service, table, bulk, hand, drops, missed>>
  BY DEF Reconnect
<1>2. queue \in Seq(Notes) /\ Len(queue) \in Nat /\ Nil \in Notes
  BY <1>1, ListenerFacts DEF Notes
<1>3. /\ queue' \in Seq(Notes) /\ Len(queue') = Len(queue) + 1
      /\ queue'[Len(queue) + 1] = Nil /\ \A i \in 1..Len(queue) : queue'[i] = queue[i]
  BY <1>1, <1>2, AppendProperties
<1>4. \A i \in 0..Len(queue) : \A id : Announced(queue', i, id) <=> Announced(queue, i, id)
  BY <1>1, <1>2, AppendAnnounces
<1>5. QueueFits'
  <2> SUFFICES ASSUME NEW i \in 1..Len(queue'), queue'[i] # Nil PROVE Fits(queue[i], i)'
    BY DEF QueueFits
  <2>1. i \in 1..Len(queue) /\ i \in 0..Len(queue)
    BY <1>2, <1>3
  <2>2. PICK ev : ev = queue[i]
    OBVIOUS
  <2>3. queue'[i] = ev /\ Fits(ev, i)
    BY <1>3, <2>1, <2>2 DEF SyncInv, QueueFits
  <2>4. Fits(ev, i)'
    BY <1>1, <1>4, <2>1, <2>3, FitsMoves
  <2> QED  BY <2>3, <2>4 DEF Fits
<1>6. HandFits'
  <2>1. 0 \in 0..Len(queue)
    BY <1>2
  <2>2. \A id : Announced(queue', 0, id) <=> Announced(queue, 0, id)
    BY <1>4, <2>1
  <2> QED  BY <1>1, <2>2 DEF SyncInv, HandFits, Fits
<1>7. \A id \in Ids : index[id] # row[id] =>
        id \in missed \/ Announced(queue', 0, id) \/ id \in InHand
  <2>1. 0 \in 0..Len(queue)
    BY <1>2
  <2> QED  BY <1>1, <1>4, <2>1, ListenerFacts
<1>8. InHand' = InHand
  BY <1>1 DEF InHand
<1>9. /\ hand = Idle \/ hand \in [step : {"dispatched", "fetched"}, ev : Event, doc : 0..MaxVersion]
      /\ missed \subseteq Ids /\ drops \in 0..MaxDrops
  BY DEF SyncInv, SyncTypeOK
<1> QED  BY <1>1, <1>3, <1>5, <1>6, <1>7, <1>8, <1>9, ListenerFacts, ListenerStepInv

\* What the service held is missed when it stops.
LEMMA StopInv ==
  ASSUME SyncInv, Stop
  PROVE  SyncInv'
<1>1. /\ drops < MaxDrops /\ service' = "stopped" /\ connected' = FALSE
      /\ queue' = <<>> /\ hand' = Idle /\ bulk' = [id \in Ids |-> 0]
      /\ missed' = missed \cup Queued(queue) \cup InHand \cup InBulk
      /\ drops' = drops + 1
      /\ UNCHANGED <<row, used, index, table>>
  BY DEF Stop
<1>2. queue' \in Seq(Event \cup {Nil}) /\ Len(queue') = 0
  BY <1>1
<1>3. SyncTypeOK /\ drops' \in 0..MaxDrops
  BY <1>1 DEF SyncInv, SyncTypeOK
<1>4. missed' \subseteq Ids
  <2>1. Queued(queue) \subseteq Ids
    BY HeldFacts, EventKind DEF SyncInv, Queued
  <2>2. InHand \subseteq Ids
    BY <1>3, HeldFacts DEF InHand
  <2> QED  BY <1>1, <1>3, <2>1, <2>2 DEF InBulk, SyncTypeOK
<1>5. bulk' \in [Ids -> 0..MaxVersion] /\ \A id \in Ids : bulk'[id] = 0
  BY <1>1
<1>6. SyncTypeOK'
  BY <1>1, <1>2, <1>3, <1>4, <1>5 DEF SyncTypeOK
<1>7. RowsAreUsed' /\ ServiceFits' /\ BulkFits'
  BY <1>1, <1>5 DEF SyncInv, RowsAreUsed, ServiceFits, BulkFits, InBulk
<1>8. QueueFits' /\ HandFits'
  BY <1>1, <1>2 DEF QueueFits, HandFits
<1>9. StaleIsExplained'
  BY <1>1 DEF SyncInv, StaleIsExplained
<1> QED  BY <1>6, <1>7, <1>8, <1>9 DEF SyncInv

(***************************************************************************)
(* The theorems                                                            *)
(***************************************************************************)

LEMMA NextSyncInv == SyncInv /\ [SyncNext]_syncVars => SyncInv'
<1> SUFFICES ASSUME SyncInv, [SyncNext]_syncVars PROVE SyncInv'
  OBVIOUS
<1>1. CASE \E id \in Ids : InsertRow(id) \/ UpdateRow(id) \/ DeleteRow(id)
  BY <1>1, RowChanges
<1>2. CASE Start \/ BulkQuery \/ Listen \/ (\E id \in Ids : BulkIndex(id) \/ BulkIndexFails(id))
  BY <1>2, BulkInv
<1>3. CASE SkipNil \/ Dispatch
  BY <1>3, DequeueInv
<1>4. CASE Fetch \/ WriteDoc \/ DeleteDoc \/ HandleFails
  BY <1>4, HandleInv
<1>5. CASE \E n \in 0..Len(queue) : LoseConnection(n)
  BY <1>5, LoseConnectionInv
<1>6. CASE Reconnect
  BY <1>6, ReconnectInv
<1>7. CASE Stop
  BY <1>7, StopInv
<1>8. CASE UNCHANGED syncVars
  BY <1>8 DEF syncVars, SyncInv, SyncTypeOK, RowsAreUsed, ServiceFits, QueueFits, HandFits,
              BulkFits, StaleIsExplained, Fits, InBulk, InHand
<1> QED  BY <1>1, <1>2, <1>3, <1>4, <1>5, <1>6, <1>7, <1>8 DEF SyncNext, Work

LEMMA SpecSyncInv == SyncSpec => []SyncInv
BY InitSyncInv, NextSyncInv, PTL DEF SyncSpec

\* Rows, documents, notifications and the steps of the service keep their types.
THEOREM SpecSyncTypeOK == SyncSpec => []SyncTypeOK
<1>1. SyncInv => SyncTypeOK
  BY DEF SyncInv
<1> QED  BY <1>1, SpecSyncInv, PTL

\* Whatever the order of changes, fetches, writes and losses, a document that differs
\* from its row has a notification still to be handled, or a change that was missed
\* (indexer.go:56-128, 226-252).
THEOREM SpecStaleIsExplained == SyncSpec => []StaleIsExplained
<1>1. SyncInv => StaleIsExplained
  BY DEF SyncInv
<1> QED  BY <1>1, SpecSyncInv, PTL

\* What the handler is about to write is the row as it is, unless the change it has
\* not seen is waiting in the queue or was missed: a write never undoes a newer one
\* for good (indexer.go:226-252).
THEOREM SpecHandFits == SyncSpec => []HandFits
<1>1. SyncInv => HandFits
  BY DEF SyncInv
<1> QED  BY <1>1, SpecSyncInv, PTL
=============================================================================
