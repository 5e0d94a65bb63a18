--------------------------- MODULE DeliveryWorker ---------------------------
(***************************************************************************)
(* The webhook service (services/webhook, the singular one): an event is   *)
(* queued once for every endpoint that wants it, and the worker of each    *)
(* running process polls the queue, posts what is due and marks the row by *)
(* its id, whatever the row has become since it was read.                  *)
(*                                                                         *)
(* Abstracted: one event and one organisation; an endpoint's URL, secret   *)
(* and signature; the backoff, by a row being due again at any later time. *)
(* A queue is the Store of production or, as in the worker's tests, one    *)
(* that finds an endpoint without its organisation.                        *)
(***************************************************************************)
EXTENDS Naturals, Sequences, FiniteSets, SequencesExt

CONSTANTS Hooks,        \* endpoints; the delivery to one is known by it
          Workers,      \* worker loops, one per running process
          MaxAttempts,  \* len(RetryDelays)
          BatchSize,
          MaxAccepted   \* bound: copies of one delivery an endpoint accepts

\* domain.RetryDelays has three entries, and worker.go a batchSize of 50.
ASSUME WorkerAssumption == /\ IsFiniteSet(Hooks)
                           /\ MaxAttempts \in Nat
                           /\ BatchSize \in Nat \ {0}

VARIABLES queue,        \* "store" or "by_id": how an endpoint is fetched
          hooks,        \* endpoints there are, with whether they are enabled
          rows,         \* webhook_deliveries, one row per endpoint or NoDelivery
          worker,       \* what each loop is doing: phase, batch and outcome
          posts         \* of each delivery: whether it was sent, how often it
                        \* was accepted, and what makes a second copy possible

workerVars == <<queue, hooks, rows, worker, posts>>

NoDelivery == [status |-> "none", attempts |-> 0, due |-> FALSE]
Waiting    == [phase |-> "idle", batch |-> <<>>]
Unsent     == [sent |-> FALSE, accepted |-> 0, shared |-> FALSE, unmarked |-> FALSE]

WorkerInit ==
  /\ queue \in {"store", "by_id"}
  /\ hooks = [h \in Hooks |-> "enabled"]
  /\ rows = [h \in Hooks |-> NoDelivery]
  /\ worker = [w \in Workers |-> Waiting]
  /\ posts = [h \in Hooks |-> Unsent]

(***************************************************************************)
(* Handlers                                                                *)
(***************************************************************************)

\* DispatchEvent: an endpoint whose insert fails is skipped and the answer is
\* still 202.  Bound: one event.
DispatchEvent(queued) ==
  /\ \A h \in Hooks : rows[h] = NoDelivery
  /\ queued \subseteq {h \in Hooks : hooks[h] = "enabled"}
  /\ queued # {}
  /\ rows' = [h \in Hooks |-> IF h \in queued
                              THEN [status |-> "pending", attempts |-> 0, due |-> TRUE]
                              ELSE NoDelivery]
  /\ UNCHANGED <<queue, hooks, worker, posts>>

\* CreateEndpoint takes the flag from the request; deliveries already queued for
\* an endpoint that is deleted stay in the queue.
DeleteEndpoint(h) ==
  /\ hooks[h] # "deleted"
  /\ hooks' = [hooks EXCEPT ![h] = "deleted"]
  /\ UNCHANGED <<queue, rows, worker, posts>>

(***************************************************************************)
(* The worker                                                              *)
(***************************************************************************)

\* The time of the next retry comes.
RetryComes(h) == /\ rows[h].status = "failed" /\ ~rows[h].due
                 /\ rows' = [rows EXCEPT ![h].due = TRUE]
                 /\ UNCHANGED <<queue, hooks, worker, posts>>

\* Mutant: rows are picked whatever their status.
Due_AnyStatus == {h \in Hooks : rows[h].due}

Due == {h \in Hooks : rows[h].status \in {"pending", "failed"} /\ rows[h].due}

Held(h) == \E w \in Workers : \E i \in 1..Len(worker[w].batch) : worker[w].batch[i].hook = h

\* processBatch reads the due rows; FOR UPDATE locks them only while the query
\* runs, so the loop of another process reads them too.
DuePendingDeliveries(w) ==
  /\ worker[w] = Waiting /\ Due # {}
  /\ \E s \in SetToSeqs(Due) :
       LET batch == SubSeq(s, 1, IF Len(s) < BatchSize THEN Len(s) ELSE BatchSize)
       IN  /\ worker' = [worker EXCEPT ![w] =
                           [phase |-> "posting",
                            batch |-> [i \in DOMAIN batch |->
                                         [hook |-> batch[i], attempts |-> rows[batch[i]].attempts]]]]
           /\ posts' = [h \in Hooks |-> IF h \in Range(batch) /\ Held(h)
                                        THEN [posts[h] EXCEPT !.shared = TRUE] ELSE posts[h]]
  /\ UNCHANGED <<queue, hooks, rows>>

\* fetchEndpoint: the Store compares the organisation too, and the worker gives
\* none, so it finds nothing.
Found(h) == queue = "by_id" /\ hooks[h] # "deleted"

\* deliver, up to the answer: the endpoint accepts and says so, accepts and is
\* not heard, or does not accept; without an endpoint nothing is sent.
Deliver(w) ==
  /\ worker[w].phase = "posting"
  /\ LET h == Head(worker[w].batch).hook
         Answer(outcome) == worker' = [worker EXCEPT ![w].phase = outcome]
     IN  \/ /\ Found(h) /\ posts[h].accepted < MaxAccepted
            /\ \/ /\ Answer("accepted")
                  /\ posts' = [posts EXCEPT ![h].sent = TRUE, ![h].accepted = @ + 1]
               \/ /\ Answer("refused")
                  /\ posts' = [posts EXCEPT ![h].sent = TRUE, ![h].accepted = @ + 1,
                                            ![h].unmarked = TRUE]
         \/ /\ Answer("refused")
            /\ posts' = [posts EXCEPT ![h].sent = @ \/ Found(h)]
  /\ UNCHANGED <<queue, hooks, rows>>

\* Mutant: the attempt under way is counted before the comparison, twice.
MarkFailed_Early(row, attempts) ==
  [status |-> IF attempts + 1 >= MaxAttempts THEN "dead_lettered" ELSE "failed",
   attempts |-> row.attempts + 1, due |-> attempts + 1 >= MaxAttempts /\ row.due]

\* MarkFailed compares the attempts the worker read, and adds one to the row's;
\* next_retry_at is set for a row that is tried again only.
MarkFailed(row, attempts) ==
  [status |-> IF attempts >= MaxAttempts THEN "dead_lettered" ELSE "failed",
   attempts |-> row.attempts + 1, due |-> attempts >= MaxAttempts /\ row.due]

MarkDelivered(row) == [row EXCEPT !.status = "delivered", !.attempts = @ + 1]

\* The batch goes on with the next delivery.
AfterHead(w) == LET rest == Tail(worker[w].batch)
                IN  worker' = [worker EXCEPT ![w] =
                      IF rest = <<>> THEN Waiting ELSE [phase |-> "posting", batch |-> rest]]

Mark(w) ==
  /\ worker[w].phase \in {"accepted", "refused"}
  /\ LET d == Head(worker[w].batch)
     IN  rows' = [rows EXCEPT ![d.hook] = IF worker[w].phase = "accepted"
                                          THEN MarkDelivered(@) ELSE MarkFailed(@, d.attempts)]
  /\ AfterHead(w)
  /\ UNCHANGED <<queue, hooks, posts>>

\* The UPDATE fails; deliver drops the error.
MarkIsLost(w) ==
  /\ worker[w].phase \in {"accepted", "refused"}
  /\ posts' = [posts EXCEPT ![Head(worker[w].batch).hook].unmarked = TRUE]
  /\ AfterHead(w)
  /\ UNCHANGED <<queue, hooks, rows>>

\* The process stops, with a POST sent or not; another takes its place.
StopWorker(w) ==
  /\ worker[w] # Waiting
  /\ worker' = [worker EXCEPT ![w] = Waiting]
  /\ posts' = [posts EXCEPT ![Head(worker[w].batch).hook].unmarked =
                              @ \/ worker[w].phase # "posting"]
  /\ UNCHANGED <<queue, hooks, rows>>

WorkerNext ==
  \/ \E queued \in SUBSET Hooks : DispatchEvent(queued)
  \/ \E h \in Hooks : DeleteEndpoint(h) \/ RetryComes(h)
  \/ \E w \in Workers : \/ DuePendingDeliveries(w) \/ Deliver(w) \/ Mark(w)
                        \/ MarkIsLost(w) \/ StopWorker(w)

WorkerSpec == WorkerInit /\ [][WorkerNext]_workerVars

\* The deployed worker: main gives it a Store as its queue.
StoreSpec == WorkerInit /\ queue = "store" /\ [][WorkerNext]_workerVars

(***************************************************************************)
(* Properties                                                              *)
(***************************************************************************)

\* An endpoint accepts one delivery twice only when two processes read its row
\* together, an answer was not heard, or a mark was not written
\* (DuePendingDeliveries, store.go:141-166; deliver, worker.go:73-122).
SecondCopyIsExplained ==
  \A h \in Hooks : posts[h].accepted > 1 => posts[h].shared \/ posts[h].unmarked

\* A delivery is given up only when MaxAttempts + 1 attempts were recorded in its
\* row, however the worker loops overlap (MarkFailed, store.go:180-202).
GivenUpAfterAllAttempts ==
  \A h \in Hooks : rows[h].status = "dead_lettered" => rows[h].attempts > MaxAttempts

\* A row marked delivered stays so, except by the late mark of a second process
\* that read the row with the first (MarkDelivered and MarkFailed update by id).
DeliveredIsKept ==
  [][\A h \in Hooks : rows[h].status = "delivered" /\ rows'[h].status # "delivered"
                      => posts[h].shared]_rows

\* The worker "polls for due deliveries every second, calls the target URL"
\* (worker.go:2-3): no delivery to an endpoint that is there is given up before
\* it was sent.
SentBeforeGivenUp ==
  \A h \in Hooks : rows[h].status = "dead_lettered" /\ hooks[h] # "deleted" => posts[h].sent

\* However the loops of several processes overlap, a second copy and a delivery
\* given up have their reasons, and a delivered row stays delivered but for them
\* (worker.go:73-122, store.go:141-202).
DeliveriesAreExplained ==
  [](SecondCopyIsExplained /\ GivenUpAfterAllAttempts) /\ DeliveredIsKept
=============================================================================
