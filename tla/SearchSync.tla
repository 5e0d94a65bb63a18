----------------------------- MODULE SearchSync -----------------------------
(***************************************************************************)
(* The search service (services/search): a bulk reindex at startup, then a *)
(* PostgreSQL listener whose notifications are handled one at a time by    *)
(* fetching the row and writing or deleting its OpenSearch document.       *)
(*                                                                         *)
(* Rows change at any time; the trigger of                                 *)
(* db/migrations/004_search_notifications.sql sends the operation and the  *)
(* row's id.  The listener's connection may be lost, which loses what was  *)
(* not delivered yet; pq reconnects and delivers a nil notification.  The  *)
(* service may stop and start again, and a call to OpenSearch may fail.    *)
(*                                                                         *)
(* Abstracted: the contents of rows and documents (a version stands for    *)
(* them), malformed payloads, pings, and the waits before a start.         *)
(***************************************************************************)
EXTENDS Naturals, Sequences

CONSTANTS Tables,       \* the tables in the order BulkReindex reads them
          MaxVersion,   \* bound on the versions of a row
          MaxDrops      \* bound on lost connections and on stops of the service

ASSUME TablesAssumption ==
  Tables \in Seq(SUBSET UNION {Tables[t] : t \in 1..Len(Tables)})
ASSUME VersionsAssumption == MaxVersion \in Nat \ {0} /\ MaxDrops \in Nat

Ids == UNION {Tables[t] : t \in 1..Len(Tables)}

VARIABLES row,          \* row[id]: the version in PostgreSQL, 0 for no row
          used,         \* ids inserted so far: ids are never reused
          index,        \* index[id]: the version indexed, 0 for no document
          service,      \* "stopped", "bulk" or "listening"
          table,        \* the table the bulk reindex reads next or indexes
          bulk,         \* bulk[id]: the version read of a row still to be indexed
          connected,    \* whether the listener's connection is up
          queue,        \* notifications sent and not handled yet
          hand,         \* the event in hand and, once it is fetched, its row
          drops,        \* connections lost and stops so far
          missed        \* ids with a change that no one was told of in full

syncVars == <<row, used, index, service, table, bulk, connected, queue, hand, drops, missed>>

Event == [op : {"INSERT", "UPDATE", "DELETE"}, id : Ids]
Nil   == [op |-> "nil"]      \* what pq delivers after it has reconnected
Idle  == [step |-> "idle"]

SyncInit == /\ row = [id \in Ids |-> 0]
            /\ used = {}
            /\ index = [id \in Ids |-> 0]
            /\ service = "stopped"
            /\ table = 1
            /\ bulk = [id \in Ids |-> 0]
            /\ connected = FALSE
            /\ queue = <<>>
            /\ hand = Idle
            /\ drops = 0
            /\ missed = {}

Queued(q) == {q[i].id : i \in {j \in 1..Len(q) : q[j] # Nil}}
InHand    == IF hand = Idle THEN {} ELSE {hand.ev.id}
InBulk    == {id \in Ids : bulk[id] # 0}

(***************************************************************************)
(* Rows change (external), and the trigger notifies.                       *)
(***************************************************************************)

\* A notification reaches a connection that listens, and no other.
NotifyChange(op, id) ==
  IF connected
  THEN queue' = Append(queue, [op |-> op, id |-> id]) /\ UNCHANGED missed
  ELSE missed' = missed \cup {id} /\ UNCHANGED queue

InsertRow(id) ==
  /\ id \notin used
  /\ row' = [row EXCEPT ![id] = 1] /\ used' = used \cup {id}
  /\ NotifyChange("INSERT", id)
  /\ UNCHANGED <<index, service, table, bulk, connected, hand, drops>>

UpdateRow(id) ==
  /\ row[id] \in 1..MaxVersion-1
  /\ row' = [row EXCEPT ![id] = @ + 1]
  /\ NotifyChange("UPDATE", id)
  /\ UNCHANGED <<used, index, service, table, bulk, connected, hand, drops>>

DeleteRow(id) ==
  /\ row[id] # 0
  /\ row' = [row EXCEPT ![id] = 0]
  /\ NotifyChange("DELETE", id)
  /\ UNCHANGED <<used, index, service, table, bulk, connected, hand, drops>>

(***************************************************************************)
(* cmd/api/main.go and internal/indexer: the bulk reindex                  *)
(***************************************************************************)

Start ==
  /\ service = "stopped"
  /\ service' = "bulk" /\ table' = 1
  /\ UNCHANGED <<row, used, index, bulk, connected, queue, hand, drops, missed>>

\* Mutant: a document is written only when there is none.
IndexDoc_Once(id, doc) == index' = [index EXCEPT ![id] = IF @ = 0 THEN doc ELSE @]

IndexDoc(id, doc) == index' = [index EXCEPT ![id] = doc]

\* The query of one table: its rows as they are now.  A document whose row is
\* gone is not looked at.
BulkQuery ==
  /\ service = "bulk" /\ table <= Len(Tables) /\ InBulk = {}
  /\ LET read == {id \in Tables[table] : row[id] # 0}
     IN  /\ bulk' = [id \in Ids |-> IF id \in read THEN row[id] ELSE 0]
         /\ missed' = missed \ read
  /\ table' = table + 1
  /\ UNCHANGED <<row, used, index, service, connected, queue, hand, drops>>

\* One row read is indexed.
BulkIndex(id) ==
  /\ service = "bulk" /\ bulk[id] # 0
  /\ IndexDoc(id, bulk[id])
  /\ bulk' = [bulk EXCEPT ![id] = 0]
  /\ UNCHANGED <<row, used, service, table, connected, queue, hand, drops, missed>>

\* The failure is logged; OpenSearch may have done what it was asked.
BulkIndexFails(id) ==
  /\ service = "bulk" /\ bulk[id] # 0
  /\ UNCHANGED index \/ IndexDoc(id, bulk[id])
  /\ bulk' = [bulk EXCEPT ![id] = 0]
  /\ missed' = missed \cup {id}
  /\ UNCHANGED <<row, used, service, table, connected, queue, hand, drops>>

\* The tables are done, or a query failed, which is only a warning: LISTEN.
Listen ==
  /\ service = "bulk" /\ InBulk = {}
  /\ service' = "listening" /\ connected' = TRUE
  /\ UNCHANGED <<row, used, index, table, bulk, queue, hand, drops, missed>>

(***************************************************************************)
(* internal/cdc and HandleEvent                                            *)
(***************************************************************************)

\* Mutant: the nil notification ends the loop, and main takes that for a shutdown.
SkipNil_EndsLoop ==
  /\ service = "listening" /\ hand = Idle /\ queue # <<>> /\ Head(queue) = Nil
  /\ service' = "ended"
  /\ UNCHANGED <<row, used, index, table, bulk, connected, queue, hand, drops, missed>>

\* The next notification; the nil after a reconnection is skipped.
SkipNil ==
  /\ service = "listening" /\ hand = Idle /\ queue # <<>> /\ Head(queue) = Nil
  /\ queue' = Tail(queue)
  /\ UNCHANGED <<row, used, index, service, table, bulk, connected, hand, drops, missed>>

\* Mutant: the nil notification is dispatched like the others.
Dispatch_Nil ==
  /\ service = "listening" /\ hand = Idle /\ queue # <<>>
  /\ hand' = [step |-> "dispatched", ev |-> Head(queue), doc |-> 0]
  /\ queue' = Tail(queue)
  /\ UNCHANGED <<row, used, index, service, table, bulk, connected, drops, missed>>

Dispatch ==
  /\ service = "listening" /\ hand = Idle /\ queue # <<>> /\ Head(queue) # Nil
  /\ hand' = [step |-> "dispatched", ev |-> Head(queue), doc |-> 0]
  /\ queue' = Tail(queue)
  /\ UNCHANGED <<row, used, index, service, table, bulk, connected, drops, missed>>

\* The row is fetched, unless it is to be deleted; a row that is gone is skipped.
Fetch ==
  /\ hand # Idle /\ hand.step = "dispatched" /\ hand.ev.op # "DELETE"
  /\ IF row[hand.ev.id] = 0
     THEN hand' = Idle /\ UNCHANGED missed
     ELSE /\ hand' = [hand EXCEPT !.step = "fetched", !.doc = row[hand.ev.id]]
          /\ missed' = missed \ {hand.ev.id}
  /\ UNCHANGED <<row, used, index, service, table, bulk, connected, queue, drops>>

WriteDoc ==
  /\ hand # Idle /\ hand.step = "fetched"
  /\ IndexDoc(hand.ev.id, hand.doc)
  /\ hand' = Idle
  /\ UNCHANGED <<row, used, service, table, bulk, connected, queue, drops, missed>>

DeleteDoc ==
  /\ hand # Idle /\ hand.ev.op = "DELETE"
  /\ IndexDoc(hand.ev.id, 0)
  /\ hand' = Idle
  /\ missed' = missed \ {hand.ev.id}
  /\ UNCHANGED <<row, used, service, table, bulk, connected, queue, drops>>

\* PostgreSQL or OpenSearch answers with an error or not in time, which is logged;
\* OpenSearch may have done what it was asked.
HandleFails ==
  /\ hand # Idle
  /\ \/ UNCHANGED index
     \/ (hand.step = "fetched" \/ hand.ev.op = "DELETE") /\ IndexDoc(hand.ev.id, hand.doc)
  /\ hand' = Idle
  /\ missed' = missed \cup {hand.ev.id}
  /\ UNCHANGED <<row, used, service, table, bulk, connected, queue, drops>>

(***************************************************************************)
(* Losses                                                                  *)
(***************************************************************************)

\* The connection is lost with the notifications that were under way.
LoseConnection(n) ==
  /\ connected /\ drops < MaxDrops /\ n \in 0..Len(queue)
  /\ connected' = FALSE
  /\ queue' = SubSeq(queue, 1, n)
  /\ missed' = missed \cup Queued(SubSeq(queue, n + 1, Len(queue)))
  /\ drops' = drops + 1
  /\ UNCHANGED <<row, used, index, service, table, bulk, hand>>

\* pq reconnects and listens again on its own.
Reconnect ==
  /\ service = "listening" /\ ~connected
  /\ connected' = TRUE
  /\ queue' = Append(queue, Nil)
  /\ UNCHANGED <<row, used, index, service, table, bulk, hand, drops, missed>>

\* The service stops, in the middle of whatever it does.
Stop ==
  /\ service # "stopped" /\ drops < MaxDrops
  /\ service' = "stopped" /\ connected' = FALSE
  /\ queue' = <<>> /\ hand' = Idle /\ bulk' = [id \in Ids |-> 0]
  /\ missed' = missed \cup Queued(queue) \cup InHand \cup InBulk
  /\ drops' = drops + 1
  /\ UNCHANGED <<row, used, index, table>>

Work == \/ Start \/ BulkQuery \/ Listen \/ SkipNil \/ Dispatch \/ Reconnect
        \/ Fetch \/ WriteDoc \/ DeleteDoc
        \/ \E id \in Ids : BulkIndex(id)

SyncNext == \/ Work
            \/ \E id \in Ids : InsertRow(id) \/ UpdateRow(id) \/ DeleteRow(id) \/ BulkIndexFails(id)
            \/ HandleFails \/ Stop
            \/ \E n \in 0..Len(queue) : LoseConnection(n)

SyncSpec     == SyncInit /\ [][SyncNext]_syncVars
SyncFairness == WF_syncVars(Work)
SyncFairSpec == SyncSpec /\ SyncFairness

(***************************************************************************)
(* Properties                                                              *)
(***************************************************************************)

\* Rows, documents, notifications and the service's steps keep their types.
SyncTypeOK == /\ row \in [Ids -> 0..MaxVersion] /\ index \in [Ids -> 0..MaxVersion]
              /\ bulk \in [Ids -> 0..MaxVersion]
              /\ used \subseteq Ids /\ missed \subseteq Ids
              /\ service \in {"stopped", "bulk", "listening"}
              /\ table \in 1..Len(Tables)+1 /\ connected \in BOOLEAN
              /\ queue \in Seq(Event \cup {Nil})
              /\ hand \in {Idle} \cup [step : {"dispatched", "fetched"}, ev : Event, doc : 0..MaxVersion]
              /\ drops \in 0..MaxDrops

\* Whatever the order of changes, fetches and writes to OpenSearch, a document
\* that differs from its row is one for which a notification is still to be
\* handled, or one whose change was missed: made while no connection listened,
\* lost with one, or not indexed because of an error (indexer.go:56-128, 226-252).
StaleIsExplained ==
  \A id \in Ids : index[id] # row[id] => id \in missed \cup Queued(queue) \cup InHand \cup InBulk

\* A row none of whose changes is missed any more ends up indexed as it is: the
\* handler gets to every notification, also after a reconnection or a restart.
Converges == \A id \in Ids : <>[](id \notin missed) => <>[](index[id] = row[id])
=============================================================================
