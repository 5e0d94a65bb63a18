----------------------------- MODULE AuditTrail -----------------------------
(***************************************************************************)
(* The hash-chained audit log (services/audit-trail): AppendEvent reads    *)
(* the head of the organisation's chain, computes the new hash and inserts *)
(* the row, each in a statement of its own; VerifyChain recomputes the     *)
(* chain from what is stored.                                              *)
(*                                                                         *)
(* The hash function is taken to be free of collisions, so a hash is the   *)
(* sequence of the payloads it was computed from.  A row gets its id when  *)
(* it is inserted and is visible once its transaction commits, so rows may *)
(* become visible out of order.                                            *)
(*                                                                         *)
(* Abstracted: the payload is the organisation, the event type and the     *)
(* part of the timestamp below a microsecond; the other hashed fields are  *)
(* stored as they are.                                                     *)
(***************************************************************************)
EXTENDS Naturals, Sequences

CONSTANTS Orgs,         \* organisations
          Types,        \* the event types validEventType admits
          Appenders,    \* POST /events requests being served
          MaxEvents     \* bound on the rows inserted

ASSUME AuditAssumption == MaxEvents \in Nat /\ "" \notin Types

VARIABLES table,        \* audit_events by id; rows of open or failed
                        \* transactions are there but not visible
          appender      \* appender[a]: what request a is doing

vars == <<table, appender>>

Event   == [org : Orgs, type : Types, nanos : {0, 1}]
Genesis == <<>>
Idle    == [phase |-> "idle"]

Init == /\ table = <<>>
        /\ appender = [a \in Appenders |-> Idle]

(***************************************************************************)
(* internal/hashchain                                                      *)
(***************************************************************************)

Compute(previousHash, event) == Append(previousHash, event)

\* What ScanEvent reads back: no column holds the event type, and TIMESTAMPTZ
\* keeps microseconds.
Stored(event) == [event EXCEPT !.type = "", !.nanos = 0]

(***************************************************************************)
(* internal/store                                                          *)
(***************************************************************************)

Visible(org) == {i \in 1..Len(table) : table[i].visible /\ table[i].org = org}

\* Mutant: the head of the chain is looked for without WHERE org_id.
Heads_AnyOrg(org) ==
  {i \in 1..Len(table) : /\ table[i].visible
                         /\ \A j \in 1..Len(table) : table[j].visible => j <= i}

\* ORDER BY id DESC LIMIT 1: the last visible row, if there is one.
Heads(org) == {i \in Visible(org) : \A j \in Visible(org) : j <= i}

\* The only hash in this set is the one GetLastHash returns.
GetLastHash(org) == IF Visible(org) = {} THEN {Genesis}
                    ELSE {table[i].event_hash : i \in Heads(org)}

\* AppendEvent up to the call of Append: the head is read and the hash computed.
AppendEvent(a, event) ==
  \E previous \in GetLastHash(event.org) :
    /\ appender[a] = Idle
    /\ appender' = [appender EXCEPT ![a] =
         [phase |-> "hashed", event |-> event, previous_hash |-> previous,
          event_hash |-> Compute(previous, event)]]
    /\ UNCHANGED table

\* Mutant: the id is guessed before the row is inserted.
Insert_NextId(a) ==
  /\ appender[a].phase = "hashed"
  /\ Len(table) < MaxEvents
  /\ table' = Append(table,
       [org |-> appender[a].event.org, event |-> appender[a].event,
        previous_hash |-> appender[a].previous_hash,
        event_hash |-> appender[a].event_hash, visible |-> FALSE])
  /\ appender' = [appender EXCEPT ![a] = [phase |-> "inserted", id |-> Len(table) + 2]]

\* Append's INSERT.  The transaction is serializable but reads nothing, so no
\* other append conflicts with it.
Insert(a) ==
  /\ appender[a].phase = "hashed"
  /\ Len(table) < MaxEvents
  /\ table' = Append(table,
       [org |-> appender[a].event.org, event |-> appender[a].event,
        previous_hash |-> appender[a].previous_hash,
        event_hash |-> appender[a].event_hash, visible |-> FALSE])
  /\ appender' = [appender EXCEPT ![a] = [phase |-> "inserted", id |-> Len(table) + 1]]

\* The transaction commits: 201.
Commit(a) ==
  /\ appender[a].phase = "inserted"
  /\ table' = [table EXCEPT ![appender[a].id].visible = TRUE]
  /\ appender' = [appender EXCEPT ![a] = Idle]

\* An error or the request's deadline: 500.  A row already inserted is rolled
\* back, and its id is not used again.
Fail(a) ==
  /\ appender[a] # Idle
  /\ appender' = [appender EXCEPT ![a] = Idle]
  /\ UNCHANGED table

Next == \E a \in Appenders : \/ \E event \in Event : AppendEvent(a, event)
                             \/ Insert(a) \/ Commit(a) \/ Fail(a)

Spec == Init /\ [][Next]_vars

(***************************************************************************)
(* internal/handler: VerifyChain                                           *)
(***************************************************************************)

\* AllEventsForOrg: the visible rows of an organisation by id.
Chain(org) == SelectSeq(table, LAMBDA row : row.visible /\ row.org = org)

\* The hash the i-th row is expected to follow.
Expected(chain, i) == IF i = 1 THEN Genesis ELSE chain[i-1].event_hash

\* Verify, for one row.
Verify(row, expectedPrevious) ==
  /\ row.previous_hash = expectedPrevious
  /\ Compute(expectedPrevious, Stored(row.event)) = row.event_hash

\* VerifyChain's verdict.
Valid(org) == LET chain == Chain(org)
              IN  \A i \in 1..Len(chain) : Verify(chain[i], Expected(chain, i))

(***************************************************************************)
(* Properties                                                              *)
(***************************************************************************)

Hashes == Seq(Event)

\* Rows and requests keep their types, and a row inserted by a request is there.
Row == [org : Orgs, event : Event, previous_hash : Hashes, event_hash : Hashes,
        visible : BOOLEAN]
TypeOK ==
  /\ table \in Seq(Row)
  /\ appender \in [Appenders ->
       {Idle} \cup [phase : {"inserted"}, id : 1..Len(table)]
              \cup [phase : {"hashed"}, event : Event, previous_hash : Hashes,
                    event_hash : Hashes]]

\* However appends interleave, fail and commit out of order, the row with id i
\* starts its organisation's chain or extends an earlier, committed row of the
\* same organisation: the log is a tree per organisation, without dangling
\* links (AppendEvent, handler.go:81-95; Append, store.go:37-116).
LinksPointBack ==
  \A i \in 1..Len(table) :
    LET row == table[i]
    IN  /\ row.event_hash = Compute(row.previous_hash, row.event)
        /\ \/ row.previous_hash = Genesis
           \/ \E j \in 1..(i-1) : /\ table[j].visible /\ table[j].org = row.org
                                  /\ table[j].event_hash = row.previous_hash

\* "This guarantees that concurrent appends do not create forks in the chain"
\* (store.go:31-32): each event follows the one before it.
Unforked == \A org \in Orgs : LET chain == Chain(org)
                              IN  \A i \in 1..Len(chain) :
                                     chain[i].previous_hash = Expected(chain, i)
=============================================================================
