---------------------------- MODULE StoresProofs ----------------------------
(***************************************************************************)
(* Proofs about services whose rows and keys several requests race for:    *)
(* the audit trail, for any organisations, event types and any number of   *)
(* concurrent appends; the sessions of the identity service, for any       *)
(* users, tokens and requests; the webhook deliveries, for any number of   *)
(* endpoints and of workers; and controls with their assessments, for any  *)
(* controls, page size and calls.                                          *)
(***************************************************************************)
EXTENDS AuditTrail, Sessions, DeliveryWorker, ControlFramework, FiniteSetTheorems,
        SequenceTheorems, TLAPS

(***************************************************************************)
(* The audit trail (AuditTrail)                                            *)
(***************************************************************************)

\* h is where an append to org may start: the chain's origin or the hash of a
\* committed row of the organisation.
Anchored(h, org) ==
  \/ h = Genesis
  \/ \E j \in 1..Len(table) : /\ table[j].visible /\ table[j].org = org
                              /\ table[j].event_hash = h

\* What a request has computed, and what it will insert, is anchored.  Rows are
\* never changed or removed, so it stays anchored until the INSERT, which puts
\* it behind every row it may be anchored to.
HashedIsAnchored ==
  \A a \in Appenders :
    appender[a].phase = "hashed" =>
      /\ appender[a].event_hash = Compute(appender[a].previous_hash, appender[a].event)
      /\ Anchored(appender[a].previous_hash, appender[a].event.org)

AuditTrailInv == TypeOK /\ LinksPointBack /\ HashedIsAnchored

LEMMA InitAuditTrailInv == Init => AuditTrailInv
  BY DEF Init, AuditTrailInv, TypeOK, LinksPointBack, HashedIsAnchored, Idle, Row, Hashes

\* The phases a request goes through.
HashedRequest == [phase : {"hashed"}, event : Event, previous_hash : Hashes,
                  event_hash : Hashes]

\* What an append starts from is anchored.
LEMMA HeadAnchored ==
  ASSUME TypeOK, NEW org \in Orgs, NEW h \in GetLastHash(org)
  PROVE  Anchored(h, org) /\ h \in Hashes
<1>1. CASE Visible(org) = {}
  <2>1. h = Genesis /\ Genesis \in Hashes
    BY <1>1 DEF GetLastHash, Genesis, Hashes
  <2>2. QED
    BY <2>1 DEF Anchored
<1>2. CASE Visible(org) # {}
  <2>1. PICK i \in Heads(org) : h = table[i].event_hash
    BY <1>2 DEF GetLastHash
  <2>2. i \in 1..Len(table) /\ table[i].visible /\ table[i].org = org
    BY DEF Heads, Visible
  <2>3. table[i] \in Row
    BY <2>2 DEF TypeOK
  <2>4. QED
    BY <2>1, <2>2, <2>3 DEF Anchored, Row
<1>3. QED
  BY <1>1, <1>2

\* A request about to insert.
LEMMA HashedType ==
  ASSUME TypeOK, NEW a \in Appenders, appender[a].phase = "hashed"
  PROVE  appender[a] \in HashedRequest
  BY DEF TypeOK, Idle, HashedRequest

\* The row it inserts.
LEMMA InsertedRow ==
  ASSUME TypeOK, NEW a \in Appenders, Insert(a)
  PROVE  \E w \in HashedRequest, r \in Row :
           /\ w = appender[a]
           /\ r = [org |-> w.event.org, event |-> w.event,
                   previous_hash |-> w.previous_hash,
                   event_hash |-> w.event_hash, visible |-> FALSE]
           /\ table' = Append(table, r)
<1>1. PICK w \in HashedRequest : w = appender[a]
  BY HashedType DEF Insert
<1>2. w.event \in Event /\ w.previous_hash \in Hashes /\ w.event_hash \in Hashes
  BY DEF HashedRequest
<1>3. w.event.org \in Orgs
  BY <1>2 DEF Event
<1>4. [org |-> w.event.org, event |-> w.event, previous_hash |-> w.previous_hash,
       event_hash |-> w.event_hash, visible |-> FALSE] \in Row
  BY <1>2, <1>3 DEF Row
<1>5. QED
  BY <1>1, <1>4 DEF Insert

\* A commit makes a row visible and changes nothing else.
LEMMA CommittedRow ==
  ASSUME TypeOK, NEW a \in Appenders, Commit(a)
  PROVE  \E i \in 1..Len(table) :
           table' = [table EXCEPT ![i] = [table[i] EXCEPT !.visible = TRUE]]
<1>1. appender[a] \in [phase : {"inserted"}, id : 1..Len(table)]
  BY DEF TypeOK, Idle, Commit
<1>2. appender[a].id \in 1..Len(table)
  BY <1>1
<1>3. QED
  BY <1>2 DEF Commit

LEMMA NextTypeOK == TypeOK /\ [Next]_vars => TypeOK'
<1> SUFFICES ASSUME TypeOK, [Next]_vars PROVE TypeOK'
  OBVIOUS
<1>1. ASSUME NEW a \in Appenders, NEW event \in Event, AppendEvent(a, event)
      PROVE  TypeOK'
  <2>1. PICK previous \in GetLastHash(event.org) :
          /\ appender' = [appender EXCEPT ![a] =
               [phase |-> "hashed", event |-> event, previous_hash |-> previous,
                event_hash |-> Compute(previous, event)]]
          /\ table' = table
    BY <1>1 DEF AppendEvent
  <2>2. previous \in Hashes
    BY <2>1, HeadAnchored DEF Event
  <2>3. Compute(previous, event) \in Hashes
    BY <2>2 DEF Compute, Hashes
  <2>4. PICK w \in HashedRequest :
          w = [phase |-> "hashed", event |-> event, previous_hash |-> previous,
               event_hash |-> Compute(previous, event)]
    BY <2>2, <2>3 DEF HashedRequest
  <2>5. QED
    BY <2>1, <2>4 DEF TypeOK, HashedRequest
<1>2. ASSUME NEW a \in Appenders, Insert(a) PROVE TypeOK'
  <2>1. PICK r \in Row : table' = Append(table, r)
    BY <1>2, InsertedRow
  <2>2. table' \in Seq(Row) /\ Len(table') = Len(table) + 1 /\ Len(table) \in Nat
    BY <2>1 DEF TypeOK
  <2>3. QED
    BY <1>2, <2>2 DEF Insert, TypeOK
<1>3. ASSUME NEW a \in Appenders, Commit(a) PROVE TypeOK'
  <2>1. PICK i \in 1..Len(table) :
          table' = [table EXCEPT ![i] = [table[i] EXCEPT !.visible = TRUE]]
    BY <1>3, CommittedRow
  <2>2. table[i] \in Row
    BY DEF TypeOK
  <2>3. [table[i] EXCEPT !.visible = TRUE] \in Row
    BY <2>2 DEF Row
  <2>4. table' \in Seq(Row) /\ Len(table') = Len(table)
    BY <2>1, <2>3 DEF TypeOK
  <2>5. QED
    BY <1>3, <2>4 DEF Commit, TypeOK
<1>4. ASSUME NEW a \in Appenders, Fail(a) PROVE TypeOK'
  BY <1>4 DEF Fail, TypeOK
<1>5. CASE UNCHANGED vars
  BY <1>5 DEF vars, TypeOK
<1>6. QED
  BY <1>1, <1>2, <1>3, <1>4, <1>5 DEF Next

\* What no step takes back: the rows there stay, with their hashes and their
\* organisation, and a visible row stays visible.
LEMMA RowsStay ==
  ASSUME TypeOK, [Next]_vars
  PROVE  /\ Len(table) <= Len(table')
         /\ \A i \in 1..Len(table) :
              /\ table'[i].org = table[i].org /\ table'[i].event = table[i].event
              /\ table'[i].previous_hash = table[i].previous_hash
              /\ table'[i].event_hash = table[i].event_hash
              /\ table[i].visible => table'[i].visible
<1> DEFINE Stay == /\ Len(table) <= Len(table')
                   /\ \A i \in 1..Len(table) :
                        /\ table'[i].org = table[i].org
                        /\ table'[i].event = table[i].event
                        /\ table'[i].previous_hash = table[i].previous_hash
                        /\ table'[i].event_hash = table[i].event_hash
                        /\ table[i].visible => table'[i].visible
<1>1. table \in Seq(Row)
  BY DEF TypeOK
<1>2. ASSUME table' = table PROVE Stay
  BY <1>1, <1>2
<1>3. ASSUME NEW a \in Appenders, Insert(a) PROVE Stay
  <2>1. PICK r \in Row : table' = Append(table, r)
    BY <1>3, InsertedRow
  <2>2. QED
    BY <1>1, <2>1
<1>4. ASSUME NEW a \in Appenders, Commit(a) PROVE Stay
  <2>1. PICK k \in 1..Len(table) :
          table' = [table EXCEPT ![k] = [table[k] EXCEPT !.visible = TRUE]]
    BY <1>4, CommittedRow
  <2>2. table[k] \in Row
    BY <1>1
  <2>3. PICK r \in Row : r = [table[k] EXCEPT !.visible = TRUE]
    BY <2>2 DEF Row
  <2>4. /\ r.org = table[k].org /\ r.event = table[k].event
        /\ r.previous_hash = table[k].previous_hash
        /\ r.event_hash = table[k].event_hash /\ r.visible = TRUE
    BY <2>2, <2>3 DEF Row
  <2>5. table' = [table EXCEPT ![k] = r]
    BY <2>1, <2>3
  <2>6. Len(table') = Len(table) /\ Len(table) \in Nat
    BY <1>1, <2>5
  <2>7. ASSUME NEW i \in 1..Len(table)
        PROVE  table'[i] = IF i = k THEN r ELSE table[i]
    BY <1>1, <2>5
  <2>8. QED
    BY <2>4, <2>6, <2>7
<1>5. QED
  BY <1>2, <1>3, <1>4 DEF Next, AppendEvent, Fail, vars

\* What is anchored stays anchored.
LEMMA AnchorsStay ==
  ASSUME TypeOK, [Next]_vars, NEW h, NEW org, Anchored(h, org)
  PROVE  Anchored(h, org)'
<1>1. Len(table) \in Nat /\ Len(table') \in Nat
  BY NextTypeOK DEF TypeOK
<1>2. QED
  BY <1>1, RowsStay DEF Anchored

\* The link of the row with id i.
Linked(i) ==
  /\ table[i].event_hash = Compute(table[i].previous_hash, table[i].event)
  /\ \/ table[i].previous_hash = Genesis
     \/ \E j \in 1..(i-1) : /\ table[j].visible /\ table[j].org = table[i].org
                            /\ table[j].event_hash = table[i].previous_hash

LEMMA LinksPerRow == LinksPointBack <=> \A i \in 1..Len(table) : Linked(i)
  BY DEF LinksPointBack, Linked

\* The links of the rows already there are kept by every step.
LEMMA LinksStay ==
  ASSUME TypeOK, [Next]_vars, NEW i \in 1..Len(table), Linked(i)
  PROVE  Linked(i)'
<1>1. Len(table) \in Nat /\ i \in 1..Len(table)
  BY DEF TypeOK
<1>2. \A j \in 1..(i-1) : j \in 1..Len(table)
  BY <1>1
<1>3. /\ table'[i].event_hash = table[i].event_hash
      /\ table'[i].previous_hash = table[i].previous_hash
      /\ table'[i].event = table[i].event /\ table'[i].org = table[i].org
  BY RowsStay
<1>4. CASE table[i].previous_hash = Genesis
  BY <1>3, <1>4 DEF Linked
<1>5. CASE table[i].previous_hash # Genesis
  <2>1. PICK j \in 1..(i-1) : /\ table[j].visible /\ table[j].org = table[i].org
                              /\ table[j].event_hash = table[i].previous_hash
    BY <1>5 DEF Linked
  <2>2. table'[j].visible /\ table'[j].org = table[j].org
        /\ table'[j].event_hash = table[j].event_hash
    BY <1>2, <2>1, RowsStay
  <2>3. QED
    BY <1>3, <2>1, <2>2 DEF Linked
<1>6. QED
  BY <1>4, <1>5

\* The row an append inserts links back to a committed row, or to the origin.
LEMMA InsertedIsLinked ==
  ASSUME TypeOK, HashedIsAnchored, NEW a \in Appenders, Insert(a)
  PROVE  \E n \in Nat : n = Len(table) + 1 /\ Len(table') = n /\ Linked(n)'
<1>1. PICK w \in HashedRequest, r \in Row :
        /\ w = appender[a]
        /\ r = [org |-> w.event.org, event |-> w.event,
                previous_hash |-> w.previous_hash,
                event_hash |-> w.event_hash, visible |-> FALSE]
        /\ table' = Append(table, r)
  BY InsertedRow
<1>2. table \in Seq(Row) /\ Len(table) \in Nat
  BY DEF TypeOK
<1> PICK n \in Nat : n = Len(table) + 1
  BY <1>2
<1>3. /\ Len(table') = n
      /\ table'[n] = r
      /\ \A j \in 1..Len(table) : table'[j] = table[j]
  BY <1>1, <1>2
<1>4. /\ w.event_hash = Compute(w.previous_hash, w.event)
      /\ Anchored(w.previous_hash, w.event.org)
  BY <1>1 DEF HashedIsAnchored, Insert
<1>5. /\ r.org = w.event.org /\ r.event = w.event
      /\ r.previous_hash = w.previous_hash /\ r.event_hash = w.event_hash
  BY <1>1
<1>6. CASE w.previous_hash = Genesis
  BY <1>3, <1>4, <1>5, <1>6 DEF Linked
<1>7. CASE w.previous_hash # Genesis
  <2>1. PICK j \in 1..Len(table) : /\ table[j].visible /\ table[j].org = w.event.org
                                   /\ table[j].event_hash = w.previous_hash
    BY <1>4, <1>7 DEF Anchored
  <2>2. j \in 1..(n - 1)
    BY <1>2
  <2>3. QED
    BY <1>3, <1>4, <1>5, <2>1, <2>2 DEF Linked
<1>8. QED
  BY <1>3, <1>6, <1>7

LEMMA NextLinks == AuditTrailInv /\ [Next]_vars => LinksPointBack'
<1> SUFFICES ASSUME AuditTrailInv, [Next]_vars PROVE LinksPointBack'
  OBVIOUS
<1> USE DEF AuditTrailInv
<1>1. ASSUME NEW i \in 1..Len(table) PROVE Linked(i)'
  BY LinksStay, LinksPerRow
<1>2. Len(table) \in Nat
  BY DEF TypeOK
<1>3. ASSUME NEW a \in Appenders, Insert(a) PROVE \A i \in 1..Len(table') : Linked(i)'
  <2>1. PICK n \in Nat : n = Len(table) + 1 /\ Len(table') = n /\ Linked(n)'
    BY <1>3, InsertedIsLinked
  <2>2. \A i \in 1..Len(table') : i \in 1..Len(table) \/ i = n
    BY <1>2, <2>1
  <2>3. QED
    BY <1>1, <2>1, <2>2
<1>4. ASSUME Len(table') = Len(table) PROVE \A i \in 1..Len(table') : Linked(i)'
  BY <1>1, <1>4
<1>5. ASSUME NEW a \in Appenders, Commit(a) PROVE Len(table') = Len(table)
  BY <1>5, CommittedRow DEF TypeOK
<1>6. \A i \in 1..Len(table') : Linked(i)'
  BY <1>3, <1>4, <1>5 DEF Next, AppendEvent, Fail, vars
<1>7. QED
  BY <1>6 DEF LinksPointBack, Linked

LEMMA NextAnchored == AuditTrailInv /\ [Next]_vars => HashedIsAnchored'
<1> SUFFICES ASSUME AuditTrailInv, [Next]_vars PROVE HashedIsAnchored'
  OBVIOUS
<1> USE DEF AuditTrailInv
<1> DEFINE Sound(b) == appender[b].phase = "hashed" =>
      /\ appender[b].event_hash = Compute(appender[b].previous_hash, appender[b].event)
      /\ Anchored(appender[b].previous_hash, appender[b].event.org)
<1>1. ASSUME NEW b \in Appenders, appender'[b] = appender[b] PROVE Sound(b)'
  BY <1>1, AnchorsStay DEF HashedIsAnchored
<1>2. ASSUME NEW b \in Appenders, appender'[b].phase # "hashed" PROVE Sound(b)'
  BY <1>2
<1>3. ASSUME NEW a \in Appenders, NEW event \in Event, AppendEvent(a, event)
      PROVE  Sound(a)' /\ \A b \in Appenders \ {a} : appender'[b] = appender[b]
  <2>1. PICK previous \in GetLastHash(event.org) :
          /\ appender' = [appender EXCEPT ![a] =
               [phase |-> "hashed", event |-> event, previous_hash |-> previous,
                event_hash |-> Compute(previous, event)]]
          /\ table' = table
    BY <1>3 DEF AppendEvent
  <2>2. Anchored(previous, event.org)
    BY <2>1, HeadAnchored DEF Event
  <2>3. Anchored(previous, event.org)'
    BY <2>1, <2>2 DEF Anchored
  <2>4. appender'[a] = [phase |-> "hashed", event |-> event, previous_hash |-> previous,
                        event_hash |-> Compute(previous, event)]
    BY <2>1 DEF TypeOK
  <2>5. Sound(a)'
    BY <2>3, <2>4
  <2>6. QED
    BY <2>1, <2>5 DEF TypeOK
<1>4. ASSUME NEW a \in Appenders, Insert(a) \/ Commit(a) \/ Fail(a)
      PROVE  /\ appender'[a].phase # "hashed"
             /\ \A b \in Appenders \ {a} : appender'[b] = appender[b]
  BY <1>4 DEF Insert, Commit, Fail, TypeOK, Idle
<1>5. \A b \in Appenders : Sound(b)'
  <2>1. CASE UNCHANGED vars
    BY <1>1, <2>1 DEF vars
  <2>2. ASSUME NEW a \in Appenders, NEW event \in Event, AppendEvent(a, event)
        PROVE  \A b \in Appenders : Sound(b)'
    BY <1>1, <1>3, <2>2
  <2>3. ASSUME NEW a \in Appenders, Insert(a) \/ Commit(a) \/ Fail(a)
        PROVE  \A b \in Appenders : Sound(b)'
    BY <1>1, <1>2, <1>4, <2>3
  <2>4. QED
    BY <2>1, <2>2, <2>3 DEF Next
<1>6. QED
  BY <1>5 DEF HashedIsAnchored

LEMMA SpecAuditTrailInv == Spec => []AuditTrailInv
<1>1. AuditTrailInv /\ [Next]_vars => AuditTrailInv'
  BY NextTypeOK, NextLinks, NextAnchored DEF AuditTrailInv
<1>2. QED
  BY InitAuditTrailInv, <1>1, PTL DEF Spec

(***************************************************************************)
(* The theorems.                                                           *)
(***************************************************************************)

\* Rows and requests keep their types whatever the appends do (store.go:37-116).
THEOREM AuditTrailTypeCorrect == Spec => []TypeOK
  BY SpecAuditTrailInv, PTL DEF AuditTrailInv

\* Every row of the log starts its organisation's chain or extends an earlier
\* committed row of it, for any number of concurrent appends
\* (handler.go:81-95, store.go:37-116).
THEOREM LinksAreSound == Spec => []LinksPointBack
  BY SpecAuditTrailInv, PTL DEF AuditTrailInv

(***************************************************************************)
(* Sign-ins and their tokens (Sessions)                                    *)
(*                                                                         *)
(* A sign-in never has more tokens than its claims.  Counting the tokens   *)
(* that work is not inductive: while a request that has read a token is    *)
(* under way, a logout or an expiry may take the token and the request     *)
(* still issues another.  What no step increases, but for a revocation     *)
(* that fails or a second reader, is the number of tokens no request has   *)
(* read plus the number of requests under way; a logout with one of those  *)
(* tokens takes one off.                                                   *)
(***************************************************************************)

\* The tokens of a sign-in that work and that no request has read.
Unread(login) == {j \in live : tokens[j].login = login /\ \A h \in Handlers : ~Reads(h, j)}

\* Each claim of a sign-in can end in a token that works.
ClaimsAreBounded ==
  \A login \in Issued :
    Cardinality(Unread(login)) + Cardinality(InFlight(login)) <= 1 + extra[login] - logouts[login]

\* No sign-in of a token still to come was logged out.
LogoutsWereIssued == \A j \in Jtis \ Issued : logouts[j] = 0

\* The jtis are issued one after the other.
IssuedInOrder == \E n \in 0..MaxTokens : Issued = 1..n

\* A sign-in is the first token it issued, and a request knows whose token it read.
LoginsWereIssued ==
  /\ \A j \in Issued : tokens[j].login \in Issued
  /\ \A h \in Handlers :
       /\ handler[h].phase \in {"read", "revoked"} => handler[h].login \in Issued
       /\ handler[h].phase = "issue" => handler[h].login \in {0} \cup Issued
       /\ handler[h].phase = "read" => /\ handler[h].jti \in Issued
                                       /\ handler[h].login = tokens[handler[h].jti].login

SessionInv == /\ SessionTypeOK /\ IssuedInOrder /\ LoginsWereIssued
              /\ ClaimsAreBounded /\ AnsweredTokenWorks /\ LogoutsWereIssued

Refreshing == [phase : {"read", "revoked"}, jti : Jtis, user : Users, login : Jtis]
Issuing    == [phase : {"issue"}, user : Users, login : {0} \cup Jtis]
Token      == [user : Users, login : Jtis]

USE HandlersAssumption, SessionBoundsAssumption

(***************************************************************************)
(* Counting, and what the types say                                        *)
(***************************************************************************)

\* One element more or less.
LEMMA Counted ==
  ASSUME NEW S, IsFiniteSet(S), NEW T, NEW x
  PROVE  /\ Cardinality(S) \in Nat
         /\ T \subseteq S => Cardinality(T) \in Nat /\ Cardinality(T) <= Cardinality(S)
         /\ T \subseteq S \cup {x} => Cardinality(T) \in Nat /\ Cardinality(T) <= Cardinality(S) + 1
         /\ x \in S /\ T \subseteq S \ {x} =>
              Cardinality(T) \in Nat /\ Cardinality(T) <= Cardinality(S) - 1
<1>1. Cardinality(S) \in Nat
  BY FS_CardinalityType
<1>2. ASSUME T \subseteq S PROVE Cardinality(T) \in Nat /\ Cardinality(T) <= Cardinality(S)
  BY <1>2, FS_Subset, FS_CardinalityType
<1>3. ASSUME T \subseteq S \cup {x}
      PROVE  Cardinality(T) \in Nat /\ Cardinality(T) <= Cardinality(S) + 1
  <2>1. IsFiniteSet(S \cup {x}) /\ Cardinality(S \cup {x}) <= Cardinality(S) + 1
    BY <1>1, FS_AddElement
  <2>2. IsFiniteSet(T) /\ Cardinality(T) <= Cardinality(S \cup {x})
    BY <1>3, <2>1, FS_Subset
  <2>3. Cardinality(T) \in Nat /\ Cardinality(S \cup {x}) \in Nat
    BY <2>1, <2>2, FS_CardinalityType
  <2> QED  BY <1>1, <2>1, <2>2, <2>3
<1>4. ASSUME x \in S, T \subseteq S \ {x}
      PROVE  Cardinality(T) \in Nat /\ Cardinality(T) <= Cardinality(S) - 1
  <2>1. IsFiniteSet(S \ {x}) /\ Cardinality(S \ {x}) = Cardinality(S) - 1
    BY <1>4, FS_RemoveElement
  <2>2. IsFiniteSet(T) /\ Cardinality(T) <= Cardinality(S \ {x})
    BY <1>4, <2>1, FS_Subset
  <2>3. Cardinality(T) \in Nat
    BY <2>2, FS_CardinalityType
  <2> QED  BY <2>1, <2>2, <2>3
<1> QED  BY <1>1, <1>2, <1>3, <1>4

LEMMA ClaimsAreFinite ==
  ASSUME SessionTypeOK, NEW login
  PROVE  IsFiniteSet(Unread(login)) /\ IsFiniteSet(InFlight(login))
<1>1. IsFiniteSet(Jtis)
  BY FS_Interval DEF Jtis
<1>2. Unread(login) \subseteq Jtis /\ InFlight(login) \subseteq Handlers
  BY DEF Unread, InFlight, SessionTypeOK, Issued
<1> QED  BY <1>1, <1>2, FS_Subset

LEMMA HandlerKinds ==
  ASSUME SessionTypeOK, NEW h \in Handlers
  PROVE  /\ handler[h].phase \in {"idle", "read", "revoked", "issue"}
         /\ handler[h] = NotServing <=> handler[h].phase = "idle"
         /\ handler[h].phase \in {"read", "revoked"} <=> handler[h] \in Refreshing
         /\ handler[h].phase = "issue" <=> handler[h] \in Issuing
<1>1. handler[h] \in {NotServing} \cup Refreshing \cup Issuing
  BY DEF SessionTypeOK, Refreshing, Issuing
<1>2. CASE handler[h] = NotServing
  <2>1. handler[h].phase = "idle"
    BY <1>2 DEF NotServing
  <2> QED  BY <1>2, <2>1 DEF Refreshing, Issuing
<1>3. CASE handler[h] \in Refreshing
  BY <1>3 DEF Refreshing, Issuing, NotServing
<1>4. CASE handler[h] \in Issuing
  BY <1>4 DEF Refreshing, Issuing, NotServing
<1> QED  BY <1>1, <1>2, <1>3, <1>4

LEMMA TokenKinds ==
  ASSUME SessionTypeOK
  PROVE  /\ \A j \in Jtis : tokens[j] \in Token \cup {NoToken}
         /\ \A j : j \in Issued <=> j \in Jtis /\ tokens[j] \in Token
         /\ NoToken \notin Token /\ 0 \notin Jtis
<1>1. 0 \notin Jtis
  BY DEF Jtis
<1>2. NoToken \notin Token
  BY <1>1 DEF Token, NoToken
<1>3. \A j \in Jtis : tokens[j] \in Token \cup {NoToken}
  BY DEF SessionTypeOK, Token
<1> QED  BY <1>1, <1>2, <1>3 DEF Issued

\* A request gets a new state, and the others keep theirs.
LEMMA Becomes ==
  ASSUME SessionTypeOK, NEW h \in Handlers, NEW st \in {NotServing} \cup Refreshing \cup Issuing,
         Become(h, st)
  PROVE  /\ handler'[h] = st /\ \A g \in Handlers \ {h} : handler'[g] = handler[g]
         /\ handler' \in [Handlers -> {NotServing} \cup Refreshing \cup Issuing]
<1>1. handler \in [Handlers -> {NotServing} \cup Refreshing \cup Issuing]
  BY DEF SessionTypeOK, Refreshing, Issuing
<1>2. handler' = [handler EXCEPT ![h] = st]
  BY DEF Become
<1> HIDE DEF Become
<1> QED  BY <1>1, <1>2

LEMMA InitSessionInv == SessionInit => SessionInv
<1> SUFFICES ASSUME SessionInit PROVE SessionInv
  OBVIOUS
<1>1. Issued = {}
  BY DEF SessionInit, Issued
<1>2. /\ users = [u \in Users |-> "none"] /\ live = {} /\ ended = {}
      /\ tokens = [j \in Jtis |-> NoToken] /\ handler = [h \in Handlers |-> NotServing]
      /\ extra = [j \in Jtis |-> 0] /\ logouts = [j \in Jtis |-> 0]
  BY DEF SessionInit
<1>3. SessionTypeOK
  BY <1>1, <1>2 DEF SessionTypeOK
<1>4. IssuedInOrder
  BY <1>1 DEF IssuedInOrder
<1>5. \A h \in Handlers : handler[h].phase = "idle"
  BY <1>2 DEF NotServing
<1>6. LoginsWereIssued /\ ClaimsAreBounded /\ AnsweredTokenWorks
  BY <1>1, <1>5 DEF LoginsWereIssued, ClaimsAreBounded, AnsweredTokenWorks
<1>7. LogoutsWereIssued
  BY <1>2 DEF LogoutsWereIssued
<1> QED  BY <1>3, <1>4, <1>6, <1>7 DEF SessionInv

(***************************************************************************)
(* What a step does to the claims                                          *)
(***************************************************************************)

\* The claims of a sign-in do not grow, or its extra does with them, and a logout
\* that is counted takes one off.
LEMMA ClaimStep ==
  ASSUME SessionInv, NEW login \in Issued, NEW j, NEW h,
         extra'[login] \in Nat, logouts'[login] \in Nat,
         \/ /\ extra'[login] >= extra[login] /\ logouts'[login] = logouts[login] + 1
            /\ j \in Unread(login) /\ Unread(login)' \subseteq Unread(login) \ {j}
            /\ InFlight(login)' \subseteq InFlight(login)
         \/ /\ extra'[login] >= extra[login] /\ logouts'[login] = logouts[login]
            /\ \/ Unread(login)' \subseteq Unread(login) /\ InFlight(login)' \subseteq InFlight(login)
               \/ /\ Unread(login)' \subseteq Unread(login) \cup {j}
                  /\ h \in InFlight(login) /\ InFlight(login)' \subseteq InFlight(login) \ {h}
               \/ /\ j \in Unread(login) /\ Unread(login)' \subseteq Unread(login) \ {j}
                  /\ InFlight(login)' \subseteq InFlight(login) \cup {h}
         \/ /\ extra'[login] >= extra[login] + 1 /\ logouts'[login] = logouts[login]
            /\ \/ /\ Unread(login)' \subseteq Unread(login) \cup {j}
                  /\ InFlight(login)' \subseteq InFlight(login)
               \/ /\ Unread(login)' \subseteq Unread(login)
                  /\ InFlight(login)' \subseteq InFlight(login) \cup {h}
  PROVE  Cardinality(Unread(login)') + Cardinality(InFlight(login)') <= 1 + extra'[login] - logouts'[login]
<1> DEFINE U == Unread(login)  Un == Unread(login)'
           F == InFlight(login)  Fn == InFlight(login)'
<1>1. IsFiniteSet(U) /\ IsFiniteSet(F)
  BY ClaimsAreFinite DEF SessionInv
<1>2. /\ Cardinality(U) \in Nat
      /\ Un \subseteq U => Cardinality(Un) \in Nat /\ Cardinality(Un) <= Cardinality(U)
      /\ Un \subseteq U \cup {j} => Cardinality(Un) \in Nat /\ Cardinality(Un) <= Cardinality(U) + 1
      /\ j \in U /\ Un \subseteq U \ {j} =>
           Cardinality(Un) \in Nat /\ Cardinality(Un) <= Cardinality(U) - 1
  BY <1>1, Counted
<1>3. /\ Cardinality(F) \in Nat
      /\ Fn \subseteq F => Cardinality(Fn) \in Nat /\ Cardinality(Fn) <= Cardinality(F)
      /\ Fn \subseteq F \cup {h} => Cardinality(Fn) \in Nat /\ Cardinality(Fn) <= Cardinality(F) + 1
      /\ h \in F /\ Fn \subseteq F \ {h} =>
           Cardinality(Fn) \in Nat /\ Cardinality(Fn) <= Cardinality(F) - 1
  BY <1>1, Counted
<1>4. extra[login] \in Nat /\ logouts[login] \in Nat
  BY DEF SessionInv, SessionTypeOK, Issued
<1>5. Cardinality(U) + Cardinality(F) <= 1 + extra[login] - logouts[login]
  BY DEF SessionInv, ClaimsAreBounded
<1> HIDE DEF U, Un, F, Fn
<1>6. Cardinality(Un) + Cardinality(Fn) <= 1 + extra'[login] - logouts'[login]
  BY <1>2, <1>3, <1>4, <1>5 DEF U, Un, F, Fn
<1> QED  BY <1>6 DEF Un, Fn

\* A step that issues no token: what is left to show of it.
LEMMA SameTokensInv ==
  ASSUME SessionInv, tokens' = tokens,
         users' \in [Users -> {"none", "active", "inactive"}],
         handler' \in [Handlers -> {NotServing} \cup Refreshing \cup Issuing],
         extra' \in [Jtis -> 0..MaxExtra],
         logouts' \in [Jtis -> Nat],
         live' \subseteq live, ended' \subseteq Issued,
         live \cup ended \subseteq live' \cup ended',
         LoginsWereIssued', LogoutsWereIssued',
         \A login \in Issued :
           Cardinality(Unread(login)') + Cardinality(InFlight(login)') <= 1 + extra'[login] - logouts'[login]
  PROVE  SessionInv'
<1>1. Issued' = Issued
  BY DEF Issued
<1>2. SessionTypeOK'
  BY <1>1 DEF SessionInv, SessionTypeOK, Refreshing, Issuing
<1>3. IssuedInOrder' /\ AnsweredTokenWorks'
  BY <1>1 DEF SessionInv, IssuedInOrder, AnsweredTokenWorks
<1>4. ClaimsAreBounded'
  BY <1>1 DEF ClaimsAreBounded
<1> QED  BY <1>2, <1>3, <1>4 DEF SessionInv

\* The types, as the lemmas use them.
LEMMA SessionTypes ==
  ASSUME SessionInv
  PROVE  /\ users \in [Users -> {"none", "active", "inactive"}]
         /\ handler \in [Handlers -> {NotServing} \cup Refreshing \cup Issuing]
         /\ extra \in [Jtis -> 0..MaxExtra]
         /\ logouts \in [Jtis -> Nat]
         /\ live \subseteq Issued /\ ended \subseteq Issued
         /\ Issued \subseteq Jtis
         /\ SessionTypeOK
BY DEF SessionInv, SessionTypeOK, Refreshing, Issuing, Issued

(***************************************************************************)
(* Users                                                                   *)
(***************************************************************************)

LEMMA UsersInv ==
  ASSUME SessionInv, NEW u \in Users, CreateUser(u) \/ DeactivateUser(u)
  PROVE  SessionInv'
<1>1. UNCHANGED <<live, tokens, handler, extra, ended, logouts>>
  BY DEF CreateUser, DeactivateUser
<1>2. users' \in [Users -> {"none", "active", "inactive"}]
  BY SessionTypes DEF CreateUser, DeactivateUser
<1>3. Issued' = Issued
  BY <1>1 DEF Issued
<1>4. LoginsWereIssued' /\ LogoutsWereIssued'
  BY <1>1, <1>3 DEF SessionInv, LoginsWereIssued, LogoutsWereIssued
<1>5. \A login : Unread(login)' = Unread(login) /\ InFlight(login)' = InFlight(login)
  BY <1>1 DEF Unread, InFlight, Reads
<1>6. \A login \in Issued :
        Cardinality(Unread(login)') + Cardinality(InFlight(login)')
          <= 1 + extra'[login] - logouts'[login]
  BY <1>1, <1>5 DEF SessionInv, ClaimsAreBounded
<1> QED  BY <1>1, <1>2, <1>4, <1>6, SessionTypes, SameTokensInv

(***************************************************************************)
(* Requests                                                                *)
(***************************************************************************)

\* A request that fits the tokens and the users, as the invariant asks.
StateFits(st) ==
  /\ st.phase \in {"read", "revoked"} => st.login \in Issued
  /\ st.phase = "issue" => st.login \in {0} \cup Issued
  /\ st.phase = "read" => st.jti \in Issued /\ st.login = tokens[st.jti].login

\* Whom a request's new state puts in flight, and what stays as it was.
LEMMA Serves ==
  ASSUME SessionInv, NEW h \in Handlers, NEW st \in {NotServing} \cup Refreshing \cup Issuing,
         Become(h, st), UNCHANGED <<users, tokens>>, StateFits(st)
  PROVE  /\ handler' \in [Handlers -> {NotServing} \cup Refreshing \cup Issuing]
         /\ handler'[h] = st /\ \A g \in Handlers \ {h} : handler'[g] = handler[g]
         /\ LoginsWereIssued' /\ Issued' = Issued
         /\ \A g \in Handlers : \A j : Reads(g, j)' <=>
              IF g = h THEN st.phase = "read" /\ st.jti = j ELSE Reads(g, j)
         /\ \A login : /\ InFlight(login)' \ {h} = InFlight(login) \ {h}
                       /\ h \in InFlight(login)' <=>
                            st.phase \in {"read", "revoked", "issue"} /\ st.login = login
<1>1. /\ handler'[h] = st /\ \A g \in Handlers \ {h} : handler'[g] = handler[g]
      /\ handler' \in [Handlers -> {NotServing} \cup Refreshing \cup Issuing]
  BY SessionTypes, Becomes
<1>2. Issued' = Issued
  BY DEF Issued
<1>3. LoginsWereIssued'
  <2>1. \A j \in Issued : tokens'[j].login \in Issued'
    BY <1>2 DEF SessionInv, LoginsWereIssued
  <2>2. ASSUME NEW g \in Handlers
        PROVE  /\ handler'[g].phase \in {"read", "revoked"} => handler'[g].login \in Issued'
               /\ handler'[g].phase = "issue" => handler'[g].login \in {0} \cup Issued'
               /\ handler'[g].phase = "read" => /\ handler'[g].jti \in Issued'
                                                /\ handler'[g].login = tokens'[handler'[g].jti].login
    <3>1. CASE g = h
      BY <1>1, <1>2, <3>1 DEF StateFits
    <3>2. CASE g # h
      BY <1>1, <1>2, <3>2 DEF SessionInv, LoginsWereIssued
    <3> QED  BY <3>1, <3>2
  <2> QED  BY <1>2, <2>1, <2>2 DEF LoginsWereIssued
<1>5. \A g \in Handlers : \A j : Reads(g, j)' <=>
        IF g = h THEN st.phase = "read" /\ st.jti = j ELSE Reads(g, j)
  BY <1>1 DEF Reads
<1>6. \A login : /\ InFlight(login)' \ {h} = InFlight(login) \ {h}
                 /\ h \in InFlight(login)' <=>
                      st.phase \in {"read", "revoked", "issue"} /\ st.login = login
  BY <1>1 DEF InFlight
<1> QED  BY <1>1, <1>2, <1>3, <1>5, <1>6

\* A request stops or goes on to issue: it was in flight, or claims no sign-in yet.
LEMMA RequestInv ==
  ASSUME SessionInv, NEW h \in Handlers
  PROVE  /\ (\E u \in Users : Login(h, u)) => SessionInv'
         /\ LoadUser(h) => SessionInv'
         /\ Stop(h) => SessionInv'
<1>1. SessionTypeOK /\ StateFits(NotServing)
  BY DEF SessionInv, StateFits, NotServing
<1>2. extra \in [Jtis -> 0..MaxExtra] /\ Issued \subseteq Jtis
  BY SessionTypes
<1>3. ASSUME NEW u \in Users, Login(h, u)
      PROVE  SessionInv'
  <2> DEFINE st == [phase |-> "issue", user |-> u, login |-> 0]
  <2>1. /\ handler[h] = NotServing /\ users[u] = "active" /\ Become(h, st)
        /\ UNCHANGED <<users, live, tokens, extra, ended, logouts>>
    BY <1>3 DEF Login
  <2>2. st \in Issuing /\ StateFits(st) /\ st.phase = "issue" /\ st.login = 0
    BY <2>1 DEF Issuing, StateFits
  <2> HIDE DEF st
  <2>3. \A login \in Issued : login # 0 /\ h \notin InFlight(login)
    BY <1>1, <2>1, TokenKinds, HandlerKinds DEF InFlight
  <2>4. \A login \in Issued : InFlight(login)' = InFlight(login)
    <3>1. \A login \in Issued : /\ InFlight(login)' \ {h} = InFlight(login) \ {h}
                                 /\ h \notin InFlight(login)'
      BY <2>1, <2>2, <2>3, Serves
    <3> QED  BY <2>3, <3>1
  <2>5. \A g \in Handlers : \A j : Reads(g, j)' <=> Reads(g, j)
    BY <1>1, <2>1, <2>2, Serves, HandlerKinds DEF Reads
  <2>6. \A login \in Issued : Unread(login)' = Unread(login)
    BY <2>1, <2>5 DEF Unread
  <2>7. LogoutsWereIssued'
    BY <2>1 DEF SessionInv, LogoutsWereIssued, Issued
  <2>8. \A login \in Issued :
          Cardinality(Unread(login)') + Cardinality(InFlight(login)') <= 1 + extra'[login] - logouts'[login]
    BY <2>1, <2>4, <2>6 DEF SessionInv, ClaimsAreBounded
  <2> QED  BY <2>1, <2>2, <2>7, <2>8, Serves, SessionTypes, SameTokensInv
\* The request stays in the same sign-in or leaves it.
<1>4. ASSUME NEW st \in {NotServing} \cup Issuing, Become(h, st), StateFits(st),
             UNCHANGED <<users, live, tokens, extra, ended, logouts>>,
             handler[h].phase # "idle",
             \A login \in Issued : h \in InFlight(login)' => h \in InFlight(login),
             handler[h].phase = "read" => st = NotServing
      PROVE  SessionInv'
  <2>1. st.phase # "read"
    BY DEF NotServing, Issuing
  <2>2. \A g \in Handlers : \A j : Reads(g, j)' <=> g # h /\ Reads(g, j)
    BY <1>4, <2>1, Serves
  <2>3. \A login \in Issued : InFlight(login)' \subseteq InFlight(login)
    BY <1>4, Serves
  <2>4. ASSUME NEW login \in Issued
        PROVE  Cardinality(Unread(login)') + Cardinality(InFlight(login)') <= 1 + extra'[login] - logouts'[login]
    <3>1. /\ extra'[login] \in Nat /\ extra'[login] >= extra[login]
          /\ logouts'[login] \in Nat /\ logouts'[login] = logouts[login]
      BY <1>2, <1>4, SessionTypes
    <3>2. CASE handler[h].phase = "read" /\ handler[h].login = login
      <4>1. h \in InFlight(login) /\ h \notin InFlight(login)'
        BY <1>4, <3>2, Serves DEF InFlight, NotServing
      <4>2. Unread(login)' \subseteq Unread(login) \cup {handler[h].jti}
        BY <1>4, <2>2 DEF Unread, Reads
      <4>3. InFlight(login)' \subseteq InFlight(login) \ {h}
        BY <2>3, <4>1
      <4> QED  BY <3>1, <4>1, <4>2, <4>3, ClaimStep
    <3>3. CASE ~(handler[h].phase = "read" /\ handler[h].login = login)
      <4>1. \A j : Reads(h, j) /\ tokens[j].login = login => FALSE
        BY <3>3 DEF Reads, SessionInv, LoginsWereIssued
      <4>2. Unread(login)' \subseteq Unread(login)
        BY <1>4, <2>2, <4>1 DEF Unread
      <4> QED  BY <2>3, <3>1, <4>2, ClaimStep
    <3> QED  BY <3>2, <3>3
  <2>5. LogoutsWereIssued'
    BY <1>4 DEF SessionInv, LogoutsWereIssued, Issued
  <2> QED  BY <1>4, <2>4, <2>5, Serves, SessionTypes, SameTokensInv
<1>5. CASE Stop(h)
  <2>1. /\ handler[h].phase # "idle" /\ Become(h, NotServing)
        /\ UNCHANGED <<users, live, tokens, extra, ended, logouts>>
    BY <1>1, <1>5, HandlerKinds DEF Stop
  <2>2. \A login \in Issued : h \notin InFlight(login)'
    BY <1>1, <2>1, Serves DEF NotServing
  <2> QED  BY <1>1, <1>4, <2>1, <2>2
<1>6. CASE LoadUser(h)
  <2> DEFINE iss == [phase |-> "issue", user |-> handler[h].user,
                     login |-> handler[h].login]
  <2>1. /\ handler[h].phase = "revoked"
        /\ Become(h, IF users[handler[h].user] = "active" THEN iss ELSE NotServing)
        /\ UNCHANGED <<users, live, tokens, extra, ended, logouts>>
    BY <1>6 DEF LoadUser, StillActive
  <2>2. handler[h] \in Refreshing /\ handler[h].login \in Issued
    BY <1>1, <2>1, HandlerKinds DEF SessionInv, LoginsWereIssued
  <2>3. CASE users[handler[h].user] = "active"
    <3>1. Become(h, iss)
      BY <2>1, <2>3
    <3>2. iss \in Issuing /\ StateFits(iss) /\ iss.login = handler[h].login
      BY <2>2, <2>3 DEF Issuing, Refreshing, StateFits
    <3> HIDE DEF iss
    <3>3. \A login \in Issued : h \in InFlight(login)' => h \in InFlight(login)
      BY <2>1, <3>1, <3>2, Serves DEF InFlight
    <3> QED  BY <1>4, <2>1, <3>1, <3>2, <3>3
  <2>4. CASE users[handler[h].user] # "active"
    <3>1. Become(h, NotServing)
      BY <2>1, <2>4
    <3>2. \A login \in Issued : h \notin InFlight(login)'
      BY <1>1, <2>1, <3>1, Serves DEF NotServing
    <3> QED  BY <1>1, <1>4, <2>1, <3>1, <3>2
  <2> QED  BY <2>3, <2>4
<1> QED  BY <1>3, <1>5, <1>6

LEMMA RefreshInv ==
  ASSUME SessionInv, NEW h \in Handlers, NEW j \in Jtis, Refresh(h, j)
  PROVE  SessionInv'
<1> DEFINE st == [phase |-> "read", jti |-> j, user |-> tokens[j].user, login |-> tokens[j].login]
           again == \E g \in Handlers : Reads(g, j)
<1>1. /\ handler[h] = NotServing /\ j \in Issued /\ j \in live /\ Become(h, st)
      /\ IF again THEN Excess(tokens[j].login) ELSE UNCHANGED extra
      /\ UNCHANGED <<users, live, tokens, ended, logouts>>
  BY DEF Refresh, GetRefreshToken
<1>2. SessionTypeOK /\ tokens[j] \in Token /\ tokens[j].login \in Issued
  BY <1>1, TokenKinds DEF SessionInv, LoginsWereIssued
<1>3. /\ st \in Refreshing /\ StateFits(st)
      /\ st.phase = "read" /\ st.login = tokens[j].login /\ st.jti = j
  BY <1>1, <1>2 DEF Token, Refreshing, StateFits
<1>4. /\ extra \in [Jtis -> 0..MaxExtra] /\ Issued \subseteq Jtis
      /\ extra' \in [Jtis -> 0..MaxExtra]
      /\ \A login \in Issued : extra'[login] \in Nat /\ extra'[login] >= extra[login]
      /\ again => extra'[tokens[j].login] >= extra[tokens[j].login] + 1
      /\ \A login \in Issued : logouts'[login] \in Nat /\ logouts'[login] = logouts[login]
  BY <1>1, <1>2, SessionTypes DEF Excess
<1> HIDE DEF st, again
<1>5. \A g \in Handlers : \A k : Reads(g, k)' <=> IF g = h THEN k = j ELSE Reads(g, k)
  BY <1>1, <1>3, Serves
<1>6. \A k : ~Reads(h, k) /\ \A login : h \notin InFlight(login)
  BY <1>1 DEF Reads, InFlight, NotServing
<1>7. \A login \in Issued :
        /\ InFlight(login)' \subseteq InFlight(login) \cup {h}
        /\ login # tokens[j].login => InFlight(login)' \subseteq InFlight(login)
  <2> SUFFICES ASSUME NEW login \in Issued
               PROVE  /\ InFlight(login)' \subseteq InFlight(login) \cup {h}
                      /\ login # tokens[j].login => InFlight(login)' \subseteq InFlight(login)
    OBVIOUS
  <2>1. /\ InFlight(login)' \ {h} = InFlight(login) \ {h}
        /\ h \in InFlight(login)' => login = tokens[j].login
    BY <1>1, <1>3, Serves
  <2> QED  BY <2>1
<1>8. \A login \in Issued : Unread(login)' \subseteq Unread(login) \ {j}
  BY <1>1, <1>5, <1>6 DEF Unread
<1>9. ASSUME NEW login \in Issued
      PROVE  Cardinality(Unread(login)') + Cardinality(InFlight(login)') <= 1 + extra'[login] - logouts'[login]
  <2>1. CASE login # tokens[j].login
    <3>1. Unread(login)' \subseteq Unread(login)
      BY <1>8
    <3> QED  BY <2>1, <3>1, <1>4, <1>7, ClaimStep
  <2>2. CASE login = tokens[j].login /\ again
    <3>1. Unread(login)' \subseteq Unread(login)
      BY <1>8
    <3> QED  BY <2>2, <3>1, <1>4, <1>7, ClaimStep
  <2>3. CASE login = tokens[j].login /\ ~again
    <3>1. j \in Unread(login)
      BY <1>1, <2>3 DEF Unread, Reads, again
    <3> QED  BY <3>1, <1>4, <1>7, <1>8, ClaimStep
  <2> QED  BY <2>1, <2>2, <2>3
<1>10. LogoutsWereIssued'
  BY <1>1 DEF SessionInv, LogoutsWereIssued, Issued
<1> QED  BY <1>1, <1>3, <1>4, <1>9, <1>10, Serves, SessionTypes, SameTokensInv

LEMMA RevokeInv ==
  ASSUME SessionInv, NEW h \in Handlers, Revoke(h)
  PROVE  SessionInv'
<1> DEFINE st == [handler[h] EXCEPT !.phase = "revoked"]
           j  == handler[h].jti
           own == handler[h].login
<1>1. /\ handler[h].phase = "read" /\ Become(h, st) /\ UNCHANGED <<users, tokens, logouts>>
      /\ \/ live' = live \ {j} /\ ended' = ended \cup {j} /\ UNCHANGED extra
         \/ Excess(own) /\ UNCHANGED <<live, ended>>
  BY DEF Revoke
<1>2. SessionTypeOK /\ handler[h] \in Refreshing
  BY <1>1, HandlerKinds DEF SessionInv
<1>3. own \in Issued /\ j \in Issued /\ own = tokens[j].login
  BY <1>1 DEF SessionInv, LoginsWereIssued
<1>4. st \in Refreshing /\ st.phase = "revoked" /\ st.login = own /\ StateFits(st)
  BY <1>2, <1>3 DEF Refreshing, StateFits
<1>5. /\ extra \in [Jtis -> 0..MaxExtra] /\ Issued \subseteq Jtis
      /\ extra' \in [Jtis -> 0..MaxExtra]
      /\ \A login \in Issued : extra'[login] \in Nat /\ extra'[login] >= extra[login]
      /\ live' = live \ {j} \/ (live' = live /\ extra'[own] >= extra[own] + 1)
      /\ \A login \in Issued : logouts'[login] \in Nat /\ logouts'[login] = logouts[login]
  BY <1>1, <1>3, SessionTypes DEF Excess
<1>6. /\ live' \subseteq live /\ ended' \subseteq Issued
      /\ live \cup ended \subseteq live' \cup ended'
  BY <1>1, <1>3, SessionTypes
<1> HIDE DEF st, j, own
<1>7. \A login \in Issued : /\ InFlight(login)' \ {h} = InFlight(login) \ {h}
                            /\ h \in InFlight(login)' <=> login = own
                            /\ h \in InFlight(login) <=> login = own
  BY <1>1, <1>4, Serves DEF InFlight, own
<1>8. \A login \in Issued : InFlight(login)' \subseteq InFlight(login)
  BY <1>7
<1>9. \A g \in Handlers : \A k : Reads(g, k) => Reads(g, k)' \/ k = j
  BY <1>1, <1>4, Serves DEF Reads, j
<1>10. ASSUME NEW login \in Issued
       PROVE  Cardinality(Unread(login)') + Cardinality(InFlight(login)') <= 1 + extra'[login] - logouts'[login]
  <2>1. CASE live' = live \ {j}
    <3>1. Unread(login)' \subseteq Unread(login)
      BY <1>1, <1>9, <2>1 DEF Unread
    <3> QED  BY <3>1, <1>5, <1>8, ClaimStep
  <2>2. CASE login # own
    <3>1. Unread(login)' \subseteq Unread(login)
      BY <1>1, <1>3, <1>6, <1>9, <2>2 DEF Unread
    <3> QED  BY <3>1, <1>5, <1>8, ClaimStep
  <2>3. CASE live' = live /\ login = own /\ extra'[own] >= extra[own] + 1
    <3>1. Unread(login)' \subseteq Unread(login) \cup {j}
      BY <1>1, <1>9, <2>3 DEF Unread
    <3> QED  BY <2>3, <3>1, <1>5, <1>8, ClaimStep
  <2> QED  BY <1>5, <2>1, <2>2, <2>3
<1>11. LogoutsWereIssued'
  BY <1>1 DEF SessionInv, LogoutsWereIssued, Issued
<1> QED  BY <1>1, <1>4, <1>5, <1>6, <1>10, <1>11, Serves, SessionTypes, SameTokensInv

\* A step of no request: tokens are deleted or expire.
LEMMA DeletionInv ==
  ASSUME SessionInv, NEW j \in Jtis, Logout(j) \/ Expire(j)
  PROVE  SessionInv'
<1>1. /\ UNCHANGED <<users, tokens, handler, extra>> /\ j \in Issued
      /\ live' \subseteq live /\ ended' \subseteq Issued
      /\ live \cup ended \subseteq live' \cup ended'
  BY SessionTypes DEF Logout, Expire
<1>2. Issued' = Issued /\ SessionTypeOK
  BY <1>1, SessionTypes DEF Issued
<1>3. \A g \in Handlers : \A k : Reads(g, k)' <=> Reads(g, k)
  BY <1>1 DEF Reads
<1>4. \A login \in Issued : InFlight(login)' = InFlight(login)
  BY <1>1 DEF InFlight
<1>5. \A login \in Issued : Unread(login)' \subseteq Unread(login)
  BY <1>1, <1>3 DEF Unread
<1>6. \A login \in Issued : extra'[login] \in Nat /\ extra'[login] >= extra[login]
  BY <1>1, SessionTypes
<1>7. \/ logouts' = logouts
      \/ /\ logouts' = [logouts EXCEPT ![tokens[j].login] = @ + 1]
         /\ j \in live /\ j \notin live' /\ \A h \in Handlers : ~Reads(h, j)
  BY DEF Logout, Expire
<1>8. tokens[j].login \in Issued
  BY <1>1 DEF SessionInv, LoginsWereIssued
<1>9. logouts' \in [Jtis -> Nat] /\ LogoutsWereIssued'
  <2>1. logouts \in [Jtis -> Nat] /\ Issued \subseteq Jtis
    BY SessionTypes
  <2>2. logouts' \in [Jtis -> Nat]
    BY <1>7, <1>8, <2>1
  <2>3. \A k \in Jtis : k # tokens[j].login => logouts'[k] = logouts[k]
    BY <1>7, <2>1
  <2> QED  BY <1>2, <1>8, <2>2, <2>3 DEF SessionInv, LogoutsWereIssued
\* A logout that is counted had a token that nobody had read.
<1>10. ASSUME NEW login \in Issued
       PROVE  Cardinality(Unread(login)') + Cardinality(InFlight(login)')
                <= 1 + extra'[login] - logouts'[login]
  <2>1. logouts \in [Jtis -> Nat] /\ login \in Jtis /\ logouts'[login] \in Nat
    BY <1>9, SessionTypes
  <2>2. CASE logouts'[login] = logouts[login]
    BY <1>4, <1>5, <1>6, <2>1, <2>2, ClaimStep
  <2>3. CASE logouts'[login] # logouts[login]
    <3>1. /\ login = tokens[j].login /\ logouts'[login] = logouts[login] + 1
          /\ j \in live /\ j \notin live' /\ \A h \in Handlers : ~Reads(h, j)
      BY <1>7, <2>1, <2>3
    <3>2. j \in Unread(login) /\ Unread(login)' \subseteq Unread(login) \ {j}
      BY <1>5, <3>1 DEF Unread
    <3> QED  BY <1>4, <1>6, <2>1, <3>1, <3>2, ClaimStep
  <2> QED  BY <2>2, <2>3
<1>11. LoginsWereIssued'
  BY <1>1, <1>2 DEF SessionInv, LoginsWereIssued
<1> QED  BY <1>1, <1>9, <1>10, <1>11, SessionTypes, SameTokensInv

\* A new token: the next jti, of the request's sign-in or of one of its own.
LEMMA StoreInv ==
  ASSUME SessionInv, NEW h \in Handlers, Store(h)
  PROVE  SessionInv'
<1>1. SessionTypeOK /\ handler[h].phase = "issue" /\ handler[h] \in Issuing
  BY HandlerKinds DEF SessionInv, Store
<1>2. PICK n \in 0..MaxTokens : Issued = 1..n
  BY DEF SessionInv, IssuedInOrder
<1>3. Cardinality(Issued) = n
  BY <1>2, FS_Interval
<1>4. PICK j \in Jtis : j = n + 1 /\ IssueRefreshToken(h, j) /\ live' = live \cup {j}
  BY <1>3 DEF Store
<1> DEFINE own == IF handler[h].login = 0 THEN j ELSE handler[h].login
           new == [user |-> handler[h].user, login |-> own]
<1>5. UNCHANGED <<users, extra, ended, logouts>> /\ Become(h, NotServing)
  BY DEF Store
<1>6. own \in Jtis /\ new \in Token /\ new.login = own
  BY <1>1 DEF Issuing, Token
<1>7. /\ tokens' = [tokens EXCEPT ![j] = new] /\ tokens \in [Jtis -> Token \cup {NoToken}]
  BY <1>1, <1>4 DEF IssueRefreshToken, SessionTypeOK, Token
<1>8. own = j \/ own \in Issued
  BY <1>1 DEF SessionInv, LoginsWereIssued
<1>9. handler[h].login = 0 \/ handler[h].login = own
  OBVIOUS
<1> HIDE DEF new, own
<1>10. /\ tokens' \in [Jtis -> Token \cup {NoToken}] /\ tokens'[j] = new
       /\ \A k \in Jtis \ {j} : tokens'[k] = tokens[k]
  BY <1>6, <1>7
<1>11. Issued' = Issued \cup {j} /\ j \notin Issued /\ Issued' = 1..n+1 /\ n + 1 \in 0..MaxTokens
  <2>1. NoToken \notin Token /\ j \notin Issued
    BY <1>1, <1>2, <1>4, TokenKinds
  <2>2. Issued' = Issued \cup {j}
    BY <1>4, <1>6, <1>10, <2>1 DEF Issued
  <2>3. n + 1 \in 0..MaxTokens /\ 1..n+1 = 1..n \cup {n + 1}
    BY <1>4 DEF Jtis
  <2> QED  BY <1>2, <1>4, <2>1, <2>2, <2>3
<1>12. /\ handler'[h] = NotServing /\ \A g \in Handlers \ {h} : handler'[g] = handler[g]
       /\ handler' \in [Handlers -> {NotServing} \cup Refreshing \cup Issuing]
  BY <1>1, <1>5, Becomes
<1>13. NotServing.phase = "idle"
  BY DEF NotServing
<1>14. SessionTypeOK'
  <2>1. live' \subseteq Issued' /\ ended' \subseteq Issued'
    BY <1>4, <1>5, <1>11, SessionTypes
  <2> QED  BY <1>5, <1>10, <1>12, <2>1, SessionTypes DEF SessionTypeOK, Refreshing, Issuing, Token
<1>15. IssuedInOrder'
  BY <1>11 DEF IssuedInOrder
<1>16. LoginsWereIssued'
  <2>1. \A k \in Issued' : tokens'[k].login \in Issued'
    BY <1>6, <1>8, <1>10, <1>11, SessionTypes DEF SessionInv, LoginsWereIssued
  <2>2. ASSUME NEW g \in Handlers
        PROVE  /\ handler'[g].phase \in {"read", "revoked"} => handler'[g].login \in Issued'
               /\ handler'[g].phase = "issue" => handler'[g].login \in {0} \cup Issued'
               /\ handler'[g].phase = "read" => /\ handler'[g].jti \in Issued'
                                                /\ handler'[g].login = tokens'[handler'[g].jti].login
    <3>1. CASE g = h
      BY <1>12, <1>13, <3>1
    <3>2. CASE g # h
      <4>1. handler'[g] = handler[g]
        BY <1>12, <3>2
      <4>2. /\ handler[g].phase \in {"read", "revoked"} => handler[g].login \in Issued
            /\ handler[g].phase = "issue" => handler[g].login \in {0} \cup Issued
            /\ handler[g].phase = "read" => /\ handler[g].jti \in Issued
                                            /\ handler[g].login = tokens[handler[g].jti].login
        BY DEF SessionInv, LoginsWereIssued
      <4>3. \A k \in Issued : k \in Issued' /\ tokens'[k] = tokens[k]
        BY <1>10, <1>11, SessionTypes
      <4> QED  BY <4>1, <4>2, <4>3
    <3> QED  BY <3>1, <3>2
  <2> QED  BY <2>1, <2>2 DEF LoginsWereIssued
<1>17. LogoutsWereIssued' /\ logouts[j] = 0
  BY <1>5, <1>11 DEF SessionInv, LogoutsWereIssued
<1>18. AnsweredTokenWorks'
  BY <1>4, <1>5, <1>11 DEF SessionInv, AnsweredTokenWorks
<1>19. \A g \in Handlers : \A k : Reads(g, k)' <=> Reads(g, k)
  BY <1>1, <1>12, <1>13 DEF Reads
<1>20. \A login : InFlight(login)' = InFlight(login) \ {h}
  BY <1>12, <1>13 DEF InFlight
<1>21. ASSUME NEW login \in Issued
       PROVE  Cardinality(Unread(login)') + Cardinality(InFlight(login)') <= 1 + extra'[login] - logouts'[login]
  <2>1. /\ extra'[login] \in Nat /\ extra'[login] >= extra[login]
        /\ logouts'[login] \in Nat /\ logouts'[login] = logouts[login]
    BY <1>5, SessionTypes
  <2>2. \A k \in live : tokens'[k] = tokens[k]
    BY <1>10, <1>11, SessionTypes
  <2>3. CASE login = own
    <3>1. Unread(login)' \subseteq Unread(login) \cup {j}
      BY <1>4, <1>19, <2>2 DEF Unread
    <3>2. h \in InFlight(login)
      BY <1>1, <1>9, <1>11, <2>3 DEF InFlight, own
    <3>3. InFlight(login)' \subseteq InFlight(login) \ {h}
      BY <1>20
    <3> QED  BY <2>1, <3>1, <3>2, <3>3, ClaimStep
  <2>4. CASE login # own
    <3>1. Unread(login)' \subseteq Unread(login)
      BY <1>4, <1>6, <1>10, <1>19, <2>2, <2>4 DEF Unread
    <3>2. InFlight(login)' \subseteq InFlight(login)
      BY <1>20
    <3> QED  BY <2>1, <3>1, <3>2, ClaimStep
  <2> QED  BY <2>3, <2>4
\* Nothing but the new token can be of the sign-in it begins.
<1>22. Cardinality(Unread(j)') + Cardinality(InFlight(j)') <= 1 + extra'[j] - logouts'[j]
  <2>1. extra'[j] \in Nat /\ logouts'[j] = 0
    BY <1>5, <1>17, SessionTypes
  <2>2. Unread(j)' \subseteq {j}
    <3>1. \A k \in live : tokens'[k].login # j
      <4>1. \A k \in live : k \in Jtis \ {j} /\ tokens[k].login \in Issued
        BY <1>11, SessionTypes DEF SessionInv, LoginsWereIssued
      <4> QED  BY <1>10, <1>11, <4>1
    <3> QED  BY <1>4, <3>1 DEF Unread
  <2>3. InFlight(j)' = {}
    <3>1. j # 0
      BY DEF Jtis
    <3>2. InFlight(j) = {}
      BY <1>11, <3>1 DEF InFlight, SessionInv, LoginsWereIssued
    <3> QED  BY <1>20, <3>2
  <2>4. /\ IsFiniteSet({}) /\ Cardinality({}) = 0
        /\ Unread(j)' \subseteq {} \cup {j}
    BY <2>2, FS_EmptySet
  <2>5. Cardinality(Unread(j)') \in Nat /\ Cardinality(Unread(j)') <= 1
    BY <2>4, Counted
  <2> QED  BY <2>1, <2>3, <2>4, <2>5
<1>23. ClaimsAreBounded'
  BY <1>11, <1>21, <1>22 DEF ClaimsAreBounded
<1> QED  BY <1>14, <1>15, <1>16, <1>17, <1>18, <1>23 DEF SessionInv

(***************************************************************************)
(* The theorems                                                            *)
(***************************************************************************)

LEMMA NextSessionInv == SessionInv /\ [SessionNext]_sessionVars => SessionInv'
<1> SUFFICES ASSUME SessionInv, [SessionNext]_sessionVars PROVE SessionInv'
  OBVIOUS
<1>1. CASE \E u \in Users : CreateUser(u) \/ DeactivateUser(u)
  BY <1>1, UsersInv
<1>2. ASSUME NEW h \in Handlers,
             \/ \E u \in Users : Login(h, u)
             \/ \E j \in Jtis : Refresh(h, j)
             \/ Revoke(h) \/ LoadUser(h) \/ Store(h) \/ Stop(h)
      PROVE  SessionInv'
  <2>1. CASE \E u \in Users : Login(h, u)
    BY <2>1, RequestInv
  <2>2. CASE \E j \in Jtis : Refresh(h, j)
    BY <2>2, RefreshInv
  <2>3. CASE Revoke(h)
    BY <2>3, RevokeInv
  <2>4. CASE LoadUser(h) \/ Stop(h)
    BY <2>4, RequestInv
  <2>5. CASE Store(h)
    BY <2>5, StoreInv
  <2> QED  BY <1>2, <2>1, <2>2, <2>3, <2>4, <2>5
<1>3. CASE \E j \in Jtis : Logout(j) \/ Expire(j)
  BY <1>3, DeletionInv
<1>4. CASE UNCHANGED sessionVars
  BY <1>4, SMTT(30) DEF sessionVars, SessionInv, SessionTypeOK, IssuedInOrder, LoginsWereIssued,
              ClaimsAreBounded, AnsweredTokenWorks, LogoutsWereIssued,
              Issued, InFlight, Unread, Reads
<1> QED  BY <1>1, <1>2, <1>3, <1>4 DEF SessionNext

LEMMA SpecSessionInv == SessionSpec => []SessionInv
BY InitSessionInv, NextSessionInv, PTL DEF SessionSpec

\* A token that works and was read is matched by a request that has read it.
LEMMA ClaimsCoverTokens ==
  ASSUME SessionInv
  PROVE  OneTokenPerSignIn
<1> SUFFICES ASSUME NEW login \in Issued
             PROVE  Cardinality({j \in live : tokens[j].login = login})
                      + Cardinality({h \in InFlight(login) : handler[h].phase # "read"})
                      <= 1 + extra[login] - logouts[login]
  BY DEF OneTokenPerSignIn
<1> DEFINE L == {j \in live : tokens[j].login = login}
           P == {h \in InFlight(login) : handler[h].phase # "read"}
           U == Unread(login)
           F == InFlight(login)
           reader == [j \in L \ U |-> CHOOSE h \in Handlers : Reads(h, j)]
<1>1. IsFiniteSet(U) /\ IsFiniteSet(F) /\ extra[login] \in Nat /\ logouts[login] \in Nat
  BY ClaimsAreFinite, SessionTypes DEF SessionInv
<1>2. \A j \in L \ U : /\ reader[j] \in F \ P
                       /\ handler[reader[j]].jti = j
  <2> SUFFICES ASSUME NEW j \in L \ U
               PROVE  reader[j] \in F \ P /\ handler[reader[j]].jti = j
    OBVIOUS
  <2>1. \E h \in Handlers : Reads(h, j)
    BY DEF Unread
  <2>2. reader[j] \in Handlers /\ Reads(reader[j], j)
    BY <2>1
  <2>3. handler[reader[j]].login = login
    BY <2>2 DEF Reads, SessionInv, LoginsWereIssued
  <2> HIDE DEF reader
  <2> QED  BY <2>2, <2>3 DEF Reads, InFlight
<1>3. reader \in [L \ U -> F \ P]
  BY <1>2
<1>4. \A i, j \in L \ U : reader[i] = reader[j] => i = j
  BY <1>2
<1>5. U \subseteq L /\ P \subseteq F
  BY DEF Unread
<1> HIDE DEF L, P, U, F, reader
<1>6. reader \in Injection(L \ U, F \ P)
  BY <1>3, <1>4 DEF Injection, IsInjective
<1>7. /\ IsFiniteSet(F \ P) /\ IsFiniteSet(P)
      /\ Cardinality(F) = Cardinality(F \ P) + Cardinality(P)
  <2>1. IsFiniteSet(F \ P) /\ IsFiniteSet(P)
    BY <1>1, <1>5, FS_Subset
  <2>2. (F \ P) \cup P = F /\ (F \ P) \cap P = {}
    BY <1>5
  <2>3. Cardinality((F \ P) \cup P) =
          Cardinality(F \ P) + Cardinality(P) - Cardinality((F \ P) \cap P)
    BY <2>1, FS_Union
  <2>4. Cardinality({}) = 0 /\ Cardinality(F \ P) \in Nat /\ Cardinality(P) \in Nat
    BY <2>1, FS_EmptySet, FS_CardinalityType
  <2>5. Cardinality(F) = Cardinality(F \ P) + Cardinality(P) - Cardinality({})
    BY <2>2, <2>3
  <2> QED  BY <2>1, <2>4, <2>5
<1>8. IsFiniteSet(L \ U) /\ Cardinality(L \ U) <= Cardinality(F \ P)
  BY <1>6, <1>7, FS_Injection
<1>9. Cardinality(L) = Cardinality(L \ U) + Cardinality(U)
  <2>1. (L \ U) \cup U = L /\ (L \ U) \cap U = {}
    BY <1>5
  <2>2. Cardinality((L \ U) \cup U) =
          Cardinality(L \ U) + Cardinality(U) - Cardinality((L \ U) \cap U)
    BY <1>1, <1>8, FS_Union
  <2>3. Cardinality({}) = 0 /\ Cardinality(L \ U) \in Nat /\ Cardinality(U) \in Nat
    BY <1>1, <1>8, FS_EmptySet, FS_CardinalityType
  <2>4. Cardinality(L) = Cardinality(L \ U) + Cardinality(U) - Cardinality({})
    BY <2>1, <2>2
  <2> QED  BY <2>3, <2>4
<1>10. /\ Cardinality(U) \in Nat /\ Cardinality(L \ U) \in Nat
       /\ Cardinality(F \ P) \in Nat /\ Cardinality(P) \in Nat
  BY <1>1, <1>7, <1>8, FS_CardinalityType
<1>11. Cardinality(U) + Cardinality(F) <= 1 + extra[login] - logouts[login]
  BY DEF SessionInv, ClaimsAreBounded, U, F
<1>12. Cardinality(L) + Cardinality(P) <= 1 + extra[login] - logouts[login]
  BY <1>1, <1>7, <1>8, <1>9, <1>10, <1>11
<1> QED  BY <1>12 DEF L, P

\* One sign-in has one token that works or is being replaced, one more for every
\* revocation that failed and every second reader and one fewer for every logout of
\* a token that worked and that no refresh had read, however refreshes, logouts and expiries interleave; and
\* every token that was answered works until it is ended (auth.go:200-270).
THEOREM SpecTokensFollowSignIns == SessionSpec => []TokensFollowSignIns
<1>1. SessionInv => TokensFollowSignIns
  BY ClaimsCoverTokens DEF SessionInv, TokensFollowSignIns
<1> QED  BY <1>1, SpecSessionInv, PTL

\* A sign-in that was logged out of as many tokens as it can have has none left.
LEMMA InvLogoutIsFinal == SessionInv => LogoutIsFinal
<1> SUFFICES ASSUME SessionInv, NEW login \in Issued, logouts[login] > extra[login]
             PROVE  InFlight(login) = {} /\ \A j \in live : tokens[j].login # login
  BY DEF LogoutIsFinal
<1> DEFINE U == Unread(login)
           F == InFlight(login)
<1>1. IsFiniteSet(U) /\ IsFiniteSet(F) /\ extra[login] \in Nat /\ logouts[login] \in Nat
  BY ClaimsAreFinite, SessionTypes DEF SessionInv
<1>2. Cardinality(U) \in Nat /\ Cardinality(F) \in Nat
  BY <1>1, FS_CardinalityType
<1>3. Cardinality(U) + Cardinality(F) <= 1 + extra[login] - logouts[login]
  BY DEF SessionInv, ClaimsAreBounded
<1> HIDE DEF U, F
<1>4. Cardinality(U) = 0 /\ Cardinality(F) = 0
  BY <1>1, <1>2, <1>3
<1>5. U = {} /\ F = {}
  BY <1>1, <1>4, FS_EmptySet
<1>6. ASSUME NEW j \in live, tokens[j].login = login PROVE FALSE
  <2>1. PICK h \in Handlers : Reads(h, j)
    BY <1>5, <1>6 DEF U, Unread
  <2>2. handler[h].login = login
    BY <1>6, <2>1 DEF Reads, SessionInv, LoginsWereIssued
  <2>3. h \in F
    BY <2>1, <2>2 DEF Reads, F, InFlight
  <2> QED  BY <1>5, <2>3
<1> QED  BY <1>5, <1>6 DEF F

HeldBy(u)    == {j \in live : tokens[j].user = u}
Issuers(u) == {h \in Handlers : handler[h].phase = "issue" /\ handler[h].user = u}

\* A step that adds no request about to issue, and a token only for one that stops.
LEMMA FewerRemain ==
  ASSUME SessionInv, NEW u, NEW j, NEW h,
         \/ HeldBy(u)' \subseteq HeldBy(u) /\ Issuers(u)' \subseteq Issuers(u)
         \/ /\ HeldBy(u)' \subseteq HeldBy(u) \cup {j}
            /\ h \in Issuers(u) /\ Issuers(u)' \subseteq Issuers(u) \ {h}
  PROVE  Remaining(u)' <= Remaining(u)
<1> DEFINE L == HeldBy(u)     Ln == HeldBy(u)'
           I == Issuers(u)  In == Issuers(u)'
<1>1. IsFiniteSet(L) /\ IsFiniteSet(I)
  <2>1. IsFiniteSet(Jtis) /\ L \subseteq Jtis /\ I \subseteq Handlers
    BY FS_Interval, SessionTypes DEF Jtis, HeldBy, Issuers
  <2> QED  BY <2>1, FS_Subset
<1>2. /\ Cardinality(L) \in Nat
      /\ Ln \subseteq L => Cardinality(Ln) \in Nat /\ Cardinality(Ln) <= Cardinality(L)
      /\ Ln \subseteq L \cup {j} => Cardinality(Ln) \in Nat /\ Cardinality(Ln) <= Cardinality(L) + 1
  BY <1>1, Counted
<1>3. /\ Cardinality(I) \in Nat
      /\ In \subseteq I => Cardinality(In) \in Nat /\ Cardinality(In) <= Cardinality(I)
      /\ h \in I /\ In \subseteq I \ {h} =>
           Cardinality(In) \in Nat /\ Cardinality(In) <= Cardinality(I) - 1
  BY <1>1, Counted
<1>4. /\ Remaining(u) = Cardinality(L) + Cardinality(I)
      /\ Remaining(u)' = Cardinality(Ln) + Cardinality(In)
  BY DEF Remaining, HeldBy, Issuers
<1> HIDE DEF L, Ln, I, In
<1>5. Cardinality(Ln) + Cardinality(In) <= Cardinality(L) + Cardinality(I)
  BY <1>2, <1>3 DEF L, Ln, I, In
<1> QED  BY <1>4, <1>5

LEMMA DeactivatedStep ==
  ASSUME SessionInv, SessionNext, NEW u \in Users, users[u] = "inactive"
  PROVE  Remaining(u)' <= Remaining(u)
<1>1. SessionTypeOK
  BY DEF SessionInv
<1>2. CASE UNCHANGED <<live, tokens, handler>>
  BY <1>2, FewerRemain DEF HeldBy, Issuers
\* A request's new state is not about to issue a token for u.
<1>3. ASSUME NEW h \in Handlers, NEW st \in {NotServing} \cup Refreshing \cup Issuing, Become(h, st),
             st.phase = "issue" => st.user # u, live' \subseteq live, tokens' = tokens
      PROVE  Remaining(u)' <= Remaining(u)
  <2>1. handler'[h] = st /\ \A g \in Handlers \ {h} : handler'[g] = handler[g]
    BY <1>1, <1>3, Becomes
  <2>2. HeldBy(u)' \subseteq HeldBy(u) /\ Issuers(u)' \subseteq Issuers(u)
    BY <1>3, <2>1 DEF HeldBy, Issuers
  <2> QED  BY <2>2, FewerRemain
<1>4. NotServing \in {NotServing} /\ NotServing.phase = "idle"
  BY DEF NotServing
<1>5. ASSUME NEW h \in Handlers, NEW v \in Users, Login(h, v) PROVE Remaining(u)' <= Remaining(u)
  <2> DEFINE st == [phase |-> "issue", user |-> v, login |-> 0]
  <2>1. v # u /\ Become(h, st) /\ live' = live /\ tokens' = tokens
    BY <1>5 DEF Login
  <2>2. st \in Issuing /\ st.user = v
    BY DEF Issuing
  <2> HIDE DEF st
  <2> QED  BY <1>3, <2>1, <2>2
<1>6. ASSUME NEW h \in Handlers, NEW j \in Jtis, Refresh(h, j) PROVE Remaining(u)' <= Remaining(u)
  <2> DEFINE st == [phase |-> "read", jti |-> j, user |-> tokens[j].user, login |-> tokens[j].login]
  <2>1. Become(h, st) /\ live' = live /\ tokens' = tokens /\ tokens[j] \in Token
    BY <1>1, <1>6, TokenKinds DEF Refresh
  <2>2. st \in Refreshing /\ st.phase = "read"
    BY <2>1 DEF Refreshing, Token
  <2> HIDE DEF st
  <2> QED  BY <1>3, <2>1, <2>2
<1>7. ASSUME NEW h \in Handlers, Revoke(h) PROVE Remaining(u)' <= Remaining(u)
  <2> DEFINE st == [handler[h] EXCEPT !.phase = "revoked"]
  <2>1. Become(h, st) /\ live' \subseteq live /\ tokens' = tokens /\ handler[h] \in Refreshing
    BY <1>1, <1>7, HandlerKinds DEF Revoke
  <2>2. st \in Refreshing /\ st.phase = "revoked"
    BY <2>1 DEF Refreshing
  <2> HIDE DEF st
  <2> QED  BY <1>3, <2>1, <2>2
<1>8. ASSUME NEW h \in Handlers, LoadUser(h) PROVE Remaining(u)' <= Remaining(u)
  <2> DEFINE iss == [phase |-> "issue", user |-> handler[h].user, login |-> handler[h].login]
  <2>1. /\ live' = live /\ tokens' = tokens /\ handler[h] \in Refreshing
        /\ Become(h, IF users[handler[h].user] = "active" THEN iss ELSE NotServing)
    BY <1>1, <1>8, HandlerKinds DEF LoadUser, StillActive
  <2>2. iss \in Issuing /\ iss.user = handler[h].user
    BY <2>1 DEF Issuing, Refreshing
  <2> HIDE DEF iss
  <2>3. CASE users[handler[h].user] = "active"
    BY <1>3, <2>1, <2>2, <2>3
  <2>4. CASE users[handler[h].user] # "active"
    BY <1>3, <1>4, <2>1, <2>4
  <2> QED  BY <2>3, <2>4
<1>9. ASSUME NEW h \in Handlers, Stop(h) PROVE Remaining(u)' <= Remaining(u)
  BY <1>3, <1>4, <1>9 DEF Stop
<1>10. ASSUME NEW h \in Handlers, Store(h) PROVE Remaining(u)' <= Remaining(u)
  <2>1. PICK j \in Jtis : j = Cardinality(Issued) + 1 /\ IssueRefreshToken(h, j) /\ live' = live \cup {j}
    BY <1>10 DEF Store
  <2>2. j \notin Issued
    <3>1. PICK n \in 0..MaxTokens : Issued = 1..n
      BY DEF SessionInv, IssuedInOrder
    <3>2. Cardinality(Issued) = n
      BY <3>1, FS_Interval
    <3> QED  BY <2>1, <3>1, <3>2
  <2>3. handler'[h] = NotServing /\ \A g \in Handlers \ {h} : handler'[g] = handler[g]
    BY <1>1, <1>10, Becomes DEF Store
  <2>4. /\ \A k \in live : tokens'[k] = tokens[k]
        /\ tokens'[j].user = handler[h].user
    BY <1>1, <2>1, <2>2, SessionTypes DEF IssueRefreshToken, SessionTypeOK
  <2>5. Issuers(u)' = Issuers(u) \ {h}
    BY <1>4, <2>3 DEF Issuers
  <2>6. CASE handler[h].user = u
    <3>1. h \in Issuers(u)
      BY <1>10, <2>6 DEF Store, Issuers
    <3>2. HeldBy(u)' \subseteq HeldBy(u) \cup {j}
      BY <2>1, <2>4 DEF HeldBy
    <3> QED  BY <2>5, <3>1, <3>2, FewerRemain
  <2>7. CASE handler[h].user # u
    <3>1. HeldBy(u)' \subseteq HeldBy(u)
      BY <2>1, <2>4, <2>7 DEF HeldBy
    <3> QED  BY <2>5, <3>1, FewerRemain
  <2> QED  BY <2>6, <2>7
<1>11. ASSUME NEW j \in Jtis, Logout(j) \/ Expire(j) PROVE Remaining(u)' <= Remaining(u)
  <2>1. live' \subseteq live /\ tokens' = tokens /\ handler' = handler
    BY <1>11 DEF Logout, Expire
  <2>2. HeldBy(u)' \subseteq HeldBy(u) /\ Issuers(u)' \subseteq Issuers(u)
    BY <2>1 DEF HeldBy, Issuers
  <2> QED  BY <2>2, FewerRemain
<1>12. ASSUME NEW v \in Users, CreateUser(v) \/ DeactivateUser(v) PROVE Remaining(u)' <= Remaining(u)
  BY <1>2, <1>12 DEF CreateUser, DeactivateUser
<1> QED  BY <1>5, <1>6, <1>7, <1>8, <1>9, <1>10, <1>11, <1>12 DEF SessionNext

\* Enough logouts of tokens that nobody is refreshing end a sign-in, one for every
\* token it can have, also after failed and overlapping revocations; and what a deactivated user has left only dies out
\* (auth.go:218-222, 254-270).
THEOREM SpecEndedIsFinal == SessionSpec => EndedIsFinal
<1>1. SessionInv => LogoutIsFinal
  BY InvLogoutIsFinal
<1>2. SessionInv /\ [SessionNext]_sessionVars =>
        [\A u \in Users : users[u] = "inactive" => Remaining(u)' <= Remaining(u)]_sessionVars
  BY DeactivatedStep
<1> QED  BY <1>1, <1>2, SpecSessionInv, PTL DEF SessionSpec, EndedIsFinal, DeactivatedDieOut

(***************************************************************************)
(* The webhook deliveries (DeliveryWorker)                                 *)
(***************************************************************************)

RowStatuses == {"none", "pending", "failed", "delivered", "dead_lettered"}
RowRecord   == [status : RowStatuses, attempts : Nat, due : BOOLEAN]
PostRecord  == [sent : BOOLEAN, accepted : Nat, shared : BOOLEAN, unmarked : BOOLEAN]
Copy        == [hook : Hooks, attempts : Nat]
Busy        == [phase : {"posting", "accepted", "refused"}, batch : Seq(Copy) \ {<<>>}]

WorkerTypeOK == /\ rows \in [Hooks -> RowRecord]
                /\ worker \in [Workers -> {Waiting} \cup Busy]
                /\ posts \in [Hooks -> PostRecord]

Places(w)   == 1..Len(worker[w].batch)
Holds(w, h) == \E i \in Places(w) : worker[w].batch[i].hook = h

\* A batch holds a delivery once.
BatchesAreSets ==
  \A w \in Workers : \A i, j \in Places(w) :
    worker[w].batch[i].hook = worker[w].batch[j].hook => i = j

\* The attempts in a copy are not ahead of the row's.
CopiesAreBehind ==
  \A w \in Workers : \A i \in Places(w) :
    worker[w].batch[i].attempts <= rows[worker[w].batch[i].hook].attempts

\* A delivery that two loops hold is known to be shared.
SharedIsKnown ==
  \A h \in Hooks : ~posts[h].shared =>
    \A v, w \in Workers : Holds(v, h) /\ Holds(w, h) => v = w

\* So is one that a loop holds though it was delivered.
LateIsKnown ==
  \A h \in Hooks, w \in Workers :
    rows[h].status = "delivered" /\ Holds(w, h) => posts[h].shared

\* What an endpoint accepted is marked, or will be by the loop that was answered.
AcceptedIsMarked ==
  \A h \in Hooks : posts[h].accepted > 0 /\ ~posts[h].shared /\ ~posts[h].unmarked =>
    \/ rows[h].status = "delivered"
    \/ \E w \in Workers : worker[w].phase = "accepted" /\ worker[w].batch[1].hook = h

WorkerInv == /\ WorkerTypeOK /\ BatchesAreSets /\ CopiesAreBehind
             /\ SharedIsKnown /\ LateIsKnown /\ AcceptedIsMarked
             /\ SecondCopyIsExplained /\ GivenUpAfterAllAttempts

LEMMA InitWorkerInv == WorkerInit => WorkerInv
<1> SUFFICES ASSUME WorkerInit PROVE WorkerInv
  OBVIOUS
<1>1. /\ \A h \in Hooks : rows[h] = NoDelivery /\ posts[h] = Unsent
      /\ \A w \in Workers : worker[w] = Waiting
  BY DEF WorkerInit
<1>2. NoDelivery \in RowRecord /\ Unsent \in PostRecord
  BY DEF NoDelivery, Unsent, RowRecord, RowStatuses, PostRecord
<1>3. WorkerTypeOK
  BY <1>2 DEF WorkerInit, WorkerTypeOK
<1>4. \A w \in Workers : Places(w) = {}
  BY <1>1 DEF Places, Waiting
<1>5. \A h \in Hooks : rows[h].status = "none" /\ posts[h].accepted = 0
  BY <1>1 DEF NoDelivery, Unsent
<1>6. QED
  BY <1>3, <1>4, <1>5 DEF WorkerInv, BatchesAreSets, CopiesAreBehind, SharedIsKnown,
     LateIsKnown, AcceptedIsMarked, Holds, SecondCopyIsExplained, GivenUpAfterAllAttempts

\* A loop that is not waiting has a delivery at the head of its batch.
LEMMA BusyFacts ==
  ASSUME WorkerTypeOK, NEW w \in Workers, worker[w].phase # "idle"
  PROVE  /\ worker[w] \in Busy /\ worker[w].batch \in Seq(Copy) /\ worker[w].batch # <<>>
         /\ Head(worker[w].batch) = worker[w].batch[1] /\ 1 \in Places(w)
         /\ worker[w].batch[1] \in Copy
<1>1. worker[w] \in Busy
  BY DEF WorkerTypeOK, Waiting
<1>2. worker[w].batch \in Seq(Copy) /\ worker[w].batch # <<>>
  BY <1>1 DEF Busy
<1>3. Len(worker[w].batch) \in Nat /\ Len(worker[w].batch) >= 1
  BY <1>2
<1>4. QED
  BY <1>1, <1>2, <1>3 DEF Places

LEMMA HeldFacts ==
  ASSUME WorkerTypeOK, NEW w \in Workers, NEW i \in Places(w)
  PROVE  /\ worker[w].phase # "idle" /\ worker[w].batch[i] \in Copy
         /\ worker[w].batch[i].hook \in Hooks /\ worker[w].batch[i].attempts \in Nat
<1>1. worker[w] # Waiting
  BY DEF Places, Waiting
<1>2. worker[w] \in Busy
  BY <1>1 DEF WorkerTypeOK
<1>3. worker[w].batch \in Seq(Copy) /\ i \in 1..Len(worker[w].batch)
  BY <1>2 DEF Busy, Places
<1>4. worker[w].batch[i] \in Copy
  BY <1>3
<1>5. QED
  BY <1>2, <1>4 DEF Busy, Copy

\* The loop goes on with what was behind the head of its batch.
LEMMA AfterHeadFacts ==
  ASSUME WorkerTypeOK, NEW w \in Workers, worker[w].phase # "idle", AfterHead(w)
  PROVE  /\ worker' \in [Workers -> {Waiting} \cup Busy]
         /\ \A v \in Workers : v # w => worker'[v] = worker[v]
         /\ worker'[w].phase \in {"idle", "posting"}
         /\ \A i \in Places(w)' : /\ i + 1 \in Places(w)
                                  /\ worker'[w].batch[i] = worker[w].batch[i + 1]
<1> DEFINE rest == Tail(worker[w].batch)
           new  == IF rest = <<>> THEN Waiting ELSE [phase |-> "posting", batch |-> rest]
<1>1. worker[w].batch \in Seq(Copy) /\ worker[w].batch # <<>>
  BY BusyFacts
<1>2. /\ rest \in Seq(Copy) /\ Len(rest) = Len(worker[w].batch) - 1
      /\ \A i \in 1..Len(rest) : rest[i] = worker[w].batch[i + 1]
  BY <1>1
<1>3. worker' = [worker EXCEPT ![w] = new]
  BY DEF AfterHead
<1> HIDE DEF rest
<1>4. new \in {Waiting} \cup Busy /\ new.phase \in {"idle", "posting"} /\ new.batch = rest
  BY <1>2 DEF Waiting, Busy
<1> HIDE DEF new
<1>5. worker'[w] = new
  BY <1>3 DEF WorkerTypeOK
<1>6. \A i \in 1..Len(rest) : i + 1 \in Places(w)
  BY <1>1, <1>2 DEF Places
<1>7. Places(w)' = 1..Len(rest)
  BY <1>4, <1>5 DEF Places
<1>8. QED
  BY <1>2, <1>3, <1>4, <1>5, <1>6, <1>7 DEF WorkerTypeOK

LEMMA DispatchEventInv ==
  ASSUME WorkerInv, NEW queued \in SUBSET Hooks, DispatchEvent(queued)
  PROVE  WorkerInv'
<1>1. /\ UNCHANGED <<worker, posts>>
      /\ \A h \in Hooks : rows[h].status = "none" /\ rows[h].attempts = 0
  BY DEF DispatchEvent, NoDelivery
<1>2. rows' \in [Hooks -> RowRecord]
  BY DEF DispatchEvent, NoDelivery, RowRecord, RowStatuses
<1>3. \A h \in Hooks : rows'[h].status \in {"none", "pending"} /\ rows'[h].attempts = 0
  BY DEF DispatchEvent, NoDelivery
<1>4. WorkerTypeOK'
  BY <1>1, <1>2 DEF WorkerInv, WorkerTypeOK
<1>5. BatchesAreSets' /\ SharedIsKnown' /\ SecondCopyIsExplained'
  BY <1>1 DEF WorkerInv, BatchesAreSets, SharedIsKnown, SecondCopyIsExplained, Holds, Places
<1>6. CopiesAreBehind'
  <2>1. ASSUME NEW w \in Workers, NEW i \in Places(w) PROVE worker[w].batch[i].hook \in Hooks
    BY HeldFacts DEF WorkerInv
  <2>2. QED
    BY <1>1, <1>3, <2>1 DEF WorkerInv, CopiesAreBehind, Places
<1>7. LateIsKnown' /\ GivenUpAfterAllAttempts'
  BY <1>3 DEF LateIsKnown, GivenUpAfterAllAttempts
<1>8. AcceptedIsMarked'
  BY <1>1 DEF WorkerInv, AcceptedIsMarked
<1>9. QED
  BY <1>4, <1>5, <1>6, <1>7, <1>8 DEF WorkerInv

LEMMA RetryComesInv ==
  ASSUME WorkerInv, NEW h \in Hooks, RetryComes(h)
  PROVE  WorkerInv'
<1>1. UNCHANGED <<worker, posts>> /\ rows' = [rows EXCEPT ![h].due = TRUE]
  BY DEF RetryComes
<1>2. rows' \in [Hooks -> RowRecord]
  BY <1>1 DEF WorkerInv, WorkerTypeOK, RowRecord
<1>3. \A g \in Hooks : rows'[g].status = rows[g].status /\ rows'[g].attempts = rows[g].attempts
  BY <1>1 DEF WorkerInv, WorkerTypeOK, RowRecord
<1>4. WorkerTypeOK'
  BY <1>1, <1>2 DEF WorkerInv, WorkerTypeOK
<1>5. BatchesAreSets' /\ SharedIsKnown' /\ SecondCopyIsExplained'
  BY <1>1 DEF WorkerInv, BatchesAreSets, SharedIsKnown, SecondCopyIsExplained, Holds, Places
<1>6. CopiesAreBehind'
  <2>1. ASSUME NEW w \in Workers, NEW i \in Places(w) PROVE worker[w].batch[i].hook \in Hooks
    BY HeldFacts DEF WorkerInv
  <2>2. QED
    BY <1>1, <1>3, <2>1 DEF WorkerInv, CopiesAreBehind, Places
<1>7. LateIsKnown' /\ GivenUpAfterAllAttempts' /\ AcceptedIsMarked'
  BY <1>1, <1>3, SMTT(30) DEF WorkerInv, LateIsKnown, GivenUpAfterAllAttempts, AcceptedIsMarked,
     Holds, Places
<1>8. QED
  BY <1>4, <1>5, <1>6, <1>7 DEF WorkerInv

\* Of what is due, the loop reads a batch without repetitions, and what another loop
\* holds already is known to be shared from then on.
LEMMA DueFacts ==
  ASSUME WorkerInv, NEW w \in Workers, DuePendingDeliveries(w)
  PROVE  /\ UNCHANGED rows /\ worker[w] = Waiting
         /\ worker' \in [Workers -> {Waiting} \cup Busy] /\ posts' \in [Hooks -> PostRecord]
         /\ \A v \in Workers : v # w => worker'[v] = worker[v]
         /\ worker'[w].phase = "posting"
         /\ \A i \in Places(w)' :
              LET h == worker'[w].batch[i].hook
              IN  /\ h \in Due /\ worker'[w].batch[i].attempts = rows[h].attempts
                  /\ Held(h) => posts'[h].shared
                  /\ \A j \in Places(w)' : worker'[w].batch[j].hook = h => i = j
         /\ \A h \in Hooks : /\ posts'[h].accepted = posts[h].accepted
                             /\ posts'[h].unmarked = posts[h].unmarked
                             /\ posts[h].shared => posts'[h].shared
<1>1. PICK s \in SetToSeqs(Due) :
        LET batch == SubSeq(s, 1, IF Len(s) < BatchSize THEN Len(s) ELSE BatchSize)
        IN  /\ worker' = [worker EXCEPT ![w] =
                            [phase |-> "posting",
                             batch |-> [i \in DOMAIN batch |->
                                          [hook |-> batch[i], attempts |-> rows[batch[i]].attempts]]]]
            /\ posts' = [h \in Hooks |-> IF h \in Range(batch) /\ Held(h)
                                         THEN [posts[h] EXCEPT !.shared = TRUE] ELSE posts[h]]
  BY DEF DuePendingDeliveries
<1> DEFINE n     == IF Len(s) < BatchSize THEN Len(s) ELSE BatchSize
           batch == SubSeq(s, 1, n)
           read  == [i \in DOMAIN batch |-> [hook |-> batch[i], attempts |-> rows[batch[i]].attempts]]
           new   == [phase |-> "posting", batch |-> read]
<1>2. /\ s \in [1..Cardinality(Due) -> Due]
      /\ \A i, j \in 1..Cardinality(Due) : i # j => s[i] # s[j]
  BY DEF SetToSeqs
<1>3. Due \subseteq Hooks /\ Due # {}
  BY DEF Due, DuePendingDeliveries
<1>4. Cardinality(Due) \in Nat \ {0}
  BY <1>3, WorkerAssumption, FS_Subset, FS_CardinalityType, FS_EmptySet
<1>5. s \in Seq(Due) /\ Len(s) = Cardinality(Due)
  <2> DEFINE size == Cardinality(Due)
  <2>1. size \in Nat /\ s \in [1..size -> Due]
    BY <1>2, <1>4
  <2> HIDE DEF size
  <2>2. s \in Seq(Due) /\ Len(s) = size
    BY <2>1
  <2>3. QED
    BY <2>2 DEF size
<1>6. n \in 1..Len(s)
  BY <1>4, <1>5, WorkerAssumption
<1> HIDE DEF n
<1>7. /\ batch \in Seq(Due) /\ Len(batch) = n
      /\ \A i \in 1..n : batch[i] = s[i]
  <2>1. /\ n \in Nat /\ n >= 1 /\ \A i \in 1..n : s[i] \in Due
    BY <1>5, <1>6
  <2>2. QED
    BY <2>1, SubSeqProperties
<1> HIDE DEF batch
<1>8. DOMAIN batch = 1..n /\ n \in Nat \ {0}
  BY <1>5, <1>6, <1>7
<1>9. \A i \in 1..n : batch[i] \in Due /\ rows[batch[i]].attempts \in Nat
  BY <1>3, <1>7 DEF WorkerInv, WorkerTypeOK, RowRecord
<1>10. /\ read \in [1..n -> Copy]
       /\ \A i \in 1..n : read[i].hook = batch[i] /\ read[i].attempts = rows[batch[i]].attempts
  BY <1>3, <1>8, <1>9 DEF Copy
<1> HIDE DEF read
<1>11. read \in Seq(Copy) /\ Len(read) = n /\ read # <<>>
  BY <1>8, <1>10
<1>12. new \in Busy /\ new.phase = "posting" /\ new.batch = read
  BY <1>11 DEF Busy
<1>13. worker' = [worker EXCEPT ![w] = new]
  BY <1>1 DEF new, read, batch, n
<1> HIDE DEF new
<1>14. /\ worker' \in [Workers -> {Waiting} \cup Busy] /\ worker'[w] = new
       /\ \A v \in Workers : v # w => worker'[v] = worker[v]
  BY <1>12, <1>13 DEF WorkerInv, WorkerTypeOK
<1>15. posts' = [h \in Hooks |-> IF h \in Range(batch) /\ Held(h)
                                 THEN [posts[h] EXCEPT !.shared = TRUE] ELSE posts[h]]
  BY <1>1 DEF batch, n
<1>16. posts' \in [Hooks -> PostRecord]
  BY <1>15 DEF WorkerInv, WorkerTypeOK, PostRecord
<1>17. \A h \in Hooks : /\ posts'[h].accepted = posts[h].accepted
                        /\ posts'[h].unmarked = posts[h].unmarked
  BY <1>15 DEF WorkerInv, WorkerTypeOK, PostRecord
<1>18. \A h \in Hooks : /\ posts[h].shared => posts'[h].shared
                        /\ h \in Range(batch) /\ Held(h) => posts'[h].shared
  BY <1>15 DEF WorkerInv, WorkerTypeOK, PostRecord
<1>19. ASSUME NEW i \in 1..n
       PROVE  LET h == worker'[w].batch[i].hook
              IN  /\ h \in Due /\ worker'[w].batch[i].attempts = rows[h].attempts
                  /\ Held(h) => posts'[h].shared
                  /\ \A j \in 1..n : worker'[w].batch[j].hook = h => i = j
  <2>1. worker'[w].batch[i].hook = batch[i] /\ batch[i] \in Due
    BY <1>9, <1>10, <1>12, <1>14
  <2>2. batch[i] \in Range(batch)
    BY <1>8 DEF Range
  <2>3. \A j \in 1..n : batch[j] = batch[i] => i = j
    BY <1>2, <1>5, <1>6, <1>7
  <2>4. QED
    BY <1>3, <1>10, <1>12, <1>14, <1>18, <2>1, <2>2, <2>3
<1>20. Places(w)' = 1..n
  BY <1>11, <1>12, <1>14 DEF Places
<1>21. QED
  BY <1>12, <1>14, <1>16, <1>17, <1>18, <1>19, <1>20 DEF DuePendingDeliveries

LEMMA DueInv ==
  ASSUME WorkerInv, NEW w \in Workers, DuePendingDeliveries(w)
  PROVE  WorkerInv'
<1>1. /\ UNCHANGED rows /\ worker[w] = Waiting
      /\ worker' \in [Workers -> {Waiting} \cup Busy] /\ posts' \in [Hooks -> PostRecord]
      /\ \A v \in Workers : v # w => worker'[v] = worker[v]
      /\ worker'[w].phase = "posting"
  BY DueFacts
<1>2. \A i \in Places(w)' :
        LET h == worker'[w].batch[i].hook
        IN  /\ h \in Due /\ worker'[w].batch[i].attempts = rows[h].attempts
            /\ Held(h) => posts'[h].shared
            /\ \A j \in Places(w)' : worker'[w].batch[j].hook = h => i = j
  BY DueFacts
<1>3. \A h \in Hooks : /\ posts'[h].accepted = posts[h].accepted
                       /\ posts'[h].unmarked = posts[h].unmarked
                       /\ posts[h].shared => posts'[h].shared
  BY DueFacts
<1>4. \A v \in Workers : v # w => Places(v)' = Places(v)
  BY <1>1 DEF Places
<1>5. ASSUME NEW h \in Hooks PROVE Holds(w, h)' => h \in Due /\ (Held(h) => posts'[h].shared)
  BY <1>2 DEF Holds
<1>6. ASSUME NEW h \in Hooks, NEW v \in Workers, v # w
      PROVE  /\ Holds(v, h)' <=> Holds(v, h)
             /\ Holds(v, h) => Held(h)
  BY <1>1, <1>4, <1>6 DEF Holds, Held, Places
<1>7. WorkerTypeOK'
  BY <1>1 DEF WorkerInv, WorkerTypeOK
<1>8. BatchesAreSets'
  <2>1. ASSUME NEW v \in Workers, v # w, NEW i \in Places(v)', NEW j \in Places(v)',
               worker'[v].batch[i].hook = worker'[v].batch[j].hook
        PROVE  i = j
    BY <1>1, <1>4, <2>1 DEF WorkerInv, BatchesAreSets
  <2>2. QED
    BY <1>2, <2>1 DEF BatchesAreSets
<1>9. CopiesAreBehind'
  <2>1. ASSUME NEW v \in Workers, v # w, NEW i \in Places(v)'
        PROVE  worker'[v].batch[i].attempts <= rows'[worker'[v].batch[i].hook].attempts
    BY <1>1, <1>4, <2>1 DEF WorkerInv, CopiesAreBehind
  <2>2. ASSUME NEW i \in Places(w)'
        PROVE  worker'[w].batch[i].attempts <= rows'[worker'[w].batch[i].hook].attempts
    BY <1>1, <1>2 DEF WorkerInv, WorkerTypeOK, RowRecord, Due
  <2>3. QED
    BY <2>1, <2>2 DEF CopiesAreBehind
<1>10. SharedIsKnown'
  BY <1>3, <1>5, <1>6 DEF WorkerInv, SharedIsKnown
<1>11. LateIsKnown'
  BY <1>1, <1>3, <1>5, <1>6 DEF WorkerInv, LateIsKnown, Due
<1>12. AcceptedIsMarked'
  <2>1. worker[w].phase = "idle"
    BY <1>1 DEF Waiting
  <2>2. QED
    BY <1>1, <1>3, <2>1 DEF WorkerInv, AcceptedIsMarked
<1>13. SecondCopyIsExplained' /\ GivenUpAfterAllAttempts'
  BY <1>1, <1>3 DEF WorkerInv, SecondCopyIsExplained, GivenUpAfterAllAttempts
<1>14. QED
  BY <1>7, <1>8, <1>9, <1>10, <1>11, <1>12, <1>13 DEF WorkerInv

\* The endpoint's answer.  If it had accepted before, with nobody else involved and
\* nothing lost, the row would be marked delivered, or another loop would hold it.
LEMMA DeliverInv ==
  ASSUME WorkerInv, NEW w \in Workers, Deliver(w)
  PROVE  WorkerInv'
<1> DEFINE h == worker[w].batch[1].hook
<1>1. worker[w].phase = "posting" /\ UNCHANGED rows
  BY DEF Deliver
<1>2. /\ worker[w] \in Busy /\ Head(worker[w].batch) = worker[w].batch[1]
      /\ h \in Hooks /\ 1 \in Places(w)
  BY <1>1, BusyFacts, HeldFacts, SMTT(30) DEF WorkerInv
<1>3. PICK outcome \in {"accepted", "refused"} : worker' = [worker EXCEPT ![w].phase = outcome]
  BY <1>1, <1>2 DEF Deliver
<1>4. \/ /\ posts' = [posts EXCEPT ![h].sent = TRUE, ![h].accepted = posts[h].accepted + 1]
         /\ worker' = [worker EXCEPT ![w].phase = "accepted"]
      \/ posts' = [posts EXCEPT ![h].sent = TRUE, ![h].accepted = posts[h].accepted + 1,
                                ![h].unmarked = TRUE]
      \/ posts' = [posts EXCEPT ![h].sent = posts[h].sent \/ Found(h)]
  BY <1>2 DEF Deliver
<1>5. /\ worker' \in [Workers -> {Waiting} \cup Busy]
      /\ \A v \in Workers : v # w => worker'[v] = worker[v]
      /\ \A v \in Workers : worker'[v].batch = worker[v].batch
      /\ worker'[w].phase = outcome
  BY <1>2, <1>3 DEF WorkerInv, WorkerTypeOK, Busy
<1>6. /\ \A v \in Workers : Places(v)' = Places(v)
      /\ \A v \in Workers, g \in Hooks : Holds(v, g)' <=> Holds(v, g)
  BY <1>5 DEF Places, Holds
<1>7. PICK answered \in PostRecord :
        /\ posts' = [posts EXCEPT ![h] = answered]
        /\ answered.shared = posts[h].shared
        /\ \/ /\ answered.accepted = posts[h].accepted + 1
              /\ answered.unmarked = posts[h].unmarked
              /\ worker'[w].phase = "accepted"
           \/ answered.accepted = posts[h].accepted + 1 /\ answered.unmarked
           \/ answered.accepted = posts[h].accepted /\ answered.unmarked = posts[h].unmarked
  <2> HIDE DEF h
  <2>1. PICK p \in PostRecord : p = posts[h]
    BY <1>2 DEF WorkerInv, WorkerTypeOK
  <2>2. p.accepted + 1 \in Nat /\ TRUE \in BOOLEAN /\ (p.sent \/ Found(h)) \in BOOLEAN
    BY DEF PostRecord
  <2>3. CASE /\ posts' = [posts EXCEPT ![h].sent = TRUE, ![h].accepted = posts[h].accepted + 1]
             /\ worker' = [worker EXCEPT ![w].phase = "accepted"]
    <3> DEFINE new == [p EXCEPT !.sent = TRUE, !.accepted = p.accepted + 1]
    <3>1. new \in PostRecord
      BY <2>2, Zenon DEF PostRecord
    <3>2. new.accepted = p.accepted + 1 /\ new.shared = p.shared /\ new.unmarked = p.unmarked
      BY DEF PostRecord
    <3>3. posts' = [posts EXCEPT ![h] = new]
      BY <1>2, <2>1, <2>3 DEF WorkerInv, WorkerTypeOK
    <3>4. worker'[w].phase = "accepted"
      BY <1>2, <2>3 DEF WorkerInv, WorkerTypeOK, Busy
    <3>5. QED
      BY <2>1, <3>1, <3>2, <3>3, <3>4
  <2>4. CASE posts' = [posts EXCEPT ![h].sent = TRUE, ![h].accepted = posts[h].accepted + 1,
                                    ![h].unmarked = TRUE]
    <3> DEFINE new == [p EXCEPT !.sent = TRUE, !.accepted = p.accepted + 1, !.unmarked = TRUE]
    <3>1. new \in PostRecord
      BY <2>2, Zenon DEF PostRecord
    <3>2. new.accepted = p.accepted + 1 /\ new.shared = p.shared /\ new.unmarked
      BY DEF PostRecord
    <3>3. posts' = [posts EXCEPT ![h] = new]
      BY <1>2, <2>1, <2>4 DEF WorkerInv, WorkerTypeOK
    <3>4. QED
      BY <2>1, <3>1, <3>2, <3>3
  <2>5. CASE posts' = [posts EXCEPT ![h].sent = posts[h].sent \/ Found(h)]
    <3> DEFINE new == [p EXCEPT !.sent = p.sent \/ Found(h)]
    <3>1. new \in PostRecord
      BY <2>2, Zenon DEF PostRecord
    <3>2. new.accepted = p.accepted /\ new.shared = p.shared /\ new.unmarked = p.unmarked
      BY DEF PostRecord
    <3>3. posts' = [posts EXCEPT ![h] = new]
      BY <1>2, <2>1, <2>5 DEF WorkerInv, WorkerTypeOK
    <3>4. QED
      BY <2>1, <3>1, <3>2, <3>3
  <2>6. QED
    BY <1>4, <2>3, <2>4, <2>5
<1>8. /\ posts' \in [Hooks -> PostRecord] /\ posts'[h] = answered
      /\ \A g \in Hooks : g # h => posts'[g] = posts[g]
      /\ \A g \in Hooks : posts'[g].shared = posts[g].shared
  BY <1>2, <1>7, SMTT(30) DEF WorkerInv, WorkerTypeOK
<1>9. \/ /\ posts'[h].accepted = posts[h].accepted + 1
         /\ posts'[h].unmarked = posts[h].unmarked
         /\ worker'[w].phase = "accepted"
      \/ /\ posts'[h].accepted = posts[h].accepted + 1
         /\ posts'[h].unmarked
      \/ /\ posts'[h].accepted = posts[h].accepted
         /\ posts'[h].unmarked = posts[h].unmarked
  BY <1>7, <1>8
<1>10. Holds(w, h)
  BY <1>2 DEF Holds
<1>11. posts[h].accepted > 0 => posts[h].shared \/ posts[h].unmarked
  <2> SUFFICES ASSUME posts[h].accepted > 0, ~posts[h].shared, ~posts[h].unmarked PROVE FALSE
    OBVIOUS
  <2>1. CASE rows[h].status = "delivered"
    BY <1>2, <1>10, <2>1 DEF WorkerInv, LateIsKnown
  <2>2. ASSUME NEW v \in Workers, worker[v].phase = "accepted", worker[v].batch[1].hook = h
        PROVE  FALSE
    <3>1. Holds(v, h)
      BY <2>2, BusyFacts DEF WorkerInv, Holds
    <3>2. v = w
      BY <1>2, <1>10, <3>1 DEF WorkerInv, SharedIsKnown
    <3>3. QED
      BY <1>1, <2>2, <3>2
  <2>3. QED
    BY <1>2, <2>1, <2>2 DEF WorkerInv, AcceptedIsMarked
<1>12. posts[h].accepted \in Nat
  BY <1>2 DEF WorkerInv, WorkerTypeOK, PostRecord
<1>13. WorkerTypeOK'
  BY <1>1, <1>5, <1>8 DEF WorkerInv, WorkerTypeOK
<1>14. BatchesAreSets' /\ CopiesAreBehind'
  BY <1>1, <1>5, <1>6 DEF WorkerInv, BatchesAreSets, CopiesAreBehind
<1>15. SharedIsKnown' /\ LateIsKnown' /\ GivenUpAfterAllAttempts'
  BY <1>1, <1>6, <1>8 DEF WorkerInv, SharedIsKnown, LateIsKnown, GivenUpAfterAllAttempts
<1>16. SecondCopyIsExplained'
  BY <1>8, <1>9, <1>11, <1>12 DEF WorkerInv, SecondCopyIsExplained
<1>17. AcceptedIsMarked'
  <2>1. ASSUME NEW g \in Hooks, NEW v \in Workers,
               worker[v].phase = "accepted", worker[v].batch[1].hook = g
        PROVE  worker'[v].phase = "accepted" /\ worker'[v].batch[1].hook = g
    BY <1>1, <1>5, <2>1
  <2>2. ASSUME NEW g \in Hooks, g # h, posts'[g].accepted > 0, ~posts'[g].shared,
               ~posts'[g].unmarked
        PROVE  \/ rows'[g].status = "delivered"
               \/ \E v \in Workers : worker'[v].phase = "accepted" /\ worker'[v].batch[1].hook = g
    BY <1>1, <1>8, <2>1, <2>2 DEF WorkerInv, AcceptedIsMarked
  <2>3. ASSUME posts'[h].accepted > 0, ~posts'[h].shared, ~posts'[h].unmarked
        PROVE  \E v \in Workers : worker'[v].phase = "accepted" /\ worker'[v].batch[1].hook = h
    <3>1. worker'[w].batch[1].hook = h
      BY <1>5
    <3>2. QED
      BY <1>8, <1>9, <1>11, <2>3, <3>1, <1>2
  <2>4. QED
    BY <2>2, <2>3 DEF AcceptedIsMarked
<1>18. QED
  BY <1>13, <1>14, <1>15, <1>16, <1>17, SMTT(30) DEF WorkerInv

\* A loop that leaves the head of its batch holds less than before, and the head no
\* more.
LEMMA LessIsHeld ==
  ASSUME WorkerInv, NEW w \in Workers, worker[w].phase # "idle", AfterHead(w),
         NEW h \in Hooks, h = worker[w].batch[1].hook
  PROVE  /\ BatchesAreSets'
         /\ \A v \in Workers, g \in Hooks : Holds(v, g)' => Holds(v, g)
         /\ ~Holds(w, h)'
         /\ \A v \in Workers : \A i \in Places(v)' :
              \E j \in Places(v) : worker'[v].batch[i] = worker[v].batch[j]
<1>1. /\ \A v \in Workers : v # w => worker'[v] = worker[v]
      /\ \A i \in Places(w)' : i + 1 \in Places(w) /\ worker'[w].batch[i] = worker[w].batch[i + 1]
  BY AfterHeadFacts DEF WorkerInv
<1>2. \A v \in Workers : v # w => Places(v)' = Places(v)
  BY <1>1 DEF Places
<1>3. \A v \in Workers : \A i \in Places(v)' :
        \E j \in Places(v) : worker'[v].batch[i] = worker[v].batch[j]
  <2>1. ASSUME NEW v \in Workers, v # w, NEW i \in Places(v)'
        PROVE  \E j \in Places(v) : worker'[v].batch[i] = worker[v].batch[j]
    BY <1>1, <1>2, <2>1
  <2>2. QED
    BY <1>1, <2>1
<1>4. BatchesAreSets'
  <2>1. ASSUME NEW v \in Workers, v # w, NEW i \in Places(v)', NEW j \in Places(v)',
               worker'[v].batch[i].hook = worker'[v].batch[j].hook
        PROVE  i = j
    <3>1. i \in Places(v) /\ j \in Places(v)
      BY <1>2, <2>1
    <3>2. worker[v].batch[i].hook = worker[v].batch[j].hook
      BY <1>1, <2>1
    <3>3. QED
      BY <3>1, <3>2 DEF WorkerInv, BatchesAreSets
  <2>2. ASSUME NEW i \in Places(w)', NEW j \in Places(w)',
               worker'[w].batch[i].hook = worker'[w].batch[j].hook
        PROVE  i = j
    <3>1. i + 1 = j + 1
      BY <1>1, <2>2 DEF WorkerInv, BatchesAreSets
    <3>2. QED
      BY <3>1 DEF Places
  <2>3. QED
    BY <2>1, <2>2 DEF BatchesAreSets
<1>5. \A v \in Workers, g \in Hooks : Holds(v, g)' => Holds(v, g)
  BY <1>3 DEF Holds
<1>6. ~Holds(w, h)'
  <2> SUFFICES ASSUME NEW i \in Places(w)', worker'[w].batch[i].hook = h
               PROVE  FALSE
    BY <1>1 DEF Holds
  <2>1. 1 \in Places(w)
    BY BusyFacts DEF WorkerInv
  <2>2. i + 1 = 1
    BY <1>1, <2>1 DEF WorkerInv, BatchesAreSets
  <2>3. QED
    BY <2>2 DEF Places
<1>7. QED
  BY <1>3, <1>4, <1>5, <1>6

\* MarkFailed and MarkDelivered count an attempt more; a row is given up by a loop
\* that read MaxAttempts of them.
LEMMA MarkedRow ==
  ASSUME NEW row \in RowRecord, NEW attempts \in Nat, attempts <= row.attempts
  PROVE  /\ MarkDelivered(row) \in RowRecord
         /\ MarkDelivered(row).status = "delivered"
         /\ MarkDelivered(row).attempts = row.attempts + 1
         /\ MarkFailed(row, attempts) \in RowRecord
         /\ MarkFailed(row, attempts).status # "delivered"
         /\ MarkFailed(row, attempts).attempts = row.attempts + 1
         /\ MarkFailed(row, attempts).status = "dead_lettered" =>
              MarkFailed(row, attempts).attempts > MaxAttempts
<1>1. row.attempts + 1 \in Nat /\ "delivered" \in RowStatuses
  BY DEF RowRecord, RowStatuses
<1>2. MarkDelivered(row) \in RowRecord
  BY <1>1, Zenon DEF MarkDelivered, RowRecord
<1>3. MarkDelivered(row).status = "delivered" /\ MarkDelivered(row).attempts = row.attempts + 1
  BY DEF MarkDelivered, RowRecord
<1>4. MarkFailed(row, attempts) \in RowRecord
  <2> DEFINE status == IF attempts >= MaxAttempts THEN "dead_lettered" ELSE "failed"
             due    == attempts >= MaxAttempts /\ row.due
  <2>1. status \in RowStatuses /\ due \in BOOLEAN
    BY DEF RowStatuses
  <2> HIDE DEF status, due
  <2>2. [status |-> status, attempts |-> row.attempts + 1, due |-> due] \in RowRecord
    BY <1>1, <2>1 DEF RowRecord
  <2>3. QED
    BY <2>2 DEF MarkFailed, status, due
<1>5. /\ MarkFailed(row, attempts).status =
            (IF attempts >= MaxAttempts THEN "dead_lettered" ELSE "failed")
      /\ MarkFailed(row, attempts).attempts = row.attempts + 1
  BY DEF MarkFailed
<1>6. MarkFailed(row, attempts).status = "dead_lettered" =>
        MarkFailed(row, attempts).attempts > MaxAttempts
  BY <1>5, WorkerAssumption DEF RowRecord
<1>7. QED
  BY <1>2, <1>3, <1>4, <1>5, <1>6

\* What Mark does to the row at the head of the loop's batch.
LEMMA MarkFacts ==
  ASSUME WorkerInv, NEW w \in Workers, Mark(w)
  PROVE  \E h \in Hooks :
           /\ h = worker[w].batch[1].hook /\ Holds(w, h)
           /\ rows' \in [Hooks -> RowRecord] /\ rows'[h].attempts = rows[h].attempts + 1
           /\ \A g \in Hooks : g # h => rows'[g] = rows[g]
           /\ worker[w].phase = "accepted" <=> rows'[h].status = "delivered"
           /\ rows'[h].status = "dead_lettered" => rows'[h].attempts > MaxAttempts
<1>1. worker[w].phase \in {"accepted", "refused"}
  BY DEF Mark
<1>2. PICK d \in Copy : d = worker[w].batch[1] /\ d = Head(worker[w].batch)
  BY <1>1, BusyFacts DEF WorkerInv
<1>3. /\ 1 \in Places(w) /\ d.hook \in Hooks /\ d.attempts \in Nat
      /\ d.attempts <= rows[d.hook].attempts
  BY <1>1, <1>2, BusyFacts DEF WorkerInv, CopiesAreBehind, Copy
<1> DEFINE new == IF worker[w].phase = "accepted"
                  THEN MarkDelivered(rows[d.hook]) ELSE MarkFailed(rows[d.hook], d.attempts)
<1>4. rows' = [rows EXCEPT ![d.hook] = new]
  BY <1>2 DEF Mark
<1>5. rows[d.hook] \in RowRecord
  BY <1>3 DEF WorkerInv, WorkerTypeOK
<1>6. /\ new \in RowRecord /\ new.attempts = rows[d.hook].attempts + 1
      /\ worker[w].phase = "accepted" <=> new.status = "delivered"
      /\ new.status = "dead_lettered" => new.attempts > MaxAttempts
  BY <1>3, <1>5, MarkedRow
<1> HIDE DEF new
<1>7. /\ rows' \in [Hooks -> RowRecord] /\ rows'[d.hook] = new
      /\ \A g \in Hooks : g # d.hook => rows'[g] = rows[g]
  BY <1>3, <1>4, <1>6 DEF WorkerInv, WorkerTypeOK
<1>8. Holds(w, d.hook)
  BY <1>2, <1>3 DEF Holds
<1>9. QED
  BY <1>2, <1>3, <1>6, <1>7, <1>8

LEMMA MarkInv ==
  ASSUME WorkerInv, NEW w \in Workers, Mark(w)
  PROVE  WorkerInv'
<1>1. PICK h \in Hooks :
        /\ h = worker[w].batch[1].hook /\ Holds(w, h)
        /\ rows' \in [Hooks -> RowRecord] /\ rows'[h].attempts = rows[h].attempts + 1
        /\ \A g \in Hooks : g # h => rows'[g] = rows[g]
        /\ worker[w].phase = "accepted" <=> rows'[h].status = "delivered"
        /\ rows'[h].status = "dead_lettered" => rows'[h].attempts > MaxAttempts
  BY MarkFacts
<1>2. posts' = posts /\ worker[w].phase # "idle" /\ AfterHead(w)
  BY DEF Mark
<1>3. /\ worker' \in [Workers -> {Waiting} \cup Busy]
      /\ \A v \in Workers : v # w => worker'[v] = worker[v]
  BY <1>2, AfterHeadFacts DEF WorkerInv
<1>4. /\ BatchesAreSets'
      /\ \A v \in Workers, g \in Hooks : Holds(v, g)' => Holds(v, g)
      /\ ~Holds(w, h)'
  BY <1>1, <1>2, LessIsHeld
<1>5. \A v \in Workers : \A i \in Places(v)' :
        \E j \in Places(v) : worker'[v].batch[i] = worker[v].batch[j]
  BY <1>1, <1>2, LessIsHeld
<1>6. WorkerTypeOK'
  BY <1>1, <1>2, <1>3 DEF WorkerInv, WorkerTypeOK
<1>7. CopiesAreBehind'
  <2> SUFFICES ASSUME NEW v \in Workers, NEW i \in Places(v)'
               PROVE  worker'[v].batch[i].attempts <= rows'[worker'[v].batch[i].hook].attempts
    BY DEF CopiesAreBehind
  <2>1. PICK j \in Places(v) : worker'[v].batch[i] = worker[v].batch[j]
    BY <1>5
  <2>2. PICK g \in Hooks : g = worker[v].batch[j].hook
    BY HeldFacts DEF WorkerInv
  <2>3. worker[v].batch[j].attempts \in Nat /\ worker[v].batch[j].attempts <= rows[g].attempts
    BY <2>2, HeldFacts DEF WorkerInv, CopiesAreBehind
  <2>4. rows[g].attempts \in Nat /\ rows'[g].attempts \in {rows[g].attempts, rows[g].attempts + 1}
    BY <1>1 DEF WorkerInv, WorkerTypeOK, RowRecord
  <2>5. QED
    BY <2>1, <2>2, <2>3, <2>4
<1>8. SharedIsKnown' /\ SecondCopyIsExplained'
  BY <1>2, <1>4 DEF WorkerInv, SharedIsKnown, SecondCopyIsExplained
<1>9. LateIsKnown'
  <2> SUFFICES ASSUME NEW g \in Hooks, NEW v \in Workers, rows'[g].status = "delivered",
                      Holds(v, g)', ~posts[g].shared
               PROVE  FALSE
    BY <1>2 DEF LateIsKnown
  <2>1. Holds(v, g)
    BY <1>4
  <2>2. CASE g = h
    \* Another loop holds what this one marked.
    BY <1>1, <1>4, <2>1, <2>2 DEF WorkerInv, SharedIsKnown
  <2>3. CASE g # h
    BY <1>1, <2>1, <2>3 DEF WorkerInv, LateIsKnown
  <2>4. QED
    BY <2>2, <2>3
<1>10. AcceptedIsMarked'
  <2> SUFFICES ASSUME NEW g \in Hooks, posts[g].accepted > 0, ~posts[g].shared,
                      ~posts[g].unmarked, rows'[g].status # "delivered"
               PROVE  \E v \in Workers : /\ worker'[v].phase = "accepted"
                                         /\ worker'[v].batch[1].hook = g
    BY <1>2 DEF AcceptedIsMarked
  <2>1. rows[g].status # "delivered"
    BY <1>1 DEF WorkerInv, LateIsKnown
  <2>2. PICK v \in Workers : worker[v].phase = "accepted" /\ worker[v].batch[1].hook = g
    BY <2>1 DEF WorkerInv, AcceptedIsMarked
  <2>3. v # w
    BY <1>1, <2>2
  <2>4. QED
    BY <1>3, <2>2, <2>3
<1>11. GivenUpAfterAllAttempts'
  BY <1>1 DEF WorkerInv, GivenUpAfterAllAttempts
<1>12. QED
  BY <1>4, <1>6, <1>7, <1>8, <1>9, <1>10, <1>11 DEF WorkerInv

\* An UPDATE that fails, or a process that stops with a POST that was answered,
\* leaves the delivery unmarked.  The row is as it was.
LEMMA LossFacts ==
  ASSUME WorkerInv, NEW w \in Workers, MarkIsLost(w) \/ StopWorker(w)
  PROVE  \E h \in Hooks :
           /\ h = worker[w].batch[1].hook /\ rows' = rows
           /\ posts' \in [Hooks -> PostRecord]
           /\ \A g \in Hooks : /\ posts'[g].accepted = posts[g].accepted
                               /\ posts'[g].shared = posts[g].shared
                               /\ posts[g].unmarked => posts'[g].unmarked
           /\ worker[w].phase = "accepted" => posts'[h].unmarked
<1>1. worker[w].phase # "idle"
  BY DEF MarkIsLost, StopWorker, WorkerInv, WorkerTypeOK, Busy
<1>2. PICK h \in Hooks : h = worker[w].batch[1].hook /\ h = Head(worker[w].batch).hook
  BY <1>1, BusyFacts, HeldFacts DEF WorkerInv
<1>3. PICK p \in PostRecord : p = posts[h]
  BY DEF WorkerInv, WorkerTypeOK
<1>4. PICK value \in BOOLEAN : /\ posts' = [posts EXCEPT ![h].unmarked = value]
                               /\ p.unmarked => value
                               /\ worker[w].phase = "accepted" => value
  <2>1. CASE MarkIsLost(w)
    BY <1>2, <2>1 DEF MarkIsLost
  <2>2. CASE StopWorker(w)
    <3>1. posts' = [posts EXCEPT ![h].unmarked = p.unmarked \/ worker[w].phase # "posting"]
      BY <1>2, <1>3, <2>2 DEF StopWorker
    <3>2. QED
      BY <3>1
  <2>3. QED
    BY <2>1, <2>2
<1> DEFINE new == [p EXCEPT !.unmarked = value]
<1>5. new \in PostRecord
  BY Zenon DEF PostRecord
<1>6. new.accepted = p.accepted /\ new.shared = p.shared /\ new.unmarked = value
  BY DEF PostRecord
<1>7. posts' = [posts EXCEPT ![h] = new]
  BY <1>3, <1>4 DEF WorkerInv, WorkerTypeOK
<1> HIDE DEF new
<1>8. /\ posts' \in [Hooks -> PostRecord] /\ posts'[h] = new
      /\ \A g \in Hooks : g # h => posts'[g] = posts[g]
  BY <1>5, <1>7 DEF WorkerInv, WorkerTypeOK
<1>9. rows' = rows
  BY DEF MarkIsLost, StopWorker
<1>10. /\ posts'[h].accepted = posts[h].accepted /\ posts'[h].shared = posts[h].shared
       /\ posts[h].unmarked => posts'[h].unmarked
       /\ worker[w].phase = "accepted" => posts'[h].unmarked
  BY <1>3, <1>4, <1>6, <1>8
<1>11. QED
  BY <1>2, <1>8, <1>9, <1>10

LEMMA LossInv ==
  ASSUME WorkerInv, NEW w \in Workers, MarkIsLost(w) \/ StopWorker(w)
  PROVE  WorkerInv'
<1>1. PICK h \in Hooks :
        /\ h = worker[w].batch[1].hook /\ rows' = rows
        /\ posts' \in [Hooks -> PostRecord]
        /\ \A g \in Hooks : /\ posts'[g].accepted = posts[g].accepted
                            /\ posts'[g].shared = posts[g].shared
                            /\ posts[g].unmarked => posts'[g].unmarked
        /\ worker[w].phase = "accepted" => posts'[h].unmarked
  BY LossFacts
<1>2. /\ worker' \in [Workers -> {Waiting} \cup Busy] /\ BatchesAreSets'
      /\ \A v \in Workers : v # w => worker'[v] = worker[v]
      /\ \A v \in Workers, g \in Hooks : Holds(v, g)' => Holds(v, g)
      /\ \A v \in Workers : \A i \in Places(v)' :
           \E j \in Places(v) : worker'[v].batch[i] = worker[v].batch[j]
  <2>1. CASE MarkIsLost(w)
    <3>1. worker[w].phase # "idle" /\ AfterHead(w)
      BY <2>1 DEF MarkIsLost
    <3>2. QED
      BY <1>1, <3>1, AfterHeadFacts, LessIsHeld DEF WorkerInv
  <2>2. CASE StopWorker(w)
    <3>1. /\ worker' \in [Workers -> {Waiting} \cup Busy] /\ worker'[w] = Waiting
          /\ \A v \in Workers : v # w => worker'[v] = worker[v]
      BY <2>2 DEF StopWorker, WorkerInv, WorkerTypeOK
    <3>2. Places(w)' = {} /\ \A v \in Workers : v # w => Places(v)' = Places(v)
      BY <3>1 DEF Places, Waiting
    <3>3. \A v \in Workers : \A i \in Places(v)' :
            i \in Places(v) /\ worker'[v].batch[i] = worker[v].batch[i]
      BY <3>1, <3>2
    <3>4. BatchesAreSets'
      BY <3>3 DEF WorkerInv, BatchesAreSets
    <3>5. \A v \in Workers, g \in Hooks : Holds(v, g)' => Holds(v, g)
      BY <3>3 DEF Holds
    <3>6. QED
      BY <3>1, <3>3, <3>4, <3>5
  <2>3. QED
    BY <2>1, <2>2
<1>3. WorkerTypeOK'
  BY <1>1, <1>2 DEF WorkerInv, WorkerTypeOK
<1>4. CopiesAreBehind'
  BY <1>1, <1>2 DEF WorkerInv, CopiesAreBehind
<1>5. SharedIsKnown' /\ LateIsKnown' /\ SecondCopyIsExplained' /\ GivenUpAfterAllAttempts'
  BY <1>1, <1>2 DEF WorkerInv, SharedIsKnown, LateIsKnown, SecondCopyIsExplained,
     GivenUpAfterAllAttempts
<1>6. AcceptedIsMarked'
  <2> SUFFICES ASSUME NEW g \in Hooks, posts[g].accepted > 0, ~posts[g].shared,
                      ~posts'[g].unmarked, rows[g].status # "delivered"
               PROVE  \E v \in Workers : /\ worker'[v].phase = "accepted"
                                         /\ worker'[v].batch[1].hook = g
    BY <1>1 DEF AcceptedIsMarked
  <2>1. PICK v \in Workers : worker[v].phase = "accepted" /\ worker[v].batch[1].hook = g
    BY <1>1 DEF WorkerInv, AcceptedIsMarked
  <2>2. v # w
    BY <1>1, <2>1
  <2>3. QED
    BY <1>2, <2>1, <2>2
<1>7. QED
  BY <1>2, <1>3, <1>4, <1>5, <1>6 DEF WorkerInv

\* A row that leaves `delivered` is marked by a loop that held it all along.
LEMMA NextWorkerInv ==
  ASSUME WorkerInv, [WorkerNext]_workerVars
  PROVE  /\ WorkerInv'
         /\ \A h \in Hooks : rows[h].status = "delivered" /\ rows'[h].status # "delivered"
                             => posts[h].shared
<1> DEFINE Kept == \A h \in Hooks : rows[h].status = "delivered" /\ rows'[h].status # "delivered"
                                    => posts[h].shared
<1>1. ASSUME NEW queued \in SUBSET Hooks, DispatchEvent(queued) PROVE WorkerInv' /\ Kept
  <2>1. Kept
    BY <1>1 DEF DispatchEvent, NoDelivery
  <2>2. QED
    BY <1>1, <2>1, DispatchEventInv
<1>2. ASSUME UNCHANGED <<rows, worker, posts>> PROVE WorkerInv' /\ Kept
  BY <1>2 DEF WorkerInv, WorkerTypeOK, BatchesAreSets, CopiesAreBehind, SharedIsKnown,
     LateIsKnown, AcceptedIsMarked, SecondCopyIsExplained, GivenUpAfterAllAttempts, Holds, Places
<1>3. ASSUME NEW h \in Hooks, RetryComes(h) PROVE WorkerInv' /\ Kept
  <2>1. Kept
    BY <1>3 DEF RetryComes, WorkerInv, WorkerTypeOK, RowRecord
  <2>2. QED
    BY <1>3, <2>1, RetryComesInv
<1>4. ASSUME NEW w \in Workers, Mark(w) PROVE WorkerInv' /\ Kept
  <2>1. PICK h \in Hooks : Holds(w, h) /\ \A g \in Hooks : g # h => rows'[g] = rows[g]
    BY <1>4, MarkFacts
  <2>2. Kept
    BY <2>1 DEF WorkerInv, LateIsKnown
  <2>3. QED
    BY <1>4, <2>2, MarkInv
<1>5. ASSUME NEW w \in Workers,
             DuePendingDeliveries(w) \/ Deliver(w) \/ MarkIsLost(w) \/ StopWorker(w)
      PROVE  WorkerInv' /\ Kept
  <2>1. rows' = rows
    BY <1>5 DEF DuePendingDeliveries, Deliver, MarkIsLost, StopWorker
  <2>2. QED
    BY <1>5, <2>1, DueInv, DeliverInv, LossInv, SMTT(30)
<1>6. QED
  BY <1>1, <1>2, <1>3, <1>4, <1>5 DEF WorkerNext, DeleteEndpoint, workerVars

\* The inductive invariant of the deliveries.
THEOREM WorkerInvariant == WorkerSpec => []WorkerInv
  BY InitWorkerInv, NextWorkerInv, PTL DEF WorkerSpec

\* However the loops of several processes overlap, an endpoint gets a second copy, and
\* a delivery is given up or leaves `delivered`, only for the reasons named
\* (worker.go:73-122, store.go:141-202).
THEOREM SpecDeliveriesAreExplained == WorkerSpec => DeliveriesAreExplained
<1>1. WorkerInv => SecondCopyIsExplained /\ GivenUpAfterAllAttempts
  BY DEF WorkerInv
<1>2. WorkerInv /\ [WorkerNext]_workerVars =>
        [\A h \in Hooks : rows[h].status = "delivered" /\ rows'[h].status # "delivered"
                          => posts[h].shared]_rows
  BY NextWorkerInv
<1>3. QED
  BY <1>1, <1>2, WorkerInvariant, PTL DEF WorkerSpec, DeliveriesAreExplained, DeliveredIsKept

(***************************************************************************)
(* Controls and their assessments (ControlFramework)                       *)
(***************************************************************************)

ControlRow    == [key : Keys, active : BOOLEAN]
AssessmentRow == [status : Statuses, rewound : BOOLEAN]
CheckedCall   == [phase : {"checked"}, status : Statuses]

FrameworkTypeOK ==
  /\ \A c \in Controls : controls[c] \in {NoControl} \cup ControlRow
  /\ DOMAIN controls = Controls
  /\ walk \in [phase : {"idle", "reading", "done"}, offset : Nat,
               seen : SUBSET Controls, steady : SUBSET Controls]
  /\ assessment \in {NoRow} \cup AssessmentRow
  /\ assessor \in [Assessors -> {NoCall} \cup CheckedCall]

\* The controls a page is to come to before c.
Before(c)    == {d \in Selected : controls[d].key < controls[c].key}
KeysDistinct == \A c, d \in Rows : controls[c].key = controls[d].key => c = d

\* Every control the walk is still to show is behind the rows it has passed;
\* rows only get more, so it stays behind.
UnseenIsAhead ==
  /\ walk.steady \subseteq Selected
  /\ backend = "postgres" /\ KeysDistinct =>
       /\ walk.phase = "reading" =>
            \A c \in walk.steady \ walk.seen : Cardinality(Before(c)) >= walk.offset
       /\ walk.phase = "done" => walk.steady \subseteq walk.seen

Begun == {"in_progress", "assessed", "remediation"}

\* A call that is to write assessed or remediation found the assessment begun,
\* and it still is, or a late call took it back.
ChecksHold ==
  \A a \in Assessors :
    assessor[a] # NoCall =>
      /\ assessment # NoRow
      /\ assessor[a].status \in {"assessed", "remediation"} =>
           assessment.status \in Begun \/ assessment.rewound

FrameworkInv == FrameworkTypeOK /\ UnseenIsAhead /\ ChecksHold

LEMMA InitFrameworkInv == FrameworkInit => FrameworkInv
<1> SUFFICES ASSUME FrameworkInit PROVE FrameworkInv
  OBVIOUS
<1> USE DEF FrameworkInit
<1>1. FrameworkTypeOK
  BY DEF FrameworkTypeOK, NoWalk
<1>2. UnseenIsAhead
  BY DEF UnseenIsAhead, NoWalk
<1>3. ChecksHold
  BY DEF ChecksHold
<1>4. QED
  BY <1>1, <1>2, <1>3 DEF FrameworkInv

(***************************************************************************)
(* Pages                                                                   *)
(***************************************************************************)

\* A selected control is a row, with a key.
LEMMA SelectedHasKey ==
  ASSUME FrameworkTypeOK, NEW c \in Selected
  PROVE  c \in Rows /\ controls[c].key \in Nat
<1>1. c \in Controls /\ controls[c].active
  BY DEF Selected
<1>2. controls[c] # NoControl
  BY <1>1 DEF NoControl
<1>3. controls[c] \in ControlRow
  BY <1>1, <1>2 DEF FrameworkTypeOK
<1>4. controls[c].key \in Keys
  BY <1>3 DEF ControlRow
<1>5. QED
  BY <1>1, <1>2, <1>4, FrameworkAssumption DEF Rows

\* The selected controls are finitely many, and any order of them has each once.
LEMMA OrderHasEach ==
  ASSUME NEW s \in Sorted(Selected)
  PROVE  /\ IsFiniteSet(Selected) /\ Cardinality(Selected) \in Nat
         /\ s \in [1..Cardinality(Selected) -> Selected]
         /\ Len(s) = Cardinality(Selected)
         /\ \A i, j \in 1..Len(s) : i # j => s[i] # s[j]
         /\ \A i, j \in 1..Len(s) : i < j => controls[s[i]].key <= controls[s[j]].key
         /\ \A c \in Selected : \E i \in 1..Len(s) : s[i] = c
<1> DEFINE n == Cardinality(Selected)
<1>1. IsFiniteSet(Selected) /\ n \in Nat
  BY FS_Subset, FS_CardinalityType, FrameworkAssumption DEF Selected
<1>2. /\ s \in [1..n -> Selected]
      /\ \A i, j \in 1..n : i # j => s[i] # s[j]
      /\ \A i, j \in 1..Len(s) : i < j => controls[s[i]].key <= controls[s[j]].key
  BY DEF Sorted, SetToSeqs
<1>3. Len(s) = n
  BY <1>1, <1>2
<1>4. s \in Injection(1..n, Selected)
  BY <1>2 DEF Injection, IsInjective
<1>5. Cardinality(1..n) = n
  BY <1>1, FS_Interval
<1>6. s \in Surjection(1..n, Selected)
  BY <1>1, <1>4, <1>5, FS_Injection
<1>7. \A c \in Selected : \E i \in 1..n : s[i] = c
  BY <1>6 DEF Surjection
<1>8. QED
  BY <1>1, <1>2, <1>3, <1>7

\* With distinct keys, as many controls come before one as its place says.
LEMMA PlaceCounts ==
  ASSUME FrameworkTypeOK, KeysDistinct,
         NEW s \in Sorted(Selected), NEW i \in 1..Len(s)
  PROVE  Cardinality(Before(s[i])) = i - 1
<1> DEFINE f == [j \in 1..(i - 1) |-> s[j]]
           B == Before(s[i])
<1>1. /\ s \in [1..Cardinality(Selected) -> Selected]
      /\ Len(s) = Cardinality(Selected) /\ Len(s) \in Nat
      /\ \A k, j \in 1..Len(s) : k # j => s[k] # s[j]
      /\ \A k, j \in 1..Len(s) : k < j => controls[s[k]].key <= controls[s[j]].key
      /\ \A c \in Selected : \E k \in 1..Len(s) : s[k] = c
  BY OrderHasEach
<1>2. \A c \in Selected : c \in Rows /\ controls[c].key \in Nat
  BY SelectedHasKey
<1>3. i \in Nat /\ i - 1 \in Nat
  BY <1>1
<1>4. ASSUME NEW j \in 1..(i - 1) PROVE s[j] \in B
  <2>1. j \in 1..Len(s) /\ j < i /\ s[j] \in Selected /\ s[i] \in Selected
    BY <1>1, <1>3
  <2>2. s[j] # s[i] /\ controls[s[j]].key <= controls[s[i]].key
    BY <1>1, <2>1
  <2>3. controls[s[j]].key # controls[s[i]].key
    BY <1>2, <2>1, <2>2 DEF KeysDistinct
  <2>4. QED
    BY <1>2, <2>1, <2>2, <2>3 DEF Before
<1>5. ASSUME NEW d \in B PROVE \E j \in 1..(i - 1) : s[j] = d
  <2>1. d \in Selected /\ s[i] \in Selected /\ controls[d].key < controls[s[i]].key
    BY <1>1 DEF Before
  <2>2. PICK k \in 1..Len(s) : s[k] = d
    BY <1>1, <2>1
  <2>3. ~(i <= k)
    <3> SUFFICES ASSUME i <= k PROVE FALSE
      OBVIOUS
    <3>1. controls[s[i]].key <= controls[d].key
      BY <1>1, <1>2, <2>1, <2>2
    <3>2. QED
      BY <1>2, <2>1, <3>1
  <2>4. QED
    BY <1>1, <2>2, <2>3
<1>6. f \in [1..(i - 1) -> B]
  BY <1>4
<1>7. f \in Surjection(1..(i - 1), B)
  BY <1>5, <1>6 DEF Surjection
<1>8. f \in Injection(1..(i - 1), B)
  BY <1>1, <1>3, <1>6 DEF Injection, IsInjective
<1>9. IsFiniteSet(1..(i - 1)) /\ Cardinality(1..(i - 1)) = i - 1
  BY <1>3, FS_Interval
<1>10. QED
  BY <1>7, <1>8, <1>9, FS_Surjection

\* A page shows what its places say: of a control the walk has not seen there
\* are the controls of the page before it too, and the page is full.
LEMMA PageShows ==
  ASSUME FrameworkTypeOK, KeysDistinct, NEW s \in Sorted(Selected),
         NEW offset \in Nat, NEW c \in Selected,
         Cardinality(Before(c)) >= offset, c \notin Page(s, offset)
  PROVE  /\ Cardinality(Before(c)) >= offset + PageSize
         /\ Cardinality(Page(s, offset)) = PageSize
<1> DEFINE page == Page(s, offset)
           places == (offset + 1)..(offset + PageSize)
           f == [j \in places |-> s[j]]
<1>1. /\ s \in [1..Cardinality(Selected) -> Selected]
      /\ Len(s) = Cardinality(Selected) /\ Len(s) \in Nat
      /\ \A k, j \in 1..Len(s) : k # j => s[k] # s[j]
      /\ \A d \in Selected : \E k \in 1..Len(s) : s[k] = d
  BY OrderHasEach
<1>2. PageSize \in Nat \ {0}
  BY FrameworkAssumption
<1>3. PICK i \in 1..Len(s) : s[i] = c
  BY <1>1
<1>4. Cardinality(Before(c)) = i - 1
  BY <1>3, PlaceCounts
<1>5. i \in Nat /\ i >= offset + 1
  BY <1>1, <1>4
<1>6. i > offset + PageSize
  BY <1>1, <1>2, <1>3, <1>5 DEF Page
<1>7. offset + PageSize < Len(s)
  BY <1>1, <1>2, <1>6
<1>8. page = {s[j] : j \in places}
  BY <1>7 DEF Page
<1>9. f \in [places -> page] /\ \A d \in page : \E j \in places : f[j] = d
  BY <1>8
<1>10. \A k, j \in places : k # j => f[k] # f[j]
  BY <1>1, <1>2, <1>7
<1>11. f \in Surjection(places, page)
  BY <1>9 DEF Surjection
<1>12. f \in Injection(places, page)
  BY <1>9, <1>10 DEF Injection, IsInjective
<1>13. IsFiniteSet(places) /\ Cardinality(places) = PageSize
  BY <1>2, FS_Interval
<1>14. Cardinality(page) = PageSize
  BY <1>11, <1>12, <1>13, FS_Surjection
<1>15. QED
  BY <1>2, <1>4, <1>5, <1>6, <1>14

\* Rows are never deleted and keep their key, so those of a row that stays in
\* the filter still come before it.
LEMMA BeforeGrows ==
  ASSUME FrameworkTypeOK, FrameworkTypeOK', Selected \subseteq Selected',
         \A d \in Selected : controls'[d].key = controls[d].key,
         NEW c \in Selected
  PROVE  Cardinality(Before(c)) <= Cardinality(Before(c)')
<1>1. Before(c) \subseteq Before(c)'
  BY DEF Before
<1>2. IsFiniteSet(Before(c)')
  BY FS_Subset, FrameworkAssumption DEF Before, Selected
<1>3. QED
  BY <1>1, <1>2, FS_Subset

(***************************************************************************)
(* The steps                                                               *)
(***************************************************************************)

\* What changes nothing of the controls or the walk keeps the walk's part.
LEMMA WalkKept ==
  ASSUME UnseenIsAhead, UNCHANGED <<backend, controls, walk>>
  PROVE  UnseenIsAhead'
<1>1. Selected' = Selected /\ Rows' = Rows
  BY DEF Selected, Rows
<1>2. KeysDistinct' <=> KeysDistinct
  BY <1>1 DEF KeysDistinct
<1>3. \A c : Cardinality(Before(c))' = Cardinality(Before(c))
  BY <1>1 DEF Before
<1>4. QED
  BY <1>1, <1>2, <1>3 DEF UnseenIsAhead

\* A row more, or one that enters or stays in the filter.
LEMMA GrowthKeepsWalk ==
  ASSUME FrameworkTypeOK, FrameworkTypeOK', UnseenIsAhead, UNCHANGED <<backend, walk>>,
         Rows \subseteq Rows', Selected \subseteq Selected',
         \A d \in Rows : controls'[d].key = controls[d].key
  PROVE  UnseenIsAhead'
<1>1. \A d \in Selected : d \in Rows
  BY SelectedHasKey
<1>2. KeysDistinct' => KeysDistinct
  BY DEF KeysDistinct
<1>3. walk.steady \subseteq Selected /\ walk'.steady \subseteq Selected'
  BY DEF UnseenIsAhead
<1>4. ASSUME backend' = "postgres", KeysDistinct'
      PROVE  /\ walk'.phase = "reading" =>
                  \A c \in walk'.steady \ walk'.seen :
                    Cardinality(Before(c)') >= walk'.offset
             /\ walk'.phase = "done" => walk'.steady \subseteq walk'.seen
  <2>1. /\ walk.phase = "reading" =>
             \A c \in walk.steady \ walk.seen : Cardinality(Before(c)) >= walk.offset
        /\ walk.phase = "done" => walk.steady \subseteq walk.seen
    BY <1>2, <1>4 DEF UnseenIsAhead
  <2>2. ASSUME NEW c \in walk.steady \ walk.seen, walk.phase = "reading"
        PROVE  Cardinality(Before(c)') >= walk.offset
    <3>1. c \in Selected
      BY <1>3
    <3>2. Cardinality(Before(c)) <= Cardinality(Before(c)')
      BY <1>1, <3>1, BeforeGrows
    <3>3. Cardinality(Before(c)) >= walk.offset
      BY <2>1, <2>2
    <3>4. /\ Cardinality(Before(c)) \in Nat /\ Cardinality(Before(c)') \in Nat
          /\ walk.offset \in Nat
      <4>1. IsFiniteSet(Before(c)) /\ IsFiniteSet(Before(c)')
        BY FS_Subset, FrameworkAssumption DEF Before, Selected
      <4>2. QED
        BY <4>1, FS_CardinalityType DEF FrameworkTypeOK
    <3>5. QED
      BY <3>2, <3>3, <3>4
  <2>3. QED
    BY <2>1, <2>2
<1>5. QED
  BY <1>3, <1>4 DEF UnseenIsAhead

LEMMA CreateControlKeepsInv ==
  ASSUME FrameworkInv, NEW c \in Controls, NEW key \in Keys, CreateControl(c, key)
  PROVE  FrameworkInv'
<1> USE DEF CreateControl, FrameworkInv
<1>1. key # 0 /\ [key |-> key, active |-> TRUE] \in ControlRow
  BY FrameworkAssumption DEF ControlRow
<1>2. /\ controls'[c] = [key |-> key, active |-> TRUE]
      /\ \A d \in Controls \ {c} : controls'[d] = controls[d]
      /\ DOMAIN controls' = Controls
  BY DEF FrameworkTypeOK
<1>3. FrameworkTypeOK'
  BY <1>1, <1>2 DEF FrameworkTypeOK
<1>4. c \notin Rows /\ c \notin Selected
  BY DEF Rows, Selected, NoControl
<1>5. /\ Rows \subseteq Rows' /\ Selected \subseteq Selected'
      /\ \A d \in Rows : controls'[d].key = controls[d].key
  BY <1>2, <1>4 DEF Rows, Selected
<1>6. UnseenIsAhead'
  BY <1>3, <1>5, GrowthKeepsWalk
<1>7. ChecksHold'
  BY DEF ChecksHold
<1>8. QED
  BY <1>3, <1>6, <1>7

LEMMA UpdateControlKeepsInv ==
  ASSUME FrameworkInv, NEW c \in Controls, NEW active \in BOOLEAN, UpdateControl(c, active)
  PROVE  FrameworkInv'
<1> USE DEF UpdateControl, FrameworkInv
<1>1. controls[c] \in ControlRow /\ c \in Rows
  BY DEF FrameworkTypeOK, Rows
<1>2. controls[c].key \in Keys /\ controls[c].key # 0
  BY <1>1, FrameworkAssumption DEF ControlRow
<1>3. PICK row \in ControlRow : row = [controls[c] EXCEPT !.active = active]
  BY <1>1, Zenon DEF ControlRow
<1>4. row.key = controls[c].key /\ row.active = active
  BY <1>1, <1>3 DEF ControlRow
<1>5. /\ controls'[c] = row
      /\ \A d \in Controls \ {c} : controls'[d] = controls[d]
      /\ DOMAIN controls' = Controls
  BY <1>3 DEF FrameworkTypeOK
<1>6. row # NoControl
  BY <1>2, <1>4 DEF NoControl
<1>7. FrameworkTypeOK'
  <2>1. walk' \in [phase : {"idle", "reading", "done"}, offset : Nat,
                   seen : SUBSET Controls, steady : SUBSET Controls]
    BY DEF FrameworkTypeOK
  <2>2. \A d \in Controls : controls'[d] \in {NoControl} \cup ControlRow
    BY <1>5 DEF FrameworkTypeOK
  <2>3. QED
    BY <1>5, <2>1, <2>2 DEF FrameworkTypeOK
<1>8. /\ Rows \subseteq Rows' /\ \A d \in Rows : controls'[d].key = controls[d].key
  BY <1>4, <1>5, <1>6 DEF Rows
<1>9. ChecksHold'
  BY DEF ChecksHold
<1>10. CASE active
  <2>1. Selected \subseteq Selected' /\ walk' = walk
    BY <1>4, <1>5, <1>10 DEF Selected
  <2>2. UnseenIsAhead'
    BY <1>7, <1>8, <2>1, GrowthKeepsWalk
  <2>3. QED
    BY <1>7, <1>9, <2>2
<1>11. CASE ~active
  <2>1. walk' = [walk EXCEPT !.steady = {}] /\ walk \in [phase : {"idle", "reading", "done"},
                 offset : Nat, seen : SUBSET Controls, steady : SUBSET Controls]
    BY <1>11 DEF FrameworkTypeOK
  <2>2. walk'.steady = {}
    BY <2>1
  <2>3. UnseenIsAhead'
    BY <2>2 DEF UnseenIsAhead
  <2>4. QED
    BY <1>7, <1>9, <2>3
<1>12. QED
  BY <1>10, <1>11

\* The first page is ahead of every control.
LEMMA StartWalkKeepsInv ==
  ASSUME FrameworkInv, StartWalk
  PROVE  FrameworkInv'
<1> USE DEF StartWalk, FrameworkInv
<1>1. FrameworkTypeOK'
  BY DEF FrameworkTypeOK, Selected
<1>2. ChecksHold'
  BY DEF ChecksHold
<1>3. Selected' = Selected
  BY DEF Selected
<1>4. ASSUME NEW c PROVE Cardinality(Before(c)') >= 0
  <2>1. IsFiniteSet(Before(c)')
    BY FS_Subset, FrameworkAssumption DEF Before, Selected
  <2>2. QED
    BY <2>1, FS_CardinalityType
<1>5. UnseenIsAhead'
  BY <1>3, <1>4 DEF UnseenIsAhead
<1>6. QED
  BY <1>1, <1>2, <1>5

LEMMA ListControlsKeepsInv ==
  ASSUME FrameworkInv, ListControls
  PROVE  FrameworkInv'
<1> USE DEF FrameworkInv
<1>1. PICK s \in InOrder(Selected) :
        walk' = [walk EXCEPT !.seen = @ \cup Page(s, walk.offset), !.offset = @ + PageSize,
                             !.phase = IF Cardinality(Page(s, walk.offset)) < PageSize
                                       THEN "done" ELSE "reading"]
  BY DEF ListControls
<1>2. walk.phase = "reading" /\ UNCHANGED <<backend, controls, assessment, assessor>>
  BY DEF ListControls
<1> DEFINE page == Page(s, walk.offset)
<1>3. walk \in [phase : {"idle", "reading", "done"}, offset : Nat,
                seen : SUBSET Controls, steady : SUBSET Controls]
      /\ PageSize \in Nat \ {0}
  BY FrameworkAssumption DEF FrameworkTypeOK
<1>4. /\ walk'.seen = walk.seen \cup page /\ walk'.steady = walk.steady
      /\ walk'.offset = walk.offset + PageSize
      /\ walk'.phase = IF Cardinality(page) < PageSize THEN "done" ELSE "reading"
  BY <1>1, <1>3
<1>5. page \subseteq Controls
  <2>1. s \in SetToSeqs(Selected)
    BY DEF InOrder, Sorted, Ranged
  <2>2. s \in [1..Cardinality(Selected) -> Selected] /\ Cardinality(Selected) \in Nat
    <3>1. IsFiniteSet(Selected)
      BY FS_Subset, FrameworkAssumption DEF Selected
    <3>2. QED
      BY <2>1, <3>1, FS_CardinalityType DEF SetToSeqs
  <2>3. Len(s) = Cardinality(Selected)
    BY <2>2
  <2>4. QED
    BY <1>3, <2>2, <2>3 DEF Page, Selected
<1>6. walk' \in [phase : {"idle", "reading", "done"}, offset : Nat,
                 seen : SUBSET Controls, steady : SUBSET Controls]
  <2> DEFINE phase == IF Cardinality(page) < PageSize THEN "done" ELSE "reading"
             seen == walk.seen \cup page
             offset == walk.offset + PageSize
  <2>1. phase \in {"idle", "reading", "done"} /\ offset \in Nat /\ seen \in SUBSET Controls
    BY <1>3, <1>5
  <2>2. walk' = [walk EXCEPT !.seen = seen, !.offset = offset, !.phase = phase]
    BY <1>1, Zenon
  <2> HIDE DEF page, phase, seen, offset
  <2>3. QED
    BY <1>3, <2>1, <2>2
<1>7. FrameworkTypeOK'
  BY <1>2, <1>6 DEF FrameworkTypeOK
<1>8. ChecksHold'
  BY <1>2 DEF ChecksHold
<1>9. Selected' = Selected /\ (KeysDistinct' <=> KeysDistinct)
      /\ \A c : Cardinality(Before(c))' = Cardinality(Before(c))
  BY <1>2 DEF Selected, KeysDistinct, Rows, Before
<1>10. ASSUME backend = "postgres", KeysDistinct,
              NEW c \in walk.steady \ walk'.seen
       PROVE  Cardinality(Before(c)) >= walk'.offset /\ walk'.phase = "reading"
  <2>1. s \in Sorted(Selected)
    BY <1>10 DEF InOrder
  <2>2. c \in Selected /\ Cardinality(Before(c)) >= walk.offset /\ c \notin page
    BY <1>2, <1>4, <1>10 DEF UnseenIsAhead
  <2>3. Cardinality(Before(c)) >= walk.offset + PageSize /\ Cardinality(page) = PageSize
    BY <1>3, <1>10, <2>1, <2>2, PageShows
  <2>4. QED
    BY <1>3, <1>4, <2>3
<1>11. UnseenIsAhead'
  <2>1. walk'.steady \subseteq Selected'
    BY <1>4, <1>9 DEF UnseenIsAhead
  <2>2. ASSUME backend' = "postgres", KeysDistinct'
        PROVE  /\ walk'.phase = "reading" =>
                    \A c \in walk'.steady \ walk'.seen :
                      Cardinality(Before(c)') >= walk'.offset
               /\ walk'.phase = "done" => walk'.steady \subseteq walk'.seen
    BY <1>2, <1>4, <1>9, <1>10, <2>2
  <2>3. QED
    BY <2>1, <2>2 DEF UnseenIsAhead
<1>12. QED
  BY <1>7, <1>8, <1>11

\* What a call may write agrees with the row it found.
LEMMA AssessControlKeepsInv ==
  ASSUME FrameworkInv, NEW a \in Assessors, NEW status \in Statuses, AssessControl(a, status)
  PROVE  /\ FrameworkInv'
         /\ assessment' # assessment =>
              assessment.status \notin Begun /\ assessment'.status = "not_started"
<1> USE DEF FrameworkInv
<1>1. /\ assessor[a] = NoCall /\ assessment' = GetOrCreateAssessment
      /\ assessor' = IF Admitted(assessment'.status, status)
                     THEN [assessor EXCEPT ![a] = [phase |-> "checked", status |-> status]]
                     ELSE assessor
      /\ UNCHANGED <<backend, controls, walk>>
  BY DEF AssessControl
<1>2. \/ assessment = NoRow /\ assessment' = [status |-> "not_started", rewound |-> FALSE]
      \/ assessment # NoRow /\ assessment' = assessment
  BY <1>1 DEF GetOrCreateAssessment
<1>3. assessment' \in AssessmentRow /\ assessment' # NoRow
  <2>1. CASE assessment = NoRow
    <3>1. [status |-> "not_started", rewound |-> FALSE] \in AssessmentRow
      BY DEF AssessmentRow, Statuses
    <3>2. [status |-> "not_started", rewound |-> FALSE] # NoRow
      BY DEF NoRow
    <3>3. QED
      BY <1>2, <2>1, <3>1, <3>2
  <2>2. CASE assessment # NoRow
    BY <1>2, <2>2 DEF FrameworkTypeOK
  <2>3. QED
    BY <2>1, <2>2
<1>4. [phase |-> "checked", status |-> status] \in CheckedCall
  BY DEF CheckedCall
<1>5. FrameworkTypeOK'
  BY <1>1, <1>3, <1>4 DEF FrameworkTypeOK
<1>6. UnseenIsAhead'
  BY <1>1, WalkKept
<1>7. Admitted(assessment'.status, status) /\ status \in {"assessed", "remediation"}
        => assessment'.status \in Begun
  BY DEF Admitted, CanTransitionTo, Begun
<1>8. ChecksHold'
  <2> SUFFICES ASSUME NEW b \in Assessors, assessor'[b] # NoCall
               PROVE  assessor'[b].status \in {"assessed", "remediation"} =>
                        assessment'.status \in Begun \/ assessment'.rewound
    BY <1>3 DEF ChecksHold
  <2>1. CASE assessor'[b] = assessor[b]
    BY <1>2, <2>1 DEF ChecksHold
  <2>2. CASE assessor'[b] # assessor[b]
    <3>1. Admitted(assessment'.status, status) /\ b = a
          /\ assessor'[b] = [phase |-> "checked", status |-> status]
      BY <1>1, <2>2 DEF FrameworkTypeOK
    <3>2. QED
      BY <1>7, <3>1
  <2>3. QED
    BY <2>1, <2>2
<1>9. assessment' # assessment =>
        assessment.status \notin Begun /\ assessment'.status = "not_started"
  BY <1>2 DEF NoRow, Begun
<1>10. QED
  BY <1>5, <1>6, <1>8, <1>9

LEMMA UpdateAssessmentStatusKeepsInv ==
  ASSUME FrameworkInv, NEW a \in Assessors, UpdateAssessmentStatus(a)
  PROVE  /\ FrameworkInv'
         /\ \/ assessment'.rewound
            \/ assessment.status \in Begun /\ assessment'.status \in Begun
            \/ /\ assessment.status \notin Begun
               /\ assessment'.status \in {"not_started", "in_progress"}
<1> USE DEF FrameworkInv
<1> DEFINE status == assessor[a].status
           back == \/ assessment.rewound
                   \/ status = "not_started" /\ assessment.status # "not_started"
<1>1. /\ assessor[a].phase = "checked"
      /\ assessment' = [status |-> status, rewound |-> back]
      /\ assessor' = [assessor EXCEPT ![a] = NoCall]
      /\ UNCHANGED <<backend, controls, walk>>
  BY DEF UpdateAssessmentStatus
<1>2. assessor[a] # NoCall /\ status \in Statuses
  BY <1>1 DEF FrameworkTypeOK, NoCall, CheckedCall
<1>3. assessment # NoRow /\ assessment \in AssessmentRow
      /\ (status \in {"assessed", "remediation"} =>
            assessment.status \in Begun \/ assessment.rewound)
  BY <1>2 DEF ChecksHold, FrameworkTypeOK
<1>4. assessment.status \in Statuses /\ assessment.rewound \in BOOLEAN
  BY <1>3 DEF AssessmentRow
<1>5. back \in BOOLEAN /\ (back <=> \/ assessment.rewound
                                    \/ status = "not_started" /\ assessment.status # "not_started")
  BY <1>4
<1> HIDE DEF back
<1>6. assessment' \in AssessmentRow /\ assessment'.status = status
      /\ assessment'.rewound = back /\ assessment' # NoRow
  BY <1>1, <1>2, <1>5 DEF AssessmentRow, NoRow, Statuses
<1>7. FrameworkTypeOK'
  BY <1>1, <1>6 DEF FrameworkTypeOK
<1>8. UnseenIsAhead'
  BY <1>1, WalkKept
<1>9. assessment.status \in Begun \/ assessment.rewound =>
        assessment'.status \in Begun \/ assessment'.rewound
  BY <1>2, <1>5, <1>6 DEF Begun, Statuses
<1>10. ChecksHold'
  <2> SUFFICES ASSUME NEW b \in Assessors, assessor'[b] # NoCall
               PROVE  assessor'[b].status \in {"assessed", "remediation"} =>
                        assessment'.status \in Begun \/ assessment'.rewound
    BY <1>6 DEF ChecksHold
  <2>1. assessor'[b] = assessor[b]
    BY <1>1 DEF FrameworkTypeOK
  <2>2. QED
    BY <1>9, <2>1 DEF ChecksHold
<1>11. \/ assessment'.rewound
       \/ assessment.status \in Begun /\ assessment'.status \in Begun
       \/ /\ assessment.status \notin Begun
          /\ assessment'.status \in {"not_started", "in_progress"}
  BY <1>2, <1>3, <1>4, <1>5, <1>6 DEF Begun, Statuses
<1>12. QED
  BY <1>7, <1>8, <1>10, <1>11

LEMMA AbandonAssessmentKeepsInv ==
  ASSUME FrameworkInv, NEW a \in Assessors, AbandonAssessment(a)
  PROVE  FrameworkInv'
<1> USE DEF AbandonAssessment, FrameworkInv
<1>1. FrameworkTypeOK'
  BY DEF FrameworkTypeOK
<1>2. UnseenIsAhead'
  BY WalkKept
<1>3. ChecksHold'
  BY DEF ChecksHold, FrameworkTypeOK
<1>4. QED
  BY <1>1, <1>2, <1>3

\* A step keeps the invariant, and moves the assessment as the machine has it.
LEMMA NextFrameworkInv ==
  ASSUME FrameworkInv, [FrameworkNext]_frameworkVars
  PROVE  /\ FrameworkInv'
         /\ assessment' # assessment =>
              \/ assessment'.rewound
              \/ assessment.status \in Begun /\ assessment'.status \in Begun
              \/ /\ assessment.status \notin Begun
                 /\ assessment'.status \in {"not_started", "in_progress"}
<1>1. CASE \E c \in Controls, key \in Keys : CreateControl(c, key)
  BY <1>1, CreateControlKeepsInv DEF CreateControl
<1>2. CASE \E c \in Controls, active \in BOOLEAN : UpdateControl(c, active)
  BY <1>2, UpdateControlKeepsInv DEF UpdateControl
<1>3. CASE StartWalk
  BY <1>3, StartWalkKeepsInv DEF StartWalk
<1>4. CASE ListControls
  BY <1>4, ListControlsKeepsInv DEF ListControls
<1>5. CASE \E a \in Assessors, status \in Statuses : AssessControl(a, status)
  BY <1>5, AssessControlKeepsInv
<1>6. CASE \E a \in Assessors : UpdateAssessmentStatus(a)
  BY <1>6, UpdateAssessmentStatusKeepsInv
<1>7. CASE \E a \in Assessors : AbandonAssessment(a)
  BY <1>7, AbandonAssessmentKeepsInv DEF AbandonAssessment
<1>8. CASE UNCHANGED frameworkVars
  <2>1. FrameworkTypeOK' /\ ChecksHold'
    BY <1>8 DEF frameworkVars, FrameworkInv, FrameworkTypeOK, ChecksHold
  <2>2. UnseenIsAhead'
    BY <1>8, WalkKept DEF frameworkVars, FrameworkInv
  <2>3. QED
    BY <1>8, <2>1, <2>2 DEF frameworkVars, FrameworkInv
<1>9. QED
  BY <1>1, <1>2, <1>3, <1>4, <1>5, <1>6, <1>7, <1>8 DEF FrameworkNext

\* Every behaviour keeps the invariant of the controls and their assessments.
THEOREM FrameworkInvariant == FrameworkSpec => []FrameworkInv
<1>1. FrameworkInit => FrameworkInv
  BY InitFrameworkInv
<1>2. FrameworkInv /\ [FrameworkNext]_frameworkVars => FrameworkInv'
  BY NextFrameworkInv
<1>3. QED
  BY <1>1, <1>2, PTL DEF FrameworkSpec

\* A client that read to the last page has seen every control that was there all
\* along (ListControls), and an assessment moves as its state machine has it,
\* except after a late call that takes it back to the start (AssessControl).
THEOREM SpecControlsAreKept == FrameworkSpec => ControlsAreKept
<1>1. FrameworkInv => WalkMissesNothing
  BY DEF FrameworkInv, UnseenIsAhead, WalkMissesNothing, KeysDistinct
<1>2. FrameworkInv /\ [FrameworkNext]_frameworkVars
        => [LET begun == {"in_progress", "assessed", "remediation"}
            IN  \/ assessment'.rewound
                \/ assessment.status \in begun /\ assessment'.status \in begun
                \/ assessment.status \notin begun
                   /\ assessment'.status \in {"not_started", "in_progress"}]_assessment
  BY NextFrameworkInv DEF Begun
<1>3. QED
  BY <1>1, <1>2, FrameworkInvariant, PTL
     DEF FrameworkSpec, ControlsAreKept, StatusFollowsMachine
=============================================================================
