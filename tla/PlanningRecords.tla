--------------------------- MODULE PlanningRecords ---------------------------
(***************************************************************************)
(* The assurance maps and resource calendars of the planning service: who  *)
(* covers which control domain of which business unit, and how the         *)
(* auditors' days are booked.  Neither has a status or a version: a PATCH  *)
(* gets a copy, replaces the fields it names and updates the store, and    *)
(* other requests run between the two calls.                               *)
(*                                                                         *)
(* Abstracted: one map and one calendar, each of one organisation; names   *)
(* are marks that tell requests apart; an assignment is its number of      *)
(* days.                                                                   *)
(***************************************************************************)
EXTENDS Naturals, Integers, Sequences, SequencesExt

CONSTANTS BusinessUnits, ControlDomains,
          Names,        \* names clients give
          Matrices,     \* matrices clients send
          Calendars,    \* lists of auditor allocations clients send
          Patches       \* PATCH requests being served

VARIABLES record,       \* record[k]: the map and the calendar, or NoRecord
          patch,        \* what each PATCH is doing, with its copy
          answered,     \* per kind, the fields as the answers since the last
                        \* creation left them
          overlapped    \* kinds of which two PATCHes ran at the same time

recordVars == <<record, patch, answered, overlapped>>

Kinds    == {"assurance_map", "resource_calendar"}
NoRecord == [name |-> "none"]
NoPatch  == [phase |-> "idle"]

RecordsInit == /\ record = [k \in Kinds |-> NoRecord]
               /\ patch = [p \in Patches |-> NoPatch]
               /\ answered = [k \in Kinds |-> NoRecord]
               /\ overlapped = {}

(***************************************************************************)
(* internal/domain/plan.go                                                 *)
(***************************************************************************)

\* Mutant: one row of cells, for the first unit only.
EmptyMatrix_OneUnit == LET u == CHOOSE x \in BusinessUnits : TRUE
                       IN  {[unit |-> u, domain |-> d, coverage |-> "none"] :
                              d \in ControlDomains}

EmptyMatrix == {[unit |-> u, domain |-> d, coverage |-> "none"] :
                  u \in BusinessUnits, d \in ControlDomains}

\* NewAssuranceMap: the matrix of the request or, without one, a cell for every
\* unit and domain.
NewAssuranceMap(name) == [name : {name}, body : Matrices \cup {EmptyMatrix}]

\* NewResourceCalendar: without auditors the list is empty.
NewResourceCalendar(name) == [name : {name}, body : Calendars \cup {{}}]

\* The fields that a change names, over the others.
Over(change, fields) ==
  [f \in DOMAIN fields |-> IF f \in DOMAIN change THEN change[f] ELSE fields[f]]

\* Mutant: a field that is not named is cleared.
ApplyFields_Clears(copy, change) == Over(change, [name |-> copy.name, body |-> {}])

\* Apply, of either kind: the fields the request names.
ApplyFields(copy, change) == Over(change, copy)

AllocatedDays(auditor) == FoldLeft(LAMBDA total, days : total + days, 0, auditor.assignments)

\* Days are whole, and no auditor has less than none.  The service leaves both to
\* its clients.
ASSUME CalendarsAssumption ==
  \A calendar \in Calendars : \A auditor \in calendar :
    auditor.available \in Nat /\ AllocatedDays(auditor) \in Int

\* Mutant: the division rounds to nearest.
Percentage_Nearest(part, whole) == (part * 100 + whole \div 2) \div whole

Percentage(part, whole) == (part * 100) \div whole

\* UtilisationPct.
UtilisationPct(auditor) ==
  IF auditor.available = 0 THEN 0
  ELSE LET pct == Percentage(AllocatedDays(auditor), auditor.available)
       IN  IF pct > 100 THEN 100 ELSE pct

(***************************************************************************)
(* internal/handler/handler.go and internal/store/store.go                 *)
(***************************************************************************)

CreateRecord(k, new) == /\ record[k] = NoRecord
                        /\ record' = [record EXCEPT ![k] = new]
                        /\ answered' = [answered EXCEPT ![k] = new]
                        /\ UNCHANGED <<patch, overlapped>>

CreateAssuranceMap(name) ==
  \E new \in NewAssuranceMap(name) : CreateRecord("assurance_map", new)

CreateResourceCalendar(name) ==
  \E new \in NewResourceCalendar(name) : CreateRecord("resource_calendar", new)

Bodies(k) == IF k = "assurance_map" THEN Matrices ELSE Calendars

\* The handler's Get, which copies the record.
GetCopy(p, k) ==
  /\ patch[p] = NoPatch /\ record[k] # NoRecord
  /\ patch' = [patch EXCEPT ![p] = [phase |-> "loaded", kind |-> k, copy |-> record[k]]]
  /\ overlapped' = IF \E q \in Patches : patch[q] # NoPatch /\ patch[q].kind = k
                   THEN overlapped \cup {k} ELSE overlapped
  /\ UNCHANGED <<record, answered>>

\* The body does not decode.
RefusePatch(p) == /\ patch[p] # NoPatch
                  /\ patch' = [patch EXCEPT ![p] = NoPatch]
                  /\ UNCHANGED <<record, answered, overlapped>>

\* Apply, the store's Update and the answer.
UpdateRecord(p, change) ==
  LET k == patch[p].kind
  IN  /\ record' = [record EXCEPT ![k] = ApplyFields(patch[p].copy, change)]
      /\ answered' = [answered EXCEPT ![k] = Over(change, @)]
      /\ patch' = [patch EXCEPT ![p] = NoPatch]
      /\ UNCHANGED overlapped

\* The changes a request can name: none, either field or both.
Patched(p) ==
  /\ patch[p] # NoPatch
  /\ \/ UpdateRecord(p, [f \in {} |-> f])
     \/ \E n \in Names : UpdateRecord(p, [name |-> n])
     \/ \E b \in Bodies(patch[p].kind) : \/ UpdateRecord(p, [body |-> b])
                                        \/ \E n \in Names : UpdateRecord(p, [name |-> n, body |-> b])

RecordsNext ==
  \/ \E n \in Names : CreateAssuranceMap(n) \/ CreateResourceCalendar(n)
  \/ \E p \in Patches : \E k \in Kinds : GetCopy(p, k)
  \/ \E p \in Patches : RefusePatch(p) \/ Patched(p)

RecordsSpec == RecordsInit /\ [][RecordsNext]_recordVars

(***************************************************************************)
(* Properties                                                              *)
(***************************************************************************)

\* Every change that was answered is in the record, field by field, unless two
\* PATCHes of it overlapped (UpdateAssuranceMap, handler.go:523-552, and
\* UpdateResourceCalendar, 609-638).
ChangesAreKept == \A k \in Kinds \ overlapped : record[k] = answered[k]

\* An overlap loses whole fields only: what is stored was sent or built by a
\* creation, never a mixture of two matrices, and a map created without a matrix
\* and not patched since has a cell for every pair (NewAssuranceMap,
\* plan.go:398-433).
MatrixIsWhole ==
  record["assurance_map"] # NoRecord =>
    \/ record["assurance_map"].body \in Matrices
    \/ \A u \in BusinessUnits, d \in ControlDomains :
         \E c \in record["assurance_map"].body : c.unit = u /\ c.domain = d

\* An auditor with days to give reads 100 % exactly when they are all booked,
\* and one without reads 0 % whatever is booked (UtilisationPct,
\* plan.go:486-495).
FullMeansBooked ==
  record["resource_calendar"] # NoRecord =>
    \A a \in record["resource_calendar"].body :
      (UtilisationPct(a) = 100) <=> (a.available > 0 /\ AllocatedDays(a) >= a.available)

\* A map or calendar is what its creation and its answered PATCHes made of it, and
\* its figures follow from it (handler.go:523-638, plan.go:398-495).
RecordsAreKept == ChangesAreKept /\ MatrixIsWhole /\ FullMeansBooked
=============================================================================
