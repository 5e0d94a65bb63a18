----------------------------- MODULE Engagement -----------------------------
(***************************************************************************)
(* The engagement service (services/engagement): the lifecycle of an       *)
(* engagement in internal/domain, the in-memory store and the handlers.    *)
(*                                                                         *)
(* Get copies the record but not the array behind PhaseHistory, so copies  *)
(* share it.  append allocates arrays for one, two and then four events:   *)
(* the first three events of a history never change once they are there,   *)
(* and the fourth is written into the spare slot of an array that other    *)
(* copies may share.  A handler gets its copy, decodes the body, changes   *)
(* the copy and updates the store; other requests run between these steps. *)
(*                                                                         *)
(* Abstracted: the descriptive fields a PATCH sets, ids, organisations,    *)
(* who transitions and when.                                               *)
(***************************************************************************)
EXTENDS Naturals, Sequences

CONSTANTS Ids,                 \* engagement identifiers
          EngagementRequests,  \* PATCH and transition requests being served
          MaxArrays            \* bound on the four-event arrays allocated

ASSUME MaxArraysAssumption == MaxArrays \in Nat

VARIABLES engagements,  \* engagements[id]: the stored engagement, or NoEngagement
          spare,        \* spare[k]: the fourth event of the k-th such array
          serving       \* serving[r]: what request r is doing

engagementVars == <<engagements, spare, serving>>

Phases == {"planning", "fieldwork", "reporting", "monitoring", "completed", "cancelled"}
Event  == [from : Phases, to : Phases]
Unset  == [from |-> "", to |-> ""]

\* events: the first three phase events; array: the four-event array, once
\* there is one; full: whether the history reaches into its spare slot.
NoEngagement == [phase |-> "none"]
NotServed    == [step |-> "idle"]

EngagementInit == /\ engagements = [id \in Ids |-> NoEngagement]
                  /\ spare = <<>>
                  /\ serving = [r \in EngagementRequests |-> NotServed]

(***************************************************************************)
(* internal/domain/engagement.go                                           *)
(***************************************************************************)

ValidTransitions ==
  [planning   |-> {"fieldwork", "cancelled"},
   fieldwork  |-> {"reporting", "cancelled"},
   reporting  |-> {"monitoring", "cancelled"},
   monitoring |-> {"completed", "cancelled"},
   completed  |-> {},
   cancelled  |-> {}]

CanTransition(e, to) == to \in ValidTransitions[e.phase]

IsTerminal(e) == e.phase \in {"completed", "cancelled"}

\* Mutant: a new engagement starts in a phase of its own.
NewEngagement_Draft == [phase |-> "draft", started |-> FALSE, ended |-> FALSE,
                        events |-> <<>>, array |-> 0, full |-> FALSE]

NewEngagement == [phase |-> "planning", started |-> FALSE, ended |-> FALSE,
                  events |-> <<>>, array |-> 0, full |-> FALSE]

\* Mutant: ActualEndDate is set only on completion.
Moved_EndOnCompletion(e, to) ==
  [e EXCEPT !.phase = to,
            !.started = @ \/ to = "fieldwork",
            !.ended = @ \/ to = "completed"]

\* The fields Transition sets.
Moved(e, to) ==
  [e EXCEPT !.phase = to,
            !.started = @ \/ to = "fieldwork",
            !.ended = @ \/ to \in {"completed", "cancelled"}]

(***************************************************************************)
(* internal/store/store.go                                                 *)
(***************************************************************************)

\* Mutant: Update keeps the longer history of the two.
UpdateEngagement_KeepsLonger(id, e) ==
  engagements' = [engagements EXCEPT ![id] =
    IF Len(@.events) > Len(e.events)
    THEN [e EXCEPT !.events = engagements[id].events, !.array = engagements[id].array] ELSE e]

\* Update overwrites the record; its PhaseHistory points where the copy's did.
UpdateEngagement(id, e) == engagements' = [engagements EXCEPT ![id] = e]

(***************************************************************************)
(* internal/handler/handler.go                                             *)
(***************************************************************************)

\* POST /engagements.
CreateEngagement(id) ==
  /\ engagements[id] = NoEngagement
  /\ engagements' = [engagements EXCEPT ![id] = NewEngagement]
  /\ UNCHANGED <<spare, serving>>

\* The first half of Update and Transition: Get.
LoadEngagement(r, id) ==
  /\ serving[r] = NotServed
  /\ engagements[id] # NoEngagement
  /\ serving' = [serving EXCEPT ![r] = [step |-> "loaded", id |-> id, copy |-> engagements[id]]]
  /\ UNCHANGED <<engagements, spare>>

\* Update: the fields of the body are set; whatever the phase, terminal or not,
\* the whole copy is written back.
Patch(r) ==
  /\ serving[r].step = "loaded"
  /\ UpdateEngagement(serving[r].id, serving[r].copy)
  /\ serving' = [serving EXCEPT ![r] = NotServed]
  /\ UNCHANGED spare

Changed(r, e) == serving' = [serving EXCEPT ![r].step = "changed", ![r].copy = e]

\* Transition on the copy, where append allocates an array for the event.
TransitionAllocates(r, to) ==
  /\ serving[r].step = "loaded" /\ Len(serving[r].copy.events) < 3
  /\ ~IsTerminal(serving[r].copy) /\ CanTransition(serving[r].copy, to)
  /\ LET e     == serving[r].copy
         moved == [Moved(e, to) EXCEPT !.events = Append(@, [from |-> e.phase, to |-> to])]
     IN  IF Len(moved.events) < 3
         THEN Changed(r, moved) /\ UNCHANGED spare
         ELSE /\ Len(spare) < MaxArrays
              /\ spare' = Append(spare, Unset)
              /\ Changed(r, [moved EXCEPT !.array = Len(spare) + 1])
  /\ UNCHANGED engagements

\* Transition on the copy, where append writes into the spare slot of the array
\* that the copy shares with the store and with other copies.
TransitionInPlace(r, to) ==
  /\ serving[r].step = "loaded" /\ Len(serving[r].copy.events) = 3
  /\ ~IsTerminal(serving[r].copy) /\ CanTransition(serving[r].copy, to)
  /\ LET e == serving[r].copy
     IN  /\ spare' = [spare EXCEPT ![e.array] = [from |-> e.phase, to |-> to]]
         /\ Changed(r, [Moved(e, to) EXCEPT !.full = TRUE])
  /\ UNCHANGED engagements

\* The second half of Transition: Update, and the answer 200.
SaveTransition(r) ==
  /\ serving[r].step = "changed"
  /\ UpdateEngagement(serving[r].id, serving[r].copy)
  /\ serving' = [serving EXCEPT ![r] = NotServed]
  /\ UNCHANGED spare

\* The body does not decode or the transition is refused: an error is answered.
RefuseRequest(r) ==
  /\ serving[r].step = "loaded"
  /\ serving' = [serving EXCEPT ![r] = NotServed]
  /\ UNCHANGED <<engagements, spare>>

EngagementNext ==
  \/ \E id \in Ids : CreateEngagement(id) \/ \E r \in EngagementRequests : LoadEngagement(r, id)
  \/ \E r \in EngagementRequests :
       \/ Patch(r) \/ SaveTransition(r) \/ RefuseRequest(r)
       \/ \E to \in Phases : TransitionAllocates(r, to) \/ TransitionInPlace(r, to)

EngagementSpec == EngagementInit /\ [][EngagementNext]_engagementVars

(***************************************************************************)
(* Properties                                                              *)
(***************************************************************************)

\* Records, copies and arrays keep their types.
Record == [phase : Phases, started : BOOLEAN, ended : BOOLEAN,
           events : Seq(Event), array : 0..Len(spare), full : BOOLEAN]
EngagementTypeOK ==
  /\ engagements \in [Ids -> Record \cup {NoEngagement}]
  /\ spare \in Seq(Event \cup {Unset})
  /\ serving \in [EngagementRequests -> {NotServed} \cup
                     [step : {"loaded", "changed"}, id : Ids, copy : Record]]

\* e was reached by legal transitions: its events are a walk from planning, and
\* the phase is where that walk ends, or a terminal phase after monitoring once
\* the history reaches into the spare slot, which then holds such an event.
Walked(e) ==
  LET n    == Len(e.events)
      last == IF n = 0 THEN "planning" ELSE e.events[n].to
  IN  /\ n <= 3 /\ (e.array # 0 <=> n = 3)
      /\ \A i \in 1..n : /\ e.events[i].from = IF i = 1 THEN "planning" ELSE e.events[i-1].to
                         /\ e.events[i].to \in ValidTransitions[e.events[i].from]
      /\ IF e.full
         THEN /\ n = 3 /\ last = "monitoring"
              /\ {e.phase, spare[e.array].to} \subseteq {"completed", "cancelled"}
              /\ spare[e.array].from = "monitoring"
         ELSE e.phase = last

\* However requests interleave and share arrays, the stored phase and the stored
\* history come from one legal run, up to the way it ended (engagement.go:124-155,
\* store.go:63-72).
StoredWasWalked == \A id \in Ids : engagements[id] # NoEngagement => Walked(engagements[id])

\* The actual dates tell the run: an engagement has an end date exactly when it
\* has come to an end, and a start date exactly when it went through fieldwork.
DatesMatchRun ==
  \A id \in Ids : engagements[id] # NoEngagement =>
    LET e == engagements[id]
    IN  /\ e.ended <=> IsTerminal(e)
        /\ e.started <=> (Len(e.events) > 0 /\ e.events[1].to = "fieldwork")

\* The store keeps "defensive" copies (store.go:30): the last event of a stored
\* history is the one that led to the stored phase.
HistoryEndsAtPhase ==
  \A id \in Ids : engagements[id] # NoEngagement /\ engagements[id].full
                     => spare[engagements[id].array].to = engagements[id].phase

\* What the store keeps of an engagement is one run of ValidTransitions: its
\* phase, its history and its dates (engagement.go:124-155, store.go:39-72).
StoredIsOneRun == EngagementTypeOK /\ StoredWasWalked /\ DatesMatchRun
=============================================================================
