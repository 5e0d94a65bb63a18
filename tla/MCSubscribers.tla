---------------------------- MODULE MCSubscribers ----------------------------
(***************************************************************************)
(* The services that pass changes on, for TLC: webhook delivery and the    *)
(* search index.  They share no state, so a behaviour belongs to one.      *)
(***************************************************************************)
EXTENDS Webhooks, SearchSync

CONSTANTS u1, u2, s1, s2, s3, f1, e1    \* model values

VARIABLE part

TwoSubs    == {u1, u2}
ThreeSlots == {s1, s2, s3}
TwoTables  == <<{f1}, {e1}>>

\* Attempts overlap and are lost on one delivery of one subscription, or one delivery
\* of a subscription that comes and goes and one of one that stays, each attempted
\* alone, compete for a place in the batch.
Fits == \/ part = "attempts" /\ Len(rows) <= 1 /\ ~active[u2]
        \/ /\ part = "batch" /\ active[u2] /\ losses = 0
           /\ \A s \in Slots \ {s1} : attempt[s] = Free
           /\ \A q, r \in 1..Len(rows) : rows[q].sub = rows[r].sub => q = r

MCInit == /\ part \in {"attempts", "batch", "search"}
          /\ Init /\ SyncInit
          /\ part = "search" \/ Fits
          /\ part = "search" => active = [u \in Subs |-> TRUE]

\* Parts that run out of what the bounds allow may stay where they are.
MCNext == /\ UNCHANGED part
          /\ \/ part # "search" /\ Next /\ Fits' /\ UNCHANGED syncVars
             \/ part = "search" /\ SyncNext /\ UNCHANGED vars
             \/ part = "search" /\ UNCHANGED <<vars, syncVars>>

\* Each part under its own fairness.
MCSpec == /\ MCInit /\ [][MCNext]_<<part, vars, syncVars>>
          /\ \/ part # "search" /\ Fairness
             \/ part = "search" /\ SyncFairness
===============================================================================
