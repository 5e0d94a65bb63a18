------------------------------- MODULE MCStores -------------------------------
(***************************************************************************)
(* The services whose rows several requests or workers race for, for TLC:  *)
(* the audit trail, sessions, controls and their assessments, and the      *)
(* webhook deliveries.  They share no state, so a behaviour belongs to one *)
(* of them.                                                                *)
(***************************************************************************)
EXTENDS AuditTrail, Sessions, ControlFramework, DeliveryWorker, TLC

CONSTANTS m1, m2, m3,   \* model values: requests, and the ids of controls
          o1, o2        \* organisations, and the endpoints of webhooks

VARIABLE part

TwoOrgs   == {o1, o2}
TwoCalls  == {m1, m2}
ThreeOf   == {m1, m2, m3}
Symmetry  == Permutations(TwoOrgs) \cup Permutations(TwoCalls)

\* What a part chooses initially is of no account to the others.
MCInit ==
  /\ part \in {"trail", "sessions", "framework", "deliveries"}
  /\ Init /\ SessionInit /\ FrameworkInit /\ WorkerInit
  /\ part # "framework" => backend = "postgres"
  /\ part # "deliveries" => queue = "store"

\* Parts that run out of what the bounds allow may stay where they are.
MCNext ==
  /\ UNCHANGED part
  /\ \/ part = "trail" /\ Next
        /\ UNCHANGED <<sessionVars, frameworkVars, workerVars>>
     \/ part = "sessions" /\ SessionNext
        /\ UNCHANGED <<vars, frameworkVars, workerVars>>
     \/ part = "framework" /\ FrameworkNext
        /\ UNCHANGED <<vars, sessionVars, workerVars>>
     \/ part = "deliveries" /\ WorkerNext
        /\ UNCHANGED <<vars, sessionVars, frameworkVars>>
     \/ part # "trail" /\ UNCHANGED <<vars, sessionVars, frameworkVars, workerVars>>

MCSpec == MCInit /\ [][MCNext]_<<part, vars, sessionVars, frameworkVars, workerVars>>
===============================================================================
