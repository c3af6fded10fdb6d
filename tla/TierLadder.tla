----------------------------- MODULE TierLadder -----------------------------
(***************************************************************************)
(* What the escalation chain promises of one story, without the event log  *)
(* it is computed from: a tier, the failures counted at that tier, and a   *)
(* climb of one rung when the failures have used the tier up.  `resetting' *)
(* says that a reset has been given and not recorded yet, `stale' that one *)
(* was recorded while a decision was being carried out.                    *)
(***************************************************************************)
EXTENDS Naturals

CONSTANT Limit            \* failures a tier takes before the next one
VARIABLES tier, fails, resetting, stale

LadderInit == tier = 0 /\ fails = 0 /\ ~resetting /\ ~stale

CountFailure == tier' = tier /\ fails' = fails + 1

(* Spent, or sent on by the manager before that.                           *)
Climb ==
  /\ tier < 3 /\ (fails >= Limit[tier] \/ tier = 2)
  /\ tier' = tier + 1 /\ fails' = 0

ManagerRetries == tier = 2 /\ tier' = tier /\ fails' = 0

(* A reset clears everything that happened before it was given.            *)
RecordReset == resetting /\ tier' \in 0..tier /\ fails' \in 0..fails

(* A decision from before a reset is carried out after it.                 *)
ClimbStale == stale /\ tier' \in tier..3 /\ fails' = 0

LadderNext ==
  CountFailure \/ Climb \/ ManagerRetries \/ RecordReset \/ ClimbStale

LadderSpec == LadderInit /\ [][LadderNext]_<<tier, fails>>
=============================================================================
