---------------------------- MODULE WaveDelivery ----------------------------
(***************************************************************************)
(* What `vxd resume' promises about one requirement, whatever happens in   *)
(* between: a story is begun only when everything it depends on has been   *)
(* delivered, work under way ends with the story delivered or back in      *)
(* waiting, a delivered story is never begun again, and a verdict is given *)
(* on all the stories or not at all.  "Delivered" is the program's own     *)
(* reading of it, state.IsStoryComplete.                                   *)
(***************************************************************************)
CONSTANTS Story, Deps, Planned

VARIABLES phase, verdict

Phase == {"absent", "waiting", "working", "done"}
Verdict == {"open", "completed", "blocked"}

TypeOK == phase \in [Story -> Phase] /\ verdict \in Verdict

Init ==
  /\ phase = [s \in Story |-> IF s \in Planned THEN "waiting" ELSE "absent"]
  /\ verdict = "open"

AllDone == \A s \in Story : phase[s] \in {"absent", "done"}

(* A wave is handed to agents.                                             *)
Begin(wave) ==
  /\ verdict = "open"
  /\ \A s \in wave : /\ phase[s] = "waiting"
                     /\ \A d \in Deps[s] : phase[d] = "done"
  /\ phase' = [s \in Story |-> IF s \in wave THEN "working" ELSE phase[s]]
  /\ UNCHANGED verdict

(* Work that failed goes back to waiting.                                  *)
Return(s) ==
  /\ phase[s] = "working"
  /\ phase' = [phase EXCEPT ![s] = "waiting"]
  /\ UNCHANGED verdict

(* A story is given up for the parts that take its place.                  *)
Split(s, parts) ==
  /\ phase[s] \in {"waiting", "working"}
  /\ parts # {} /\ \A p \in parts : phase[p] = "absent"
  /\ phase' = [t \in Story |-> IF t = s THEN "done"
                             ELSE IF t \in parts THEN "waiting" ELSE phase[t]]
  /\ UNCHANGED verdict

(* Several pipelines may be cut off at once by a crash.                    *)
Deliver(stories) ==
  /\ \A s \in stories : phase[s] = "working"
  /\ phase' = [s \in Story |-> IF s \in stories THEN "done" ELSE phase[s]]
  /\ UNCHANGED verdict

Judge ==
  /\ verdict = "open" /\ AllDone
  /\ verdict' \in {"completed", "blocked"}
  /\ UNCHANGED phase

(* A red verdict is reopened for another try; a green one is final.        *)
Reopen ==
  /\ verdict = "blocked"
  /\ verdict' = "open"
  /\ UNCHANGED phase

Next ==
  \/ \E stories \in SUBSET Story : Begin(stories) \/ Deliver(stories)
  \/ \E s \in Story : Return(s) \/ \E parts \in SUBSET Story : Split(s, parts)
  \/ Judge \/ Reopen

Spec == Init /\ [][Next]_<<phase, verdict>>
=============================================================================
