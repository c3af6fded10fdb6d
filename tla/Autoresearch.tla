---------------------------- MODULE Autoresearch ----------------------------
(***************************************************************************)
(* The experiment loop of `vxd autoresearch': a coordinator runs waves of  *)
(* experiments side by side; each has an agent edit a worktree, measures   *)
(* the result, has a model judge the diff and sends what is better through *)
(* the gate.  The event log outlives the process, the waves do not.       *)
(* The log is kept as what the bank makes of it; the sampler's choice of a *)
(* class is left out.                                                      *)
(***************************************************************************)
EXTENDS Integers, FiniteSets

CONSTANTS
  Experiments, \* ids, fresh for every proposal
  Diffs,       \* what agents can write: [id, scope (allowed paths only), score
               \* (against the baseline, in units of tie_epsilon, capped at 3)]
  Parallel,    \* experiments of a wave
  Gates        \* gate: "auto", "winning", "pr"

ASSUME AutoresearchAssumption ==
  /\ Parallel \in Nat \ {0} /\ Gates \subseteq {"auto", "winning", "pr"}
  /\ \A d \in Diffs : d.score \in -3..3

VARIABLES
  coordinator, \* "off", "on", "cancelled"
  exp,         \* per experiment: [at, diff, score, verdict, read]
  wave,        \* the experiments the coordinator waits for
  memory,      \* HypothesisBank: the last outcome of each diff in the log
  outcome,     \* the last event of each experiment
  prs, merged, \* on the forge
  winning,     \* experiments in autoresearch/winning
  evolved      \* today's branch for program.md: "none", "branch", "pr"

arVars == <<coordinator, exp, wave, memory, outcome, prs, merged, winning, evolved>>

NoDiff == [id |-> "none", scope |-> TRUE, score |-> 0]
Fresh == [at |-> "none", diff |-> NoDiff, score |-> 0, verdict |-> "none",
          read |-> TRUE]

ArInit ==
  /\ coordinator = "off" /\ exp = [e \in Experiments |-> Fresh] /\ wave = {}
  /\ memory = [d \in Diffs |-> "unseen"] /\ outcome = [e \in Experiments |-> "none"]
  /\ prs = {} /\ merged = {} /\ winning = {} /\ evolved = "none"

Forge == <<prs, merged, winning>>
Rest == <<coordinator, wave, evolved>>

(* --- the coordinator ------------------------------------------------------------- *)

(* start: what ran when a coordinator was killed is not looked at again.    *)
StartCoordinator ==
  /\ coordinator = "off" /\ \E e \in Experiments : outcome[e] = "none"
  /\ coordinator' = "on" /\ wave' = {}
  /\ UNCHANGED <<exp, memory, outcome, Forge, evolved>>

(* A wave starts when the one before is over.                               *)
NextWave ==
  /\ coordinator = "on" /\ \A e \in wave : exp[e].at = "end"
  /\ LET new == {e \in Experiments : outcome[e] = "none"} IN
     /\ wave' \in {w \in SUBSET new : Cardinality(w) = Parallel}
     /\ outcome' = [e \in Experiments |-> IF e \in wave' THEN "proposed" ELSE outcome[e]]
  /\ exp' = [e \in Experiments |-> IF e \in wave' THEN [exp[e] EXCEPT !.at = "start"] ELSE exp[e]]
  /\ UNCHANGED <<coordinator, memory, Forge, evolved>>

(* SIGINT: Stop and cancel, the agents of the wave see the cancellation.    *)
(* `autoresearch stop' prints a line.                                       *)
StopCoordinator ==
  /\ coordinator = "on" /\ coordinator' = "cancelled"
  /\ UNCHANGED <<exp, wave, memory, outcome, Forge, evolved>>

(* --duration, or the wave after a signal.                                  *)
CoordinatorEnds ==
  /\ coordinator \in {"on", "cancelled"} /\ \A e \in wave : exp[e].at = "end"
  /\ coordinator' = "off" /\ wave' = {}
  /\ UNCHANGED <<exp, memory, outcome, Forge, evolved>>

KillCoordinator ==
  /\ coordinator # "off" /\ coordinator' = "off" /\ wave' = {}
  /\ exp' = [e \in Experiments |-> IF e \in wave THEN [exp[e] EXCEPT !.at = "end"] ELSE exp[e]]
  /\ UNCHANGED <<memory, outcome, Forge, evolved>>

(* --- the end of an experiment ------------------------------------------------------ *)

Ends(e, x, o) ==
  /\ exp' = [exp EXCEPT ![e] = [x EXCEPT !.at = "end"]]
  /\ outcome' = [outcome EXCEPT ![e] = o]
(* experimentsByDiff: later outcomes of the same diff override.             *)
Remember(d, o) ==
  memory' = IF d \in Diffs THEN [memory EXCEPT ![d] = o] ELSE memory

(* TopWins, what later prompts are to learn from; TopLosses is the rest of *)
(* what was seen.                                                           *)
TopWins == {d \in Diffs : memory[d] = "win"}

(* Discarded, or tripped on its paths.                                      *)
Discard(e) == Ends(e, Fresh, "discarded") /\ Remember(exp[e].diff, "loss")
(* Failed; at the gate the worktree stays, and what is on the forge.        *)
Fail(e) == Ends(e, exp[e], "failed") /\ Remember(exp[e].diff, "loss")
Goes(e, x) == exp' = [exp EXCEPT ![e] = x] /\ UNCHANGED <<memory, outcome>>

(* --- ExperimentRunner.Run ------------------------------------------------------------ *)

CreateExperiment(e) ==
  /\ exp[e].at = "start" /\ UNCHANGED <<Rest, Forge>>
  /\ \/ Fail(e)
     \/ /\ exp' = [exp EXCEPT ![e].at = "agent"] /\ outcome' = [outcome EXCEPT ![e] = "running"]
        /\ UNCHANGED memory

(* RunAgent returns when the session is over; a timeout, a cancellation and *)
(* a session that did not start are all discarded.                          *)
RunExperiment(e) ==
  /\ exp[e].at = "agent" /\ UNCHANGED <<Rest, Forge>>
  /\ \/ Discard(e)
     \/ /\ coordinator = "on"
        /\ \E d \in Diffs \cup {NoDiff} : Goes(e, [exp[e] EXCEPT !.at = "diff", !.diff = d])

(* PathFilter.Check, unless the paths cannot be read.                       *)
Scoped(d, read) == d.scope \/ ~read
InspectDiff(e) ==
  /\ exp[e].at = "diff" /\ UNCHANGED <<Rest, Forge>>
  /\ \/ Fail(e)
     \/ exp[e].diff = NoDiff /\ Discard(e)
     \/ \E read \in BOOLEAN :
          /\ exp[e].diff # NoDiff
          /\ IF Scoped(exp[e].diff, read)
             THEN Goes(e, [exp[e] EXCEPT !.at = "measure", !.read = read])
             ELSE Discard(e)

(* Near a tie the tiebreaker nudges the score by at most epsilon; if it     *)
(* fails, by epsilon to the worse.                                          *)
Nudges(score) == IF score \in -1..1 THEN -1..1 ELSE {0}
MeasureMetric(e) ==
  /\ exp[e].at = "measure" /\ UNCHANGED <<Rest, Forge>>
  /\ \/ Discard(e)
     \/ \E n \in Nudges(exp[e].diff.score) :
          Goes(e, [exp[e] EXCEPT !.at = "judge", !.score = exp[e].diff.score + n])

(* What the model says: a verdict, something else, or nothing.              *)
Replies == {"OK", "SUSPICIOUS", "REJECTED", "unparseable", "error"}
(* Mistake: a judge that does not answer lets the diff pass.                *)
JudgeFailOpen(reply) ==
  IF reply = "error" THEN "OK" ELSE IF reply = "unparseable" THEN "SUSPICIOUS" ELSE reply
(* TripwireJudge.Judge, parseTripwireReply.                                 *)
Judge(reply) == IF reply \in {"unparseable", "error"} THEN "SUSPICIOUS" ELSE reply

(* The tripwire's event alone makes the diff a loss until it is kept.       *)
JudgeDiff(e) ==
  /\ exp[e].at = "judge" /\ UNCHANGED <<Rest, Forge>>
  /\ \E reply \in Replies :
       LET ok == Judge(reply) = "OK" /\ exp[e].score > 0 IN
       IF ~ok THEN Discard(e)
       ELSE /\ exp' = [exp EXCEPT ![e].at = "gate", ![e].verdict = reply]
            /\ Remember(exp[e].diff, "loss") /\ UNCHANGED outcome

(* --- GateRouter.Route ------------------------------------------------------------------ *)

Keep(e) ==
  Ends(e, exp[e], "kept") /\ Remember(exp[e].diff, "win")

(* A fast-forward: every experiment starts at the repository's HEAD, which  *)
(* holds no other experiment.                                               *)
CanForward(e) == winning \subseteq {e}
RouteWinning(e) ==
  /\ "winning" \in Gates /\ exp[e].at = "gate" /\ UNCHANGED <<Rest, prs, merged>>
  /\ \/ Fail(e) /\ UNCHANGED winning
     \/ CanForward(e) /\ winning' = {e} /\ Keep(e)

RoutePR(e) ==
  /\ Gates \cap {"pr", "auto"} # {} /\ exp[e].at = "gate" /\ UNCHANGED <<Rest, merged, winning>>
  /\ \/ Fail(e) /\ UNCHANGED prs
     \/ /\ prs' = prs \cup {e}
        /\ \/ "pr" \in Gates /\ Keep(e)
           \/ "auto" \in Gates /\ Goes(e, [exp[e] EXCEPT !.at = "merge"])

RouteAuto(e) ==
  /\ exp[e].at = "merge" /\ UNCHANGED <<Rest, prs, winning>>
  /\ \/ Fail(e) /\ UNCHANGED merged
     \/ merged' = merged \cup {e} /\ exp' = [exp EXCEPT ![e].at = "merged"]
        /\ UNCHANGED <<memory, outcome>>

KeepMerged(e) == exp[e].at = "merged" /\ Keep(e) /\ UNCHANGED <<Rest, Forge>>

(* ProgramMDEvolver.Evolve: one branch a day, of which CreateBranch refuses *)
(* a second; a pull request that nothing merges.                            *)
EvolveProgram ==
  /\ evolved = "none" /\ evolved' \in {"branch", "pr"}
  /\ UNCHANGED <<coordinator, exp, wave, memory, outcome, Forge>>

ArNext ==
  \/ StartCoordinator \/ NextWave \/ StopCoordinator \/ CoordinatorEnds \/ KillCoordinator
  \/ EvolveProgram
  \/ \E e \in wave :
       \/ CreateExperiment(e) \/ RunExperiment(e) \/ InspectDiff(e) \/ MeasureMetric(e)
       \/ JudgeDiff(e) \/ RouteWinning(e) \/ RoutePR(e) \/ RouteAuto(e) \/ KeepMerged(e)

ArSpec == ArInit /\ [][ArNext]_arVars

(* --- properties -------------------------------------------------------------------------- *)

ArTypeOK ==
  /\ coordinator \in {"off", "on", "cancelled"} /\ evolved \in {"none", "branch", "pr"}
  /\ \A e \in Experiments : exp[e].diff \in Diffs \cup {NoDiff} /\ exp[e].score \in -3..3
  /\ \A d \in Diffs : memory[d] \in {"unseen", "win", "loss"}
  /\ Cardinality(wave) \in {0, Parallel}

(* What leaves an experiment's worktree, for a pull request, the base or    *)
(* the winning branch, was found to be OK by the judge (not passed because  *)
(* the judge was down), beats the baseline after the tiebreak and touches   *)
(* only allowed paths, unless they could not be read; and every win that    *)
(* later prompts are to learn from is one of those, whatever was running    *)
(* next to it, cancelled or killed.                                         *)
KeptIsJudged ==
  LET out == prs \cup merged \cup winning IN
  /\ \A e \in out :
       exp[e].verdict = "OK" /\ exp[e].score > 0 /\ (exp[e].diff.scope \/ ~exp[e].read)
  /\ \A d \in TopWins : \E e \in out : exp[e].diff = d
==============================================================================
