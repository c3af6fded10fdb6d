--------------------------- MODULE CompletionGate ---------------------------
(***************************************************************************)
(* How a requirement gets its verdict: the run of `vxd resume' that comes  *)
(* to its end, the pull into the local checkout, CompletionGate.Run with   *)
(* its fix cycles, the event it is recorded with, and what the command     *)
(* exits with.  The gate verifies the checkout of the operator, while what *)
(* counts is the base branch on origin; Ctrl-C may come at any time.       *)
(***************************************************************************)
EXTENDS Naturals

CONSTANTS
  GateReqs,    \* requirements of the project
  MaxCycles,   \* qa.completion_fix_cycles
  MaxResumes   \* bound: runs of `vxd resume'

ASSUME CompletionGateAssumption == MaxCycles \in Nat /\ MaxResumes \in Nat

(* What a verification can find in a tree: nothing that matters, a critical *)
(* gap (build, tests, conflict markers, an agent's prose), or a test suite  *)
(* that does not finish.                                                    *)
Trees == {"green", "red", "hangs"}

VARIABLES
  verdict,    \* status of each requirement
  work,       \* its stories: "open", "submitted" (some only as PR), "merged"
  origin,     \* the base branch on the forge
  checkout,   \* the operator's working copy: [tree, commits, dirty]
  gapsFile,   \* .vxd-fix-gaps.md: the requirement and the tree it describes
  gate,       \* the resume process: [at, req, only, wired, cycle]
  found,      \* what the last verification found, and where
  signalled,  \* Ctrl-C
  exit,       \* how the last run ended: [code, req]
  resumes,
  reopened,   \* history: requirements with a verdict and an unfinished story
  lastPull    \* history: whose run pulled last

gateVars == <<verdict, work, origin, checkout, gapsFile, gate, found, signalled,
              exit, resumes, reopened, lastPull>>

NoRun == [at |-> "idle", req |-> "none", only |-> FALSE, wired |-> TRUE, cycle |-> 0]
NoExit == [code |-> "none", req |-> "none"]
NoGaps == [req |-> "none", tree |-> "green"]
Nothing == [tree |-> "green", origin |-> "green", exact |-> FALSE, red |-> FALSE, stuck |-> FALSE]

GateInit ==
  /\ verdict = [r \in GateReqs |-> "active"] /\ work = [r \in GateReqs |-> "open"]
  /\ origin = "green"
  /\ checkout = [tree |-> "green", commits |-> "same", dirty |-> FALSE]
  /\ gapsFile = NoGaps /\ gate = NoRun /\ found = Nothing /\ signalled = FALSE
  /\ exit = NoExit /\ resumes = 0
  /\ reopened = {} /\ lastPull = "none"

(* --- runVerificationLoop ------------------------------------------------------ *)

(* What building a tree and running its tests looks like.  A suite that     *)
(* passes may leave a process on its pipe, may end as its time runs out, and *)
(* may have no package to test, which exits with 1.                         *)
Runs(builds, status, failing, late, empty) ==
  [builds : builds, status : status, failing : failing, late : late, empty : empty]
Runner(tree) ==
  CASE tree = "green" -> Runs({TRUE}, {"clean"}, {0}, BOOLEAN, {FALSE})
                         \cup Runs({TRUE}, {"leaked"}, {0}, {FALSE}, {FALSE})
                         \cup Runs({TRUE}, {"error"}, {0}, {FALSE}, {TRUE})
    [] tree = "red"   -> Runs(BOOLEAN, {"error"}, 0..2, {FALSE}, {FALSE})
                         \cup Runs({FALSE}, {"error"}, {0}, {FALSE}, {TRUE})
    [] OTHER          -> Runs({TRUE}, {"error"}, 0..1, {TRUE}, {FALSE})

(* Mistake: the counts are taken for the verdict.                           *)
CheckTestsByCount(run) ==
  CASE run.late /\ run.status = "error" -> [failing |-> 1, stuck |-> TRUE]
    [] OTHER -> [failing |-> run.failing, stuck |-> FALSE]

(* checkTests: a suite that ended badly has at least one failure, whatever  *)
(* was counted, but for one that says there is no package to test.          *)
CheckTests(run) ==
  CASE run.late /\ run.status = "error" -> [failing |-> 1, stuck |-> TRUE]
    [] ~run.late /\ run.status = "error" /\ run.failing = 0 /\ ~run.empty ->
         [failing |-> 1, stuck |-> FALSE]
    [] OTHER -> [failing |-> run.failing, stuck |-> FALSE]

ShouldRunFixCycle(run) == ~run.builds \/ CheckTests(run).failing > 0
HasUnfixableGap(run) == CheckTests(run).stuck

(* --- git ------------------------------------------------------------------ *)

Behind(c) == IF c \in {"ahead", "diverged"} THEN "diverged" ELSE "behind"
Ahead(c) == IF c \in {"behind", "diverged"} THEN "diverged" ELSE "ahead"

(* pullBaseAfterMerge and gitPullWithStash: the scratch files go first;    *)
(* changes are stashed, the branch fast-forwarded if that is possible and  *)
(* the changes put back on top.                                            *)
PullBase(r) ==
  /\ gapsFile' = NoGaps /\ lastPull' = r
  /\ \/ UNCHANGED checkout
     \/ /\ checkout.commits \in {"same", "behind"} /\ ~checkout.dirty
        /\ checkout' = [tree |-> origin, commits |-> "same", dirty |-> FALSE]
     \/ /\ checkout.commits = "behind" /\ checkout.dirty
        /\ \E t \in Trees : checkout' = [tree |-> t, commits |-> "same", dirty |-> TRUE]

(* --- vxd resume: before the gate -------------------------------------------- *)

Settled(r) == verdict[r] = "completed"

(* resumeOutcome.                                                           *)
ExitCode(r, cut) ==
  CASE verdict[r] = "completed" -> "completed"
    [] verdict[r] = "blocked"   -> "blocked"
    [] verdict[r] = "paused"    -> "paused"
    [] cut /\ work[r] # "open"  -> "noverdict"
    [] cut /\ work[r] = "open"  -> "detached"
    [] ~cut /\ work[r] # "open" -> "noverdict"
    [] OTHER                    -> "incomplete"

(* prepareGateOnly: nothing to dispatch, and a reason not to run the gate.  *)
RefusesGateOnly(r, wired, dry) ==
  \/ Settled(r) \/ work[r] = "submitted"
  \/ ~wired /\ verdict[r] = "blocked"
  \/ dry \/ checkout.dirty

RefusalCode(r) ==
  IF Settled(r) THEN "completed" ELSE IF verdict[r] = "blocked" THEN "blocked" ELSE "noverdict"

ResumeReq(r, wired, dry) ==
  /\ gate.at = "idle" /\ resumes < MaxResumes /\ (dry => ~wired)
  /\ resumes' = resumes + 1
  /\ LET unpaused == [verdict EXCEPT ![r] = IF @ = "paused" THEN "active" ELSE @]
         unblocked == [unpaused EXCEPT ![r] = IF @ = "blocked" THEN "active" ELSE @]
     IN IF work[r] = "open"
        THEN /\ verdict' = unpaused
             /\ gate' = [NoRun EXCEPT !.at = "waves", !.req = r, !.wired = wired]
             /\ exit' = NoExit
        ELSE IF RefusesGateOnly(r, wired, dry)
        THEN /\ verdict' = unpaused /\ UNCHANGED gate
             /\ exit' = [code |-> RefusalCode(r), req |-> r]
        ELSE /\ verdict' = unblocked \* unblockForGate
             /\ gate' = [NoRun EXCEPT !.at = "waves", !.req = r, !.only = TRUE, !.wired = wired]
             /\ exit' = NoExit
  /\ UNCHANGED <<found, signalled, work, origin, checkout, gapsFile, reopened, lastPull>>

(* A wave that goes well: the base branch moves.                            *)
StoriesMerge(w) ==
  /\ gate.at = "waves" /\ work[gate.req] = "open" /\ ~signalled
  /\ work' = [work EXCEPT ![gate.req] = w]
  /\ origin' \in Trees
  /\ checkout' = [checkout EXCEPT !.commits = Behind(@)]
  /\ UNCHANGED <<verdict, gapsFile, gate, found, signalled, exit, resumes, reopened, lastPull>>

Gone == gate' = NoRun /\ found' = Nothing /\ signalled' = FALSE
EndRun ==
  /\ Gone
  /\ exit' = [code |-> ExitCode(gate.req, signalled), req |-> gate.req]

(* No agents and nothing to dispatch, a pause, or Ctrl-C between polls.     *)
NothingLeft ==
  /\ gate.at = "waves" /\ (signalled \/ work[gate.req] = "open" \/ verdict[gate.req] = "paused")
  /\ EndRun
  /\ UNCHANGED <<verdict, work, origin, checkout, gapsFile, resumes, reopened, lastPull>>

(* dispatchNextWave with every story complete.                              *)
EnterGate ==
  /\ gate.at = "waves" /\ work[gate.req] # "open" /\ verdict[gate.req] # "paused"
  /\ PullBase(gate.req)
  /\ gate' = [gate EXCEPT !.at = "verify", !.cycle = 1]
  /\ UNCHANGED <<verdict, work, origin, found, signalled, exit, resumes, reopened>>

(* --- CompletionGate.Run ------------------------------------------------------- *)

RecordRedCycle == gapsFile' = [req |-> gate.req, tree |-> found.tree]
(* Mistake: one cycle more than configured.                                 *)
CanFixOnceMore == gate.cycle <= MaxCycles + 1 /\ ~found.stuck

CanFix == gate.cycle <= MaxCycles /\ ~found.stuck

(* No verdict: the run ends and no event is recorded.  A signal is seen at  *)
(* the end of a verification, before a fix cycle and when its agent fails.  *)
Abort ==
  /\ signalled
  /\ \/ gate.at \in {"verify", "fixed"} /\ UNCHANGED gapsFile
     \/ gate.at = "red" /\ CanFix /\ RecordRedCycle
  /\ EndRun
  /\ UNCHANGED <<verdict, work, origin, checkout, resumes, reopened, lastPull>>

(* runVerificationLoop; cleaning up agents' files commits all there is.     *)
VerifyTree ==
  /\ gate.at = "verify" /\ ~signalled
  /\ \E run \in Runner(checkout.tree) :
       found' = [tree |-> checkout.tree, origin |-> origin,
                 exact |-> checkout.commits = "same" /\ ~checkout.dirty,
                 red |-> ShouldRunFixCycle(run), stuck |-> HasUnfixableGap(run)]
  /\ \/ UNCHANGED checkout
     \/ /\ checkout.dirty
        /\ checkout' = [checkout EXCEPT !.dirty = FALSE, !.commits = Ahead(@)]
  /\ gate' = [gate EXCEPT !.at = IF gate.wired /\ found'.red
                                 THEN "red" ELSE "judged"]
  /\ UNCHANGED <<verdict, work, origin, gapsFile, signalled, exit, resumes, reopened, lastPull>>

(* Mistake: only the fix cycles write the gaps.                             *)
GiveUpSilently ==
  /\ gate.at \in {"red", "fixed"} /\ (CanFix => ~signalled)
  /\ gate' = [gate EXCEPT !.at = "judged"]
  /\ UNCHANGED <<verdict, work, origin, checkout, gapsFile, found, signalled, exit, resumes,
                 reopened, lastPull>>

(* Cycles used up, a suite that does not finish, no client, or an agent     *)
(* that could not be started or ran out of its time.                        *)
GiveUp ==
  /\ gate.at \in {"red", "fixed"} /\ (CanFix => ~signalled)
  /\ gate' = [gate EXCEPT !.at = "judged"]
  /\ RecordRedCycle
  /\ UNCHANGED <<verdict, work, origin, checkout, found, signalled, exit, resumes,
                 reopened, lastPull>>

(* applyFix: what the agent leaves behind, pushed, committed or neither.    *)
AgentWork(t, how) ==
  CASE how = "pushed" ->
         /\ origin' = t
         /\ checkout' = [tree |-> t, commits |-> "same", dirty |-> FALSE]
    [] how = "committed" ->
         /\ UNCHANGED origin
         /\ checkout' = [tree |-> t, commits |-> Ahead(checkout.commits), dirty |-> FALSE]
    [] OTHER ->
         /\ UNCHANGED origin
         /\ checkout' = [checkout EXCEPT !.tree = t, !.dirty = TRUE]

FixCycle ==
  /\ gate.at = "red" /\ CanFix /\ ~signalled
  /\ RecordRedCycle
  /\ \E t \in Trees, how \in {"pushed", "committed", "left"} : AgentWork(t, how)
  /\ gate' = [gate EXCEPT !.at = "fixed"]
  /\ UNCHANGED <<verdict, work, found, signalled, exit, resumes, reopened, lastPull>>

PullFix ==
  /\ gate.at = "fixed"
  /\ PullBase(gate.req)
  /\ gate' = [gate EXCEPT !.at = "verify", !.cycle = @ + 1]
  /\ UNCHANGED <<verdict, work, origin, found, signalled, exit, resumes, reopened>>

(* recordGateOutcome, and recordAdvisoryOutcome when no gate is wired.      *)
RecordOutcome ==
  /\ gate.at = "judged"
  /\ verdict' = [verdict EXCEPT ![gate.req] =
                   IF gate.wired /\ found.red THEN "blocked" ELSE "completed"]
  /\ IF ~gate.wired /\ found.red THEN RecordRedCycle ELSE UNCHANGED gapsFile
  /\ gate' = [gate EXCEPT !.at = "recorded"]
  /\ reopened' = IF work[gate.req] = "open" THEN reopened ELSE reopened \ {gate.req}
  /\ UNCHANGED <<work, origin, checkout, found, signalled, exit, resumes, lastPull>>

FinishResume ==
  /\ gate.at = "recorded" /\ EndRun
  /\ UNCHANGED <<verdict, work, origin, checkout, gapsFile, resumes, reopened, lastPull>>

(* --- what happens around the run ------------------------------------------------ *)

Signal ==
  /\ gate.at \notin {"idle", "recorded"} /\ ~signalled /\ signalled' = TRUE
  /\ UNCHANGED <<verdict, work, origin, checkout, gapsFile, gate, found, exit, resumes,
                 reopened, lastPull>>

KillRun ==
  /\ gate.at # "idle" /\ Gone
  /\ UNCHANGED <<verdict, work, origin, checkout, gapsFile, exit, resumes, reopened, lastPull>>

OperatorEdits ==
  /\ \E t \in Trees : checkout' = [checkout EXCEPT !.tree = t, !.dirty = TRUE]
  /\ UNCHANGED <<verdict, work, origin, gapsFile, gate, found, signalled, exit, resumes,
                 reopened, lastPull>>

OperatorPushes ==
  /\ checkout.dirty /\ checkout.commits \in {"same", "ahead"}
  /\ checkout' = [checkout EXCEPT !.commits = "same", !.dirty = FALSE]
  /\ origin' = checkout.tree
  /\ UNCHANGED <<verdict, work, gapsFile, gate, found, signalled, exit, resumes,
                 reopened, lastPull>>

PauseReq(r) ==
  /\ verdict[r] \notin {"paused", "completed"}
  /\ verdict' = [verdict EXCEPT ![r] = "paused"]
  /\ UNCHANGED <<work, origin, checkout, gapsFile, gate, found, signalled, exit, resumes,
                 reopened, lastPull>>

(* vxd retry, on a story in any status and a requirement in any.            *)
RetryStory(r) ==
  /\ work[r] # "open"
  /\ work' = [work EXCEPT ![r] = "open"]
  /\ reopened' = reopened \cup {r}
  /\ UNCHANGED <<verdict, origin, checkout, gapsFile, gate, found, signalled, exit, resumes,
                 lastPull>>

GateNext ==
  \/ \E r \in GateReqs, wired, dry \in BOOLEAN : ResumeReq(r, wired, dry)
  \/ \E w \in {"submitted", "merged"} : StoriesMerge(w)
  \/ \E r \in GateReqs : PauseReq(r) \/ RetryStory(r)
  \/ NothingLeft \/ EnterGate \/ Abort \/ VerifyTree \/ GiveUp \/ FixCycle \/ PullFix
  \/ RecordOutcome \/ FinishResume \/ Signal \/ KillRun \/ OperatorEdits \/ OperatorPushes

GateSpec == GateInit /\ [][GateNext]_gateVars

(* --- properties ------------------------------------------------------------------ *)

GateTypeOK ==
  /\ verdict \in [GateReqs -> {"active", "paused", "blocked", "completed"}]
  /\ work \in [GateReqs -> {"open", "submitted", "merged"}]
  /\ origin \in Trees /\ checkout.tree \in Trees /\ gate.cycle \in 0..MaxCycles + 1
  /\ reopened \subseteq GateReqs

(* A blocked requirement always has its gaps on file, and they are those of *)
(* a tree that is not green: through fix cycles whose pull deletes the      *)
(* file, Ctrl-C, kills, pauses and runs that come back.  Two cases are not  *)
(* covered by the code: a run of another requirement deletes the file, and  *)
(* so does a run that starts because a story was retried after the verdict, *)
(* which does not unblock the requirement first.                            *)
BlockedHasGaps ==
  \A r \in GateReqs :
    verdict[r] = "blocked" /\ lastPull = r /\ r \notin reopened
      => gapsFile.req = r /\ gapsFile.tree # "green"

(* A gate that is wired lets a requirement complete only after a finished   *)
(* verification, cut short by no signal, of a tree that is green; if that   *)
(* tree is the base branch with nothing added, the base branch is green.    *)
(* And a run that reports completion has all the stories in, but for those  *)
(* retried after the verdict.                                               *)
CompletionIsEarned ==
  [][/\ \A r \in GateReqs :
          verdict'[r] = "completed" /\ verdict[r] # "completed" /\ gate.wired =>
            gate.req = r /\ found.tree = "green" /\ (found.exact => found.origin = "green")
     /\ exit' # exit /\ exit'.code = "completed" =>
          LET r == exit'.req
          IN verdict[r] = "completed" /\ (work[r] # "open" \/ r \in reopened)]_gateVars
=============================================================================
