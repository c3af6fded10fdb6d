----------------------------- MODULE StoryBranch -----------------------------
(***************************************************************************)
(* The git side of one story, from its worktree to the branch that is      *)
(* pushed: what an attempt commits, the clean-up before review, the rebase *)
(* with ConflictResolver, the check that a green base stays green, and the *)
(* push.  The worktree outlives the attempt and the process: HEAD may be   *)
(* in the middle of a rebase or detached when the next one starts.         *)
(***************************************************************************)
EXTENDS Naturals, FiniteSets

CONSTANTS
  MaxAttempts,  \* bound: attempts at the story
  MaxRounds,    \* maxRounds of the resolver (10 in the code)
  MaxMoves,     \* bound: commits to the base by others
  Conflicts,    \* sets of kinds of files that can conflict in one commit
  WithTechLead  \* whether the resolver has a Tech Lead client

ASSUME StoryBranchAssumption == {MaxAttempts, MaxRounds, MaxMoves} \subseteq Nat

Kinds == {"text", "json", "ignore", "lock", "binary", "compiled"}

VARIABLES
  head,      \* the worktree: [on, tree, orig], on = "none", "branch", "detached",
             \* "rebasing" (orig: from where) or "merged"
  branchTip, \* the tree of the story's branch, also when HEAD is elsewhere
  baseTip,   \* the base on the forge: [n, green]
  pushed,    \* the story's branch on the forge, or NoTree
  job,       \* the pipeline: [at, round, fetched, green, base]; base: no base
             \* check was asked for, or it ran to its end
  checked,   \* the work that review and QA have passed
  attempt, moves,
  strayed    \* history: HEAD was left off the branch by a base check that did
             \* not end

branchVars == <<head, branchTip, baseTip, pushed, job, checked, attempt, moves, strayed>>

(* work: of which attempts it has commits; onto: the base below them; markers: of a  *)
(* conflict, committed; lost: kinds of files in which the story's side of a *)
(* conflict is gone; copied: carries the base's last commit as its own.     *)
Tree(n) == [work |-> {}, onto |-> n, markers |-> FALSE, lost |-> {}, copied |-> FALSE]
NoTree == [Tree(0) EXCEPT !.onto = MaxMoves + 2]
IdleJob == [at |-> "idle", round |-> 0, fetched |-> 0, green |-> TRUE, base |-> TRUE]

BranchInit ==
  /\ head = [on |-> "none", tree |-> Tree(0), orig |-> <<>>] /\ branchTip = Tree(0)
  /\ baseTip = [n |-> 0, green |-> TRUE] /\ pushed = NoTree /\ job = IdleJob
  /\ checked = {} /\ attempt = 0 /\ moves = 0 /\ strayed = FALSE

(* HEAD moves; the branch moves with it when HEAD is on it.                 *)
HeadAt(on, tree) ==
  /\ head' = [on |-> on, tree |-> tree, orig |-> <<>>]
  /\ branchTip' = IF on = "branch" THEN tree ELSE branchTip
Stay == UNCHANGED <<head, branchTip>>
Aborted == HeadAt(head.orig.on, head.orig.tree)
Give == job' = IdleJob /\ UNCHANGED <<baseTip, pushed, attempt, moves>>

CommitTree(tree) ==
  /\ head' = [head EXCEPT !.tree = tree]
  /\ branchTip' = IF head.on = "branch" THEN tree ELSE branchTip

(* --- an attempt ------------------------------------------------------------------- *)

(* CreateWorktree: a worktree that is there is used as it is, whatever HEAD *)
(* is; otherwise the branch starts again from the local checkout.           *)
CreateWorktree ==
  /\ job.at = "idle" /\ attempt < MaxAttempts /\ head.on # "merged"
  /\ attempt' = attempt + 1 /\ job' = [IdleJob EXCEPT !.at = "agent"]
  /\ IF head.on # "none" THEN Stay
     ELSE \E n \in 0..baseTip.n : HeadAt("branch", Tree(n))
  /\ UNCHANGED <<baseTip, pushed, checked, moves, strayed>>

(* The agent commits, leaves files for autoCommit, or does nothing.  In a   *)
(* worktree stopped in a rebase `git add -A' takes the markers along.       *)
AgentWorks ==
  /\ job.at = "agent"
  /\ \E w \in {{}, {attempt}} :
       CommitTree([head.tree EXCEPT !.work = @ \cup w,
                    !.markers = @ \/ (head.on = "rebasing" /\ w = {})])
  /\ job' = [job EXCEPT !.at = "hygiene"]
  /\ UNCHANGED <<baseTip, pushed, checked, attempt, moves, strayed>>

(* The strips amend the last commit, which is the base's own if the branch  *)
(* has none.                                                                *)
Amended(t) == IF t.work = {} THEN [t EXCEPT !.copied = TRUE] ELSE t
(* gitDiffForBase: nothing to review.                                       *)
EmptyDiff(t) == t.work = {} /\ ~t.copied

(* From autoCommit to the end of QA.  The marker guard looks at the last    *)
(* commit only.                                                             *)
Hygiene ==
  /\ job.at = "hygiene"
  /\ \E amend \in BOOLEAN, late \in BOOLEAN, pass \in BOOLEAN :
       LET t == IF amend THEN Amended(head.tree) ELSE head.tree
           caught == t.markers /\ ~late IN
       /\ CommitTree(t)
       /\ IF caught \/ EmptyDiff(t) \/ ~pass
          THEN Give /\ UNCHANGED <<checked, strayed>>
          ELSE /\ checked' = t.work /\ job' = [job EXCEPT !.at = "rebase"]
               /\ UNCHANGED <<baseTip, pushed, attempt, moves, strayed>>

(* --- rebase and conflict resolution ---------------------------------------------------- *)

(* On the forge somebody else's change is merged.                           *)
BaseMoves ==
  /\ moves < MaxMoves /\ moves' = moves + 1
  /\ \E g \in BOOLEAN : baseTip' = [n |-> baseTip.n + 1, green |-> g]
  /\ UNCHANGED <<head, branchTip, pushed, job, checked, attempt, strayed>>

(* A commit whose change is in the base already is dropped.                 *)
Rebased(t, n) == [t EXCEPT !.onto = n, !.copied = FALSE]

(* Mistake: an error that is no conflict is taken for a rebase of nothing.  *)
TakenForDone ==
  /\ Stay /\ job' = [job EXCEPT !.at = "premerge", !.fetched = baseTip.n]
  /\ UNCHANGED <<baseTip, pushed, attempt, moves>>
(* A rebase that is already going on makes git refuse; the resolver aborts. *)
RebaseRefused == Aborted /\ Give

(* FetchBranch and StartRebase.                                             *)
StartRebase ==
  /\ job.at = "rebase"
  /\ \/ head.on = "rebasing" /\ RebaseRefused
     \/ Stay /\ Give \* no fetch, or a rebase git will not start
     \/ /\ head.on # "rebasing" /\ HeadAt(head.on, Rebased(head.tree, baseTip.n))
        /\ job' = [job EXCEPT !.at = "premerge", !.fetched = baseTip.n]
        /\ UNCHANGED <<baseTip, pushed, attempt, moves>>
     \/ /\ head.on # "rebasing" /\ head.tree.onto # baseTip.n /\ head.tree.work # {}
        /\ head' = [on |-> "rebasing", tree |-> head.tree, orig |-> head] /\ UNCHANGED branchTip
        /\ job' = [job EXCEPT !.at = "rounds", !.round = 0, !.fetched = baseTip.n]
        /\ UNCHANGED <<baseTip, pushed, attempt, moves>>
  /\ UNCHANGED <<checked, strayed>>

(* A model's answer; what no check refuses is taken for the file.           *)
Answers == {"content", "markers", "chatter", "notice", "fatal", "down"}
Unmergeable(a) == a \in {"markers", "chatter"}
Kept(side) == [side |-> side, ok |-> TRUE]
Refused == [side |-> "none", ok |-> FALSE]

(* Mistake: `ours' is the story's version, as on a merge.                   *)
TakeOurs == {Kept("base")}
(* CheckoutTheirs: in a rebase `theirs' is the commit that is replayed.     *)
FallBack == {Kept("story"), Refused}

(* Senior first; the Tech Lead if that failed or the conflict is wide.  A   *)
(* file neither can merge is taken from the story, an API error aborts.     *)
AskModels(wide) ==
  UNION {IF a = "content" /\ (~wide \/ ~WithTechLead) THEN {Kept("both")}
         ELSE IF WithTechLead
         THEN UNION {IF b = "content" THEN {Kept("both")}
                     ELSE IF Unmergeable(b) THEN FallBack ELSE {Refused} : b \in Answers}
         ELSE IF Unmergeable(a) THEN FallBack ELSE {Refused} : a \in Answers}

(* What each kind of file can become.  A file git cannot give numbers for   *)
(* is taken for binary.                                                     *)
Resolve(kind, wide) ==
  CASE kind = "compiled"           -> {Kept("none"), Refused}
    [] kind \in {"binary", "lock"} -> {Kept("base"), Refused}
    [] kind = "ignore"             -> {Kept("both"), Refused}
    [] kind = "json"               -> {Kept("both")} \cup AskModels(wide)
    [] OTHER                       -> AskModels(wide)

Dropped(res) == {k \in DOMAIN res : res[k].side \in {"base", "none"}}

(* One round: every file, StageFiles, `rebase --continue'; any refusal      *)
(* aborts.                                                                  *)
AbortRebase == Aborted /\ Give
Resolutions(files, wide) ==
  [files -> UNION {Resolve(k, wide) : k \in files}]
ResolveRound ==
  /\ job.at = "rounds"
  /\ \E files \in Conflicts, wide \in BOOLEAN :
       \E res \in Resolutions(files, wide) :
         /\ \A k \in files : res[k] \in Resolve(k, wide)
         /\ LET t == [head.tree EXCEPT !.lost = @ \cup Dropped(res)]
                done == Rebased(t, job.fetched) IN
            \/ (job.round >= MaxRounds \/ \E k \in files : ~res[k].ok) /\ AbortRebase
            \/ /\ \A k \in files : res[k].ok
               /\ job.round < MaxRounds
               /\ \/ AbortRebase \* git fails otherwise
                  \/ /\ head' = [head EXCEPT !.tree = t] /\ UNCHANGED branchTip
                     /\ job' = [job EXCEPT !.round = @ + 1]
                     /\ UNCHANGED <<baseTip, pushed, attempt, moves>>
                  \/ /\ HeadAt(head.orig.on, done)
                     /\ job' = [job EXCEPT !.at = "premerge"]
                     /\ UNCHANGED <<baseTip, pushed, attempt, moves>>
  /\ UNCHANGED <<checked, strayed>>

(* --- verifyRebasedQA ------------------------------------------------------------------------ *)

(* The checks on the rebased tree; if they fail, on the base in the same    *)
(* worktree, unless it cannot be checked out.                               *)
CheckRebased ==
  /\ job.at = "premerge"
  /\ \/ Stay /\ job' = [job EXCEPT !.at = "push", !.green = TRUE]
     \/ Stay /\ job' = [job EXCEPT !.at = "push", !.green = FALSE, !.base = FALSE]
     \/ /\ HeadAt("detached", Tree(job.fetched))
        /\ job' = [job EXCEPT !.at = "basecheck", !.green = FALSE]
  /\ UNCHANGED <<baseTip, pushed, checked, attempt, moves, strayed>>

BaseGreenAt(n) == IF n = baseTip.n THEN {baseTip.green} ELSE BOOLEAN
(* Mistake: the result on the base is not asked for.                        *)
NeverBlock(rebasedPassed, basePassed) == FALSE
(* preMergeDecision.                                                        *)
PreMergeDecision(rebasedPassed, basePassed) == ~rebasedPassed /\ basePassed

(* Back to the branch; git refuses if the checks changed tracked files.     *)
(* late: the pipeline's time ran out, every command fails and the base      *)
(* looks red; nothing from here to the merge looks at the time.             *)
CheckBase ==
  /\ job.at = "basecheck"
  /\ \/ Stay /\ Give /\ strayed' = TRUE
     \/ \E g \in BaseGreenAt(job.fetched), late \in BOOLEAN :
          /\ HeadAt("branch", branchTip) /\ UNCHANGED strayed
          /\ IF PreMergeDecision(job.green, g /\ ~late) THEN Give
             ELSE /\ job' = [job EXCEPT !.at = "push", !.base = ~late]
                  /\ UNCHANGED <<baseTip, pushed, attempt, moves>>
  /\ UNCHANGED checked

(* --- Merger.Merge --------------------------------------------------------------------------- *)

(* A push without force: the branch on the forge must be an ancestor.       *)
Ancestor(t) == pushed = NoTree \/ (pushed.onto = t.onto /\ pushed.work \subseteq t.work)
PushBranch ==
  /\ job.at = "push"
  /\ \/ Give /\ UNCHANGED pushed
     \/ /\ Ancestor(branchTip) /\ pushed' = branchTip
        /\ job' = [job EXCEPT !.at = "merge"] /\ UNCHANGED <<baseTip, attempt, moves>>
  /\ Stay /\ UNCHANGED <<checked, strayed>>

(* CreatePR refuses a branch without commits; MergePR.                      *)
MergePR ==
  /\ job.at = "merge" /\ UNCHANGED <<pushed, checked, attempt, moves, strayed>>
  /\ \/ Stay /\ job' = IdleJob /\ UNCHANGED baseTip
     \/ /\ pushed.work # {} /\ job' = IdleJob /\ head' = [head EXCEPT !.on = "merged"]
        /\ UNCHANGED branchTip
        /\ \E g \in IF baseTip.n = job.fetched /\ job.base THEN {job.green} ELSE BOOLEAN :
             baseTip' = [baseTip EXCEPT !.green = g]

(* A kill at any point; the guard of the pipeline's own timeout as well.    *)
KillPipeline ==
  /\ job.at \notin {"idle", "agent"} /\ Stay /\ Give
  /\ strayed' = (strayed \/ job.at = "basecheck") /\ UNCHANGED checked

BranchNext ==
  \/ CreateWorktree \/ AgentWorks \/ Hygiene \/ BaseMoves \/ StartRebase
  \/ ResolveRound \/ CheckRebased \/ CheckBase \/ PushBranch \/ MergePR \/ KillPipeline

BranchSpec == BranchInit /\ [][BranchNext]_branchVars

(* --- properties ----------------------------------------------------------------------------- *)

BranchTypeOK ==
  /\ head.on \in {"none", "branch", "detached", "rebasing", "merged"}
  /\ head.tree.work \subseteq 1..MaxAttempts /\ branchTip.lost \subseteq Kinds
  /\ baseTip.n \in 0..MaxMoves /\ attempt \in 0..MaxAttempts /\ job.round \in 0..MaxRounds
  /\ job.at \in {"idle", "agent", "hygiene", "rebase", "rounds", "premerge", "basecheck",
                 "push", "merge"}

(* What is pushed is what was reviewed: the work that passed review and QA, *)
(* without markers of a conflict, whatever state a kill, a failed rebase or *)
(* an attempt before left the worktree in.  The one exception is a check of *)
(* the base that did not end: it leaves HEAD on the base, the next attempt  *)
(* commits there and is reviewed there, and the old branch is pushed.       *)
PushedIsReviewed ==
  [][pushed' # pushed => strayed \/ (pushed'.work = checked /\ ~pushed'.markers)]_branchVars

(* Resolving conflicts never drops the story's side of a file without an    *)
(* error, except where that is a rule: files that are binary or generated.  *)
ConflictKeepsStory == branchTip.lost \subseteq {"lock", "binary", "compiled"}

(* A merge does not turn a green base red: a story that fails where the     *)
(* base it was rebased onto passes is not merged.  Exceptions: that base    *)
(* could not be checked out or its check ran out of time          *)
(* (job.base), the base has moved since the rebase, HEAD was not on the     *)
(* branch that is pushed.  Checks are taken to be deterministic.            *)
GreenStaysGreen ==
  [][(job.at = "merge" /\ baseTip.green /\ ~baseTip'.green) =>
       moves' # moves \/ job.fetched # baseTip.n \/ ~job.base \/ strayed]_branchVars
==============================================================================
