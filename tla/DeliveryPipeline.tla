-------------------------- MODULE DeliveryPipeline --------------------------
(***************************************************************************)
(* One requirement on its way through `vxd resume': the monitor tracks the *)
(* coding agents of a wave, drives every finished story through review,    *)
(* QA, security gate and merge, decides what to retry or escalate, and     *)
(* dispatches the next wave until the completion gate gives a verdict.     *)
(*                                                                         *)
(* Three kinds of state live side by side and survive different things:    *)
(*   - the event store and its projection, the forge and the worktrees     *)
(*     survive a crash of the process;                                     *)
(*   - the tmux sessions of the agents survive it too and go on working;   *)
(*   - what the process only has in memory (`run' and below) is lost.      *)
(* Human commands (`vxd pause', `approve', `reject', `retry') take no lock *)
(* and interleave with everything.                                         *)
(***************************************************************************)
EXTENDS Naturals, FiniteSets, StoryProjection

CONSTANTS
  Story,                       \* stories of the requirement, children included
  NoStory,                     \* "no story": an empty session, a free mutex
  Deps,                        \* the story_deps table
  Children,                    \* what a split of a story would create
  MaxRetriesBeforeEscalation,  \* routing configuration, tiers 0 to 2
  MaxSeniorRetries,
  MaxManagerAttempts,
  MaxConcurrentAgents,         \* > 0; the dispatcher's cap of a wave
  MergeMode,                   \* "auto", "manual" or "pr_only" (auto_merge off)
  ManagerWired, PlannerWired,  \* is an LLM client configured
  DeleteDanglingBranches,      \* cleanup.delete_dangling_branches
  SLAAutoEscalate,             \* sla.auto_escalate
  Commands,                    \* the human commands in play
  FailCap,                     \* bound: where the failure count saturates
  MaxCrashes                   \* bound: crashes or detaches of the process

Slot == 1..MaxConcurrentAgents
StoryOrNone == Story \cup {NoStory}

ASSUME StoryAssumption == NoStory \notin Story
ASSUME DepsAssumption == Deps \in [Story -> SUBSET Story]
ASSUME ChildrenAssumption == Children \in [Story -> SUBSET Story]
ASSUME LimitsAssumption ==
  /\ MaxRetriesBeforeEscalation \in Nat
  /\ MaxSeniorRetries \in Nat
  /\ MaxManagerAttempts \in Nat
  /\ MaxConcurrentAgents \in Nat \ {0}
  /\ MaxCrashes \in Nat
ASSUME ConfigAssumption ==
  /\ MergeMode \in {"auto", "manual", "pr_only"}
  /\ ManagerWired \in BOOLEAN /\ PlannerWired \in BOOLEAN
  /\ DeleteDanglingBranches \in BOOLEAN /\ SLAAutoEscalate \in BOOLEAN
  /\ Commands \subseteq {"pause", "approve", "reject", "retry"}

VARIABLES
  reqStatus,  \* requirements.status
  status,     \* stories.status
  tier,       \* EscalationMachine.CurrentTier, read off the event log
  fails,      \* EscalationMachine.RetryCountAtCurrentTier, capped at FailCap
  pr,         \* the story's pull request on the forge
  worktree,   \* stories whose worktree directory exists
  session,    \* tmux: session name (a slot) -> the story its agent works on
  idleAt,     \* tmux: sessions alive at the agent's idle prompt
  slotOf,     \* agents table: the session recorded for a story, 0 if none
  run,        \* where the `vxd resume' process is; "down" if there is none
  done,       \* the `completed' set a wave is computed from
  queue,      \* ready stories the interception has yet to look at
  toSpawn,    \* assignments SpawnAll has yet to launch
  active,     \* the monitor's map of tracked agents
  stage,      \* where a story's post-execution pipeline is
  mergeMu,    \* holder of Monitor.mergeMu
  approving,  \* how far a `vxd approve' of the story is
  crashes     \* crashes so far, at most MaxCrashes

store   == <<reqStatus, status, tier, fails>>
tmux    == <<session, idleAt>>
process == <<run, done, queue, toSpawn, active, stage, mergeMu>>
human   == <<approving, crashes>>
vars    == <<store, pr, worktree, tmux, slotOf, process, human>>

ReqStatus == {"planned", "paused", "completed", "blocked"}
PRState == {"none", "open", "merged", "closed"}
RunPhase == {"down", "track", "dispatch", "spawn", "gate"}
MergeStage == {"rebase", "merge", "record", "cleanup"}
Stage == {"idle", "review", "qa", "security", "mergewait"} \cup MergeStage

MaxRetriesForTier(t) ==
  CASE t = 0 -> MaxRetriesBeforeEscalation
    [] t = 1 -> MaxSeniorRetries
    [] t = 2 -> MaxManagerAttempts
    [] t = 3 -> 1
    [] OTHER -> 0

(* Failures beyond every limit are told apart by nothing the program does. *)
ASSUME FailCapAssumption ==
  FailCap \in Nat /\ \A t \in 0..3 : MaxRetriesForTier(t) <= FailCap
Counted(n) == IF n > FailCap THEN FailCap ELSE n

Created == {s \in Story : status[s] # "none"}
CompleteStories == {s \in Created : IsStoryComplete(status[s])}

(* Mistake: a story that was handed out is taken for a finished one.       *)
AllHandedOut == \A s \in Created : status[s] # "draft"

AllComplete == Created = CompleteStories

(* Mistake: dependencies are not looked at.                                *)
ReadyNodesUnordered(completed) == Created \ completed

(* DAG.ReadyNodes; whether a ready story may start is looked up later.     *)
ReadyNodes(completed) ==
  {s \in Created \ completed : Deps[s] \subseteq completed}

IsPlanned(s) == \A t \in Story : s \notin Children[t]

Init ==
  /\ reqStatus = "planned"
  /\ status = [s \in Story |-> IF IsPlanned(s) THEN "draft" ELSE "none"]
  /\ tier = [s \in Story |-> 0]
  /\ fails = [s \in Story |-> 0]
  /\ pr = [s \in Story |-> "none"]
  /\ worktree = {}
  /\ session = [sl \in Slot |-> NoStory]
  /\ idleAt = {}
  /\ slotOf = [s \in Story |-> 0]
  /\ run = "down"
  /\ done = {} /\ queue = {} /\ toSpawn = {}
  /\ active = [sl \in Slot |-> NoStory]
  /\ stage = [s \in Story |-> "idle"]
  /\ mergeMu = NoStory
  /\ approving = [s \in Story |-> "no"]
  /\ crashes = 0

(* --- helpers: events appended and projected ---------------------------- *)

Emit(evt, s) == status' = [status EXCEPT ![s] = Project(evt, @)]

PauseRequirement == reqStatus' = "paused"

(* Mistake: the last tier is escalated like the others.                    *)
ResetPastLastTier(s, own) ==
  /\ tier' = [tier EXCEPT ![s] = @ + 1]
  /\ fails' = [fails EXCEPT ![s] = 1]
  /\ Emit("STORY_REVIEW_FAILED", s)
  /\ UNCHANGED reqStatus

(* Monitor.resetStoryToDraft.  `own' is the number of failure events the   *)
(* reviewer or QA has already appended for the same failure: they count    *)
(* towards the limit, and have put the story back to draft themselves.     *)
ResetStoryToDraft(s, own) ==
  LET count == Counted(fails[s] + own)
      shouldEscalate == count >= MaxRetriesForTier(tier[s])
  IN \/ /\ shouldEscalate /\ tier[s] >= 3
        /\ PauseRequirement
        /\ fails' = [fails EXCEPT ![s] = count]
        /\ IF own > 0 THEN Emit("STORY_REVIEW_FAILED", s) ELSE UNCHANGED status
        /\ UNCHANGED tier
     \/ /\ shouldEscalate /\ tier[s] < 3
        /\ tier' = [tier EXCEPT ![s] = @ + 1]
        /\ fails' = [fails EXCEPT ![s] = 1]
        /\ Emit("STORY_REVIEW_FAILED", s)
        /\ UNCHANGED reqStatus
     \/ /\ ~shouldEscalate
        /\ fails' = [fails EXCEPT ![s] = Counted(count + 1)]
        /\ Emit("STORY_REVIEW_FAILED", s)
        /\ UNCHANGED <<reqStatus, tier>>

(* --- tmux: what the agents do ------------------------------------------ *)

(* The agent is back at its prompt; its session stays.                     *)
AgentIdle(sl) ==
  /\ session[sl] # NoStory /\ sl \notin idleAt
  /\ idleAt' = idleAt \cup {sl}
  /\ UNCHANGED <<store, pr, worktree, session, slotOf, process, human>>

AgentExit(sl) ==
  /\ session[sl] # NoStory
  /\ session' = [session EXCEPT ![sl] = NoStory]
  /\ idleAt' = idleAt \ {sl}
  /\ UNCHANGED <<store, pr, worktree, slotOf, process, human>>

(* --- vxd resume: from the lock to the monitor --------------------------- *)

Unpaused == IF reqStatus = "paused" THEN "planned" ELSE reqStatus

(* Every story complete and a verdict given: nothing to do.  Every story   *)
(* complete but not on the mainline: the gate has nothing to verify.       *)
ResumeNotComposed ==
  /\ run = "down" /\ AllComplete
  /\ Unpaused # "completed"
  /\ \E s \in Created : ~GateOnlyReady(status[s])
  /\ reqStatus' = Unpaused
  /\ UNCHANGED <<status, tier, fails, pr, worktree, tmux, slotOf, process, human>>

ResumeGateOnly ==
  /\ run = "down" /\ AllComplete
  /\ Unpaused # "completed"
  /\ \A s \in Created : GateOnlyReady(status[s])
  /\ reqStatus' = IF reqStatus = "blocked" THEN "planned" ELSE Unpaused
  /\ run' = "track"
  /\ UNCHANGED <<status, tier, fails, pr, worktree, tmux, slotOf, done, queue,
                 toSpawn, active, stage, mergeMu, human>>

(* CheckConsistency; the session it looks for never has the name it was    *)
(* started under, so only the worktree counts.                             *)
WorkLost == {s \in Story : status[s] = "in_progress" /\ s \notin worktree}

ConsistencyCheck ==
  /\ status' = [s \in Story |-> IF s \in WorkLost
                                THEN Project("STORY_RESET", status[s])
                                ELSE status[s]]
  /\ tier' = [s \in Story |-> IF s \in WorkLost THEN 0 ELSE tier[s]]
  /\ fails' = [s \in Story |-> IF s \in WorkLost THEN 0 ELSE fails[s]]

(* Mistake: a story whose agent finished before the crash is not stalled.  *)
OrphansOfAgentsOnly == {s \in worktree : /\ status[s] = "in_progress"
                                         /\ slotOf[s] \in Slot
                                         /\ session[slotOf[s]] = NoStory}

(* recoverOrphanedStories: stalled, with a worktree, and no session alive  *)
(* under the name recorded for the story, whosever session that is.        *)
Orphans == {s \in worktree : /\ IsRecoverableStalledStatus(status[s])
                             /\ slotOf[s] \in Slot
                             /\ session[slotOf[s]] = NoStory}

(* The monitor keys its agents by session name: of two orphans recorded    *)
(* under one name it tracks only one.                                      *)
ResumeRecover ==
  /\ run = "down" /\ ~AllComplete /\ Orphans # {}
  /\ reqStatus' = Unpaused
  /\ ConsistencyCheck
  /\ \E tracked \in SUBSET Orphans :
       /\ \A s \in Orphans : \E t \in tracked : slotOf[t] = slotOf[s]
       /\ \A s, t \in tracked : slotOf[s] = slotOf[t] => s = t
       /\ active' = [sl \in Slot |->
                       IF \E s \in tracked : slotOf[s] = sl
                       THEN CHOOSE s \in tracked : slotOf[s] = sl
                       ELSE NoStory]
  /\ run' = "track"
  /\ UNCHANGED <<pr, worktree, tmux, slotOf, done, queue, toSpawn, stage,
                 mergeMu, human>>

ResumeDispatch ==
  /\ run = "down" /\ ~AllComplete /\ Orphans = {}
  /\ reqStatus' = Unpaused
  /\ ConsistencyCheck
  /\ done' = CompleteStories
  /\ run' = "dispatch"
  /\ UNCHANGED <<pr, worktree, tmux, slotOf, queue, toSpawn, active, stage,
                 mergeMu, human>>

Resume == ResumeNotComposed \/ ResumeGateOnly \/ ResumeRecover \/ ResumeDispatch

(* --- the monitor's poll -------------------------------------------------- *)

(* Mistakes: the session's status is not asked for; the agent stays in the *)
(* map.                                                                    *)
PollAnyAgent(sl) ==
  /\ run = "track" /\ active[sl] # NoStory
  /\ Emit("STORY_COMPLETED", active[sl])
  /\ stage' = [stage EXCEPT ![active[sl]] = "review"]
  /\ active' = [active EXCEPT ![sl] = NoStory]
  /\ UNCHANGED <<reqStatus, tier, fails, pr, worktree, tmux, slotOf, run, done,
                 queue, toSpawn, mergeMu, human>>

PollKeepsAgent(sl) ==
  /\ run = "track" /\ active[sl] # NoStory
  /\ (session[sl] = NoStory \/ sl \in idleAt)
  /\ Emit("STORY_COMPLETED", active[sl])
  /\ stage' = [stage EXCEPT ![active[sl]] = "review"]
  /\ UNCHANGED <<reqStatus, tier, fails, pr, worktree, tmux, slotOf, run, done,
                 queue, toSpawn, active, mergeMu, human>>

(* pollOnce: an idle prompt counts as done, a dead session as terminated.  *)
PollFinished(sl) ==
  /\ run = "track" /\ active[sl] # NoStory
  /\ (session[sl] = NoStory \/ sl \in idleAt)
  /\ Emit("STORY_COMPLETED", active[sl])
  /\ stage' = [stage EXCEPT ![active[sl]] = "review"]
  /\ active' = [active EXCEPT ![sl] = NoStory]
  /\ UNCHANGED <<reqStatus, tier, fails, pr, worktree, tmux, slotOf, run, done,
                 queue, toSpawn, mergeMu, human>>

(* The agent exceeded its time: up to the tech lead's tier the story goes  *)
(* up one and back to draft, and the agent works on.  That happens once    *)
(* per tracked agent: it leaves the story in draft.                        *)
SLABreach(sl) ==
  /\ SLAAutoEscalate
  /\ run = "track" /\ active[sl] # NoStory
  /\ status[active[sl]] # "draft" /\ tier[active[sl]] < 3
  /\ tier' = [tier EXCEPT ![active[sl]] = @ + 1]
  /\ fails' = [fails EXCEPT ![active[sl]] = 1]
  /\ Emit("STORY_REVIEW_FAILED", active[sl])
  /\ UNCHANGED <<reqStatus, pr, worktree, tmux, slotOf, process, human>>

(* --- post-execution pipeline of story s ---------------------------------- *)

(* Mistake: a return that does not unlock.                                 *)
EndPipelineLocked(s) ==
  /\ stage' = [stage EXCEPT ![s] = "idle"]
  /\ UNCHANGED mergeMu

(* The pipeline returns; the deferred unlock gives mergeMu back.           *)
EndPipeline(s) ==
  /\ stage' = [stage EXCEPT ![s] = "idle"]
  /\ mergeMu' = IF mergeMu = s THEN NoStory ELSE mergeMu

(* Mistake: a merge that cannot be recorded is treated as a failed merge.  *)
CanFailAfterMerge(s) == stage[s] \in {"review", "rebase", "merge", "record"}

(* Everything that can go wrong on the merge path happens up to the merge: *)
(* with the pull request open, only an automatic merge is left to fail.    *)
CanFail(s) == stage[s] \in {"review", "rebase"} \/ (stage[s] = "merge" /\ MergeMode = "auto")

(* Guardrails, an empty diff, a review or rebase error, a failed pre-merge *)
(* check, a pull request that cannot be created or merged.                 *)
StageFails(s) ==
  /\ CanFail(s)
  /\ ResetStoryToDraft(s, 0)
  /\ EndPipeline(s)
  /\ UNCHANGED <<pr, worktree, tmux, slotOf, run, done, queue, toSpawn, active, human>>

(* The reviewer's or QA's own failure event, then resetStoryToDraft.       *)
WorkRejected(s) ==
  /\ stage[s] \in {"review", "qa"}
  /\ ResetStoryToDraft(s, 1)
  /\ EndPipeline(s)
  /\ UNCHANGED <<pr, worktree, tmux, slotOf, run, done, queue, toSpawn, active, human>>

(* A capacity or fatal API error, or a security finding: the requirement   *)
(* pauses and the story keeps the status it has.                           *)
StagePauses(s) ==
  /\ CanFail(s) \/ stage[s] = "security"
  /\ PauseRequirement
  /\ EndPipeline(s)
  /\ UNCHANGED <<status, tier, fails, pr, worktree, tmux, slotOf, run, done,
                 queue, toSpawn, active, human>>

ReviewPasses(s) ==
  /\ stage[s] = "review"
  /\ Emit("STORY_REVIEW_PASSED", s)
  /\ stage' = [stage EXCEPT ![s] = "qa"]
  /\ UNCHANGED <<reqStatus, tier, fails, pr, worktree, tmux, slotOf, run, done,
                 queue, toSpawn, active, mergeMu, human>>

QAPasses(s) ==
  /\ stage[s] = "qa"
  /\ Emit("STORY_QA_PASSED", s)
  /\ stage' = [stage EXCEPT ![s] = "security"]
  /\ UNCHANGED <<reqStatus, tier, fails, pr, worktree, tmux, slotOf, run, done,
                 queue, toSpawn, active, mergeMu, human>>

(* Passed, or a tool error that does not block the merge.                  *)
SecurityPasses(s) ==
  /\ stage[s] = "security"
  /\ stage' = [stage EXCEPT ![s] = "mergewait"]
  /\ UNCHANGED <<store, pr, worktree, tmux, slotOf, run, done, queue, toSpawn,
                 active, mergeMu, human>>

(* Mistake: no lock around the shared checkout.                            *)
LockMergeUnguarded(s) ==
  /\ stage[s] = "mergewait"
  /\ mergeMu' = s
  /\ stage' = [stage EXCEPT ![s] = "rebase"]
  /\ UNCHANGED <<store, pr, worktree, tmux, slotOf, run, done, queue, toSpawn,
                 active, human>>

LockMerge(s) ==
  /\ stage[s] = "mergewait" /\ mergeMu = NoStory
  /\ mergeMu' = s
  /\ stage' = [stage EXCEPT ![s] = "rebase"]
  /\ UNCHANGED <<store, pr, worktree, tmux, slotOf, run, done, queue, toSpawn,
                 active, human>>

(* Rebase, pre-merge check, push; the forge refuses a second open pull     *)
(* request for one branch.                                                 *)
CreatePR(s) ==
  /\ stage[s] = "rebase" /\ pr[s] # "open"
  /\ pr' = [pr EXCEPT ![s] = "open"]
  /\ Emit("STORY_PR_CREATED", s)
  /\ stage' = [stage EXCEPT ![s] = "merge"]
  /\ UNCHANGED <<reqStatus, tier, fails, worktree, tmux, slotOf, run, done,
                 queue, toSpawn, active, mergeMu, human>>

AwaitApproval(s) ==
  /\ stage[s] = "merge" /\ MergeMode = "manual"
  /\ Emit("STORY_AWAITING_APPROVAL", s)
  /\ EndPipeline(s)
  /\ UNCHANGED <<reqStatus, tier, fails, pr, worktree, tmux, slotOf, run, done,
                 queue, toSpawn, active, human>>

MergePR(s) ==
  /\ stage[s] = "merge" /\ MergeMode = "auto"
  /\ pr' = [pr EXCEPT ![s] = "merged"]
  /\ stage' = [stage EXCEPT ![s] = "record"]
  /\ UNCHANGED <<store, worktree, tmux, slotOf, run, done, queue, toSpawn,
                 active, mergeMu, human>>

RecordMerge(s) ==
  /\ stage[s] = "record"
  /\ Emit("STORY_MERGED", s)
  /\ stage' = [stage EXCEPT ![s] = "cleanup"]
  /\ UNCHANGED <<reqStatus, tier, fails, pr, worktree, tmux, slotOf, run, done,
                 queue, toSpawn, active, mergeMu, human>>

(* The worktree goes if git lets it, and the budget cap may pause.         *)
FinishPipeline(s) ==
  /\ \/ stage[s] = "cleanup" /\ worktree' \in {worktree, worktree \ {s}}
     \/ stage[s] = "merge" /\ MergeMode = "pr_only" /\ UNCHANGED worktree
  /\ (PauseRequirement \/ UNCHANGED reqStatus)
  /\ EndPipeline(s)
  /\ UNCHANGED <<status, tier, fails, pr, tmux, slotOf, run, done, queue,
                 toSpawn, active, human>>

Pipeline(s) ==
  \/ StageFails(s) \/ WorkRejected(s) \/ StagePauses(s)
  \/ ReviewPasses(s) \/ QAPasses(s) \/ SecurityPasses(s) \/ LockMerge(s)
  \/ CreatePR(s) \/ AwaitApproval(s) \/ MergePR(s) \/ RecordMerge(s)
  \/ FinishPipeline(s)

(* --- dispatchNextWave ---------------------------------------------------- *)

(* Mistake: the next wave does not wait for the pipelines.                 *)
WaveOverTooSoon == run = "track" /\ \A sl \in Slot : active[sl] = NoStory

(* No agent tracked and, after pipelineWG.Wait, no pipeline running.       *)
WaveOver == /\ run = "track"
            /\ \A sl \in Slot : active[sl] = NoStory
            /\ \A s \in Story : stage[s] = "idle"

NextWavePaused ==
  /\ WaveOver /\ reqStatus = "paused"
  /\ run' = "down"
  /\ UNCHANGED <<store, pr, worktree, tmux, slotOf, done, queue, toSpawn, active,
                 stage, mergeMu, human>>

(* Dangling branches go, each with its open pull request; a delete that    *)
(* fails is logged.                                                        *)
Dangling == {s \in Created : ~GateOnlyReady(status[s]) /\ pr[s] = "open"}

(* Mistakes: the cleanup is not asked for its configuration; the children  *)
(* of a split are not waited for.                                          *)
NextWaveAlwaysCleans ==
  /\ WaveOver /\ reqStatus # "paused" /\ AllComplete
  /\ \E gone \in SUBSET Dangling :
       pr' = [s \in Story |-> IF s \in gone THEN "closed" ELSE pr[s]]
  /\ run' = "gate"
  /\ UNCHANGED <<store, worktree, tmux, slotOf, done, queue, toSpawn, active,
                 stage, mergeMu, human>>

NextWavePlannedDone ==
  /\ WaveOver /\ reqStatus # "paused"
  /\ \A s \in Created : IsPlanned(s) => IsStoryComplete(status[s])
  /\ run' = "gate"
  /\ UNCHANGED <<store, pr, worktree, tmux, slotOf, done, queue, toSpawn, active,
                 stage, mergeMu, human>>

NextWaveAllDone ==
  /\ WaveOver /\ reqStatus # "paused" /\ AllComplete
  /\ \E gone \in SUBSET (IF DeleteDanglingBranches THEN Dangling ELSE {}) :
       pr' = [s \in Story |-> IF s \in gone THEN "closed" ELSE pr[s]]
  /\ run' = "gate"
  /\ UNCHANGED <<store, worktree, tmux, slotOf, done, queue, toSpawn, active,
                 stage, mergeMu, human>>

(* The completed set is read once; with a manager wired every ready story  *)
(* is looked at before anything is dispatched.                             *)
NextWaveReady ==
  /\ WaveOver /\ reqStatus # "paused" /\ ~AllComplete
  /\ done' = CompleteStories
  /\ queue' = IF ManagerWired THEN ReadyNodes(CompleteStories) ELSE {}
  /\ run' = "dispatch"
  /\ UNCHANGED <<store, pr, worktree, tmux, slotOf, toSpawn, active, stage,
                 mergeMu, human>>

NextWave == NextWavePaused \/ NextWaveAllDone \/ NextWaveReady

(* --- interception: manager (tier 2) and tech lead (tier 3) --------------- *)

(* A handled story counts as completed for the rest of this wave.          *)
Handled(s) ==
  /\ run = "dispatch" /\ s \in queue
  /\ queue' = queue \ {s}
  /\ done' = done \cup {s}

(* Not of tier 2 or above when its turn comes.                             *)
PassOver(s) ==
  /\ run = "dispatch" /\ s \in queue /\ tier[s] < 2
  /\ queue' = queue \ {s}
  /\ UNCHANGED <<store, pr, worktree, tmux, slotOf, run, done, toSpawn, active,
                 stage, mergeMu, human>>

(* No usable diagnosis: a context or diagnosis error, an unknown action, a *)
(* rewrite or split without its configuration, an invalid split.           *)
ManagerResets(s) ==
  /\ Handled(s) /\ tier[s] = 2
  /\ ResetStoryToDraft(s, 0)
  /\ UNCHANGED <<pr, worktree, tmux, slotOf, run, toSpawn, active, stage, mergeMu, human>>

(* A capacity or fatal API error; for the tech lead, anything that goes    *)
(* wrong.                                                                  *)
InterceptionPauses(s) ==
  /\ Handled(s) /\ tier[s] \in {2, 3}
  /\ PauseRequirement
  /\ UNCHANGED <<status, tier, fails, pr, worktree, tmux, slotOf, run, toSpawn,
                 active, stage, mergeMu, human>>

(* STORY_ESCALATED to the reset tier.  CurrentTier is the highest to_tier  *)
(* since the last STORY_RESET, so a lower one changes nothing; the count   *)
(* starts over, and counts the STORY_REVIEW_FAILED that follows.           *)
ManagerRetries(s, resetTier) ==
  /\ Handled(s) /\ tier[s] = 2
  /\ tier' = [tier EXCEPT ![s] = IF resetTier > @ THEN resetTier ELSE @]
  /\ fails' = [fails EXCEPT ![s] = 1]
  /\ Emit("STORY_REVIEW_FAILED", s)
  /\ worktree' \in {worktree, worktree \ {s}}
  /\ UNCHANGED <<reqStatus, pr, tmux, slotOf, run, toSpawn, active, stage, mergeMu, human>>

ManagerRewrites(s) ==
  /\ Handled(s) /\ tier[s] = 2
  /\ Emit("STORY_REWRITTEN", s)
  /\ UNCHANGED <<reqStatus, tier, fails, pr, worktree, tmux, slotOf, run, toSpawn,
                 active, stage, mergeMu, human>>

ManagerEscalates(s) ==
  /\ Handled(s) /\ tier[s] = 2
  /\ tier' = [tier EXCEPT ![s] = 3]
  /\ fails' = [fails EXCEPT ![s] = 0]
  /\ UNCHANGED <<reqStatus, status, pr, worktree, tmux, slotOf, run, toSpawn,
                 active, stage, mergeMu, human>>

(* The children are created without dependencies and nothing is made to    *)
(* depend on them: both come from PlannedStory.DependsOn, which rebuildDAG *)
(* leaves empty.                                                           *)
StorySplit(s) ==
  /\ Handled(s)
  /\ \/ tier[s] = 2
     \/ tier[s] = 3 /\ PlannerWired
  /\ Children[s] # {} /\ \A c \in Children[s] : status[c] = "none"
  /\ status' = [c \in Story |->
                  IF c \in Children[s] THEN Project("STORY_CREATED", status[c])
                  ELSE IF c = s THEN Project("STORY_SPLIT", status[c])
                  ELSE status[c]]
  /\ UNCHANGED <<reqStatus, tier, fails, pr, worktree, tmux, slotOf, run, toSpawn,
                 active, stage, mergeMu, human>>

Intercept(s) ==
  \/ PassOver(s) \/ ManagerResets(s) \/ InterceptionPauses(s)
  \/ \E r \in 0..3 : ManagerRetries(s, r)
  \/ ManagerRewrites(s) \/ ManagerEscalates(s) \/ StorySplit(s)

(* --- Dispatcher.DispatchWave and Executor.SpawnAll ------------------------ *)

StoryDispatchable(s) == status[s] = "draft"

(* Wave hints, owned files and the cap leave some nonempty set of the      *)
(* dispatchable stories; the n-th of them gets the n-th session name.      *)
DispatchWave(wave, slotFor) ==
  /\ run = "dispatch" /\ queue = {}
  /\ wave # {} /\ Cardinality(wave) <= MaxConcurrentAgents
  /\ \A s \in wave : s \in ReadyNodes(done) /\ StoryDispatchable(s)
  /\ {slotFor[s] : s \in wave} = 1..Cardinality(wave)
  /\ status' = [s \in Story |-> IF s \in wave
                                THEN Project("STORY_ASSIGNED", status[s])
                                ELSE status[s]]
  /\ slotOf' = [s \in Story |-> IF s \in wave THEN slotFor[s] ELSE slotOf[s]]
  /\ toSpawn' = wave
  /\ run' = "spawn"
  /\ UNCHANGED <<reqStatus, tier, fails, pr, worktree, tmux, done, queue, active,
                 stage, mergeMu, human>>

NothingToDispatch ==
  /\ run = "dispatch" /\ queue = {}
  /\ \A s \in ReadyNodes(done) : ~StoryDispatchable(s)
  /\ run' = "down"
  /\ done' = {}
  /\ UNCHANGED <<store, pr, worktree, tmux, slotOf, queue, toSpawn, active, stage,
                 mergeMu, human>>

(* Worktree created or reused, a session of that name killed and replaced, *)
(* STORY_STARTED.                                                          *)
Spawn(s) ==
  /\ run = "spawn" /\ s \in toSpawn
  /\ toSpawn' = toSpawn \ {s}
  /\ worktree' = worktree \cup {s}
  /\ session' = [session EXCEPT ![slotOf[s]] = s]
  /\ idleAt' = idleAt \ {slotOf[s]}
  /\ active' = [active EXCEPT ![slotOf[s]] = s]
  /\ Emit("STORY_STARTED", s)
  /\ UNCHANGED <<reqStatus, tier, fails, pr, slotOf, run, done, queue, stage,
                 mergeMu, human>>

(* Before the worktree, before the old session is killed, or after.        *)
SpawnFails(s) ==
  /\ run = "spawn" /\ s \in toSpawn
  /\ toSpawn' = toSpawn \ {s}
  /\ worktree' \in {worktree, worktree \cup {s}}
  /\ \/ UNCHANGED tmux
     \/ /\ s \in worktree'
        /\ session' = [session EXCEPT ![slotOf[s]] = NoStory]
        /\ idleAt' = idleAt \ {slotOf[s]}
  /\ UNCHANGED <<store, pr, slotOf, run, done, queue, active, stage, mergeMu, human>>

(* With no agent spawned the run ends.                                     *)
SpawnDone ==
  /\ run = "spawn" /\ toSpawn = {}
  /\ run' = IF \A sl \in Slot : active[sl] = NoStory THEN "down" ELSE "track"
  /\ done' = {}
  /\ UNCHANGED <<store, pr, worktree, tmux, slotOf, queue, toSpawn, active, stage,
                 mergeMu, human>>

(* --- completion gate ------------------------------------------------------ *)

GateVerdict ==
  /\ run = "gate"
  /\ reqStatus' \in {"completed", "blocked"}
  /\ run' = "down"
  /\ UNCHANGED <<status, tier, fails, pr, worktree, tmux, slotOf, done, queue,
                 toSpawn, active, stage, mergeMu, human>>

(* --- a crash, a kill, or Ctrl-C ------------------------------------------- *)

Crash ==
  /\ run # "down" /\ crashes < MaxCrashes
  /\ crashes' = crashes + 1
  /\ run' = "down"
  /\ done' = {} /\ queue' = {} /\ toSpawn' = {}
  /\ active' = [sl \in Slot |-> NoStory]
  /\ stage' = [s \in Story |-> "idle"]
  /\ mergeMu' = NoStory
  /\ UNCHANGED <<store, pr, worktree, tmux, slotOf, approving>>

(* --- commands of the operator --------------------------------------------- *)

PauseCommand ==
  /\ "pause" \in Commands
  /\ reqStatus \notin {"paused", "completed"}
  /\ PauseRequirement
  /\ UNCHANGED <<status, tier, fails, pr, worktree, tmux, slotOf, process, human>>

(* `vxd approve' is a process of its own, one for a story at a time: it     *)
(* asks for the status once, merges on the forge (which lets a merged pull *)
(* request be merged again, or refuses), and records the merge and then    *)
(* the approval.  It may fail or be killed in between.                     *)
ApproveChecks(s) ==
  /\ "approve" \in Commands /\ approving[s] = "no"
  /\ status[s] = "awaiting_approval"
  /\ approving' = [approving EXCEPT ![s] = "checked"]
  /\ UNCHANGED <<store, pr, worktree, tmux, slotOf, process, crashes>>

ApproveMerges(s) ==
  /\ approving[s] = "checked" /\ pr[s] \in {"open", "merged"}
  /\ pr' = [pr EXCEPT ![s] = "merged"]
  /\ approving' = [approving EXCEPT ![s] = "merged"]
  /\ UNCHANGED <<store, worktree, tmux, slotOf, process, crashes>>

ApproveRecords(s) ==
  /\ approving[s] = "merged"
  /\ Emit("STORY_MERGED", s)
  /\ approving' = [approving EXCEPT ![s] = "recorded"]
  /\ UNCHANGED <<reqStatus, tier, fails, pr, worktree, tmux, slotOf, process, crashes>>

(* STORY_APPROVED leaves a story that is still merged be.                  *)
ApproveEnds(s) ==
  /\ approving[s] # "no"
  /\ approving' = [approving EXCEPT ![s] = "no"]
  /\ \/ approving[s] = "recorded" /\ Emit("STORY_APPROVED", s)
     \/ UNCHANGED status
  /\ UNCHANGED <<reqStatus, tier, fails, pr, worktree, tmux, slotOf, process, crashes>>

ApproveCommand(s) ==
  ApproveChecks(s) \/ ApproveMerges(s) \/ ApproveRecords(s) \/ ApproveEnds(s)

RejectCommand(s) ==
  /\ "reject" \in Commands
  /\ status[s] = "awaiting_approval"
  /\ Emit("STORY_REJECTED", s)
  /\ UNCHANGED <<reqStatus, tier, fails, pr, worktree, tmux, slotOf, process, human>>

(* Whatever the status of the story is.                                    *)
RetryCommand(s) ==
  /\ "retry" \in Commands
  /\ s \in Created
  /\ Emit("STORY_RESET", s)
  /\ tier' = [tier EXCEPT ![s] = 0]
  /\ fails' = [fails EXCEPT ![s] = 0]
  /\ UNCHANGED <<reqStatus, pr, worktree, tmux, slotOf, process, human>>

(* --- the specification ---------------------------------------------------- *)

Agents == \E sl \in Slot : AgentIdle(sl) \/ AgentExit(sl)

Dispatch ==
  \/ \E wave \in SUBSET Story : \E slotFor \in [wave -> Slot] :
       DispatchWave(wave, slotFor)
  \/ NothingToDispatch
  \/ \E s \in Story : Spawn(s) \/ SpawnFails(s)
  \/ SpawnDone

Monitor ==
  \/ \E sl \in Slot : PollFinished(sl) \/ SLABreach(sl)
  \/ \E s \in Story : Pipeline(s) \/ Intercept(s)
  \/ NextWave \/ Dispatch \/ GateVerdict

Operator ==
  \/ PauseCommand
  \/ \E s \in Story : ApproveCommand(s) \/ RejectCommand(s) \/ RetryCommand(s)

Next == Resume \/ Monitor \/ Agents \/ Crash \/ Operator

Spec == Init /\ [][Next]_vars

(* The process keeps taking its steps while it is up: every stage of a     *)
(* pipeline is bounded by pipeline_timeout_s, and a Go mutex is handed on. *)
(* Agents are assumed to end, as `claude -p' does; nobody is assumed to    *)
(* run `vxd resume', crash or type a command.                              *)
Fairness ==
  /\ \A sl \in Slot : WF_vars(AgentExit(sl)) /\ WF_vars(PollFinished(sl))
  /\ \A s \in Story : WF_vars(Pipeline(s)) /\ WF_vars(Intercept(s))
  /\ WF_vars(NextWave) /\ WF_vars(Dispatch) /\ WF_vars(GateVerdict)

FairSpec == Spec /\ Fairness

(* The operator also keeps resuming a requirement that is not running.     *)
PatientSpec == FairSpec /\ WF_vars(Resume)
=============================================================================
