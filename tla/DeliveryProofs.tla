---------------------------- MODULE DeliveryProofs ----------------------------
(***************************************************************************)
(* What is proved of DeliveryPipeline for any number of stories, sessions, *)
(* dependencies, retry limits and crashes.  In every configuration: types, *)
(* the exclusion on the shared checkout, and that an agent is tracked once *)
(* and never beside its own pipeline.  Then what holds in some             *)
(* configurations only, each theorem with the configurations it is about.  *)
(***************************************************************************)
EXTENDS DeliveryProperties, TLAPS

(* --- types --------------------------------------------------------------- *)

(* The projection of an event is a status, whatever status it replaces.    *)
LEMMA ProjectType ==
  \A evt \in StoryEvent, st \in StoryStatus : Project(evt, st) \in StoryStatus
BY DEF StoryEvent, StoryStatus, Project, IsStoryComplete

(* One failure always fits the failure counter: its bound is at least one. *)
LEMMA FailCapPositive == FailCap \in Nat /\ 1 <= FailCap
<1>1. MaxRetriesForTier(3) = 1
  BY DEF MaxRetriesForTier
<1> QED BY <1>1, FailCapAssumption

LEMMA CountedType == \A n \in Nat : Counted(n) \in 0..FailCap
BY FailCapPositive DEF Counted

(* Appending an event to a story changes that story's status to a status.  *)
LEMMA EmitType ==
  ASSUME TypeOK, NEW s \in Story, NEW evt \in StoryEvent, Emit(evt, s)
  PROVE  status' \in [Story -> StoryStatus]
<1>1. Project(evt, status[s]) \in StoryStatus
  BY ProjectType DEF TypeOK
<1> QED BY <1>1 DEF Emit, TypeOK

(* resetStoryToDraft keeps the types of all it touches.                    *)
LEMMA ResetType ==
  ASSUME TypeOK, NEW s \in Story, NEW own \in {0, 1}, ResetStoryToDraft(s, own)
  PROVE  /\ reqStatus' \in ReqStatus
         /\ status' \in [Story -> StoryStatus]
         /\ tier' \in [Story -> 0..3]
         /\ fails' \in [Story -> 0..FailCap]
<1> DEFINE count == Counted(fails[s] + own)
           enough == count >= MaxRetriesForTier(tier[s])
<1> "STORY_REVIEW_FAILED" \in StoryEvent
  BY DEF StoryEvent
<1>1. count \in 0..FailCap /\ Counted(count + 1) \in 0..FailCap /\ 1 \in 0..FailCap
  <2>1. fails[s] + own \in Nat
    BY FailCapPositive DEF TypeOK
  <2>2. count \in 0..FailCap
    BY <2>1, CountedType
  <2>3. count + 1 \in Nat
    BY <2>2, FailCapPositive
  <2> QED BY <2>2, <2>3, CountedType, FailCapPositive
<1>2. CASE /\ enough /\ tier[s] >= 3
           /\ PauseRequirement
           /\ fails' = [fails EXCEPT ![s] = count]
           /\ IF own > 0 THEN Emit("STORY_REVIEW_FAILED", s) ELSE UNCHANGED status
           /\ UNCHANGED tier
  <2>1. status' \in [Story -> StoryStatus]
    BY <1>2, EmitType DEF TypeOK
  <2> QED BY <1>1, <1>2, <2>1 DEF TypeOK, PauseRequirement, ReqStatus
<1>3. CASE /\ enough /\ tier[s] < 3
           /\ tier' = [tier EXCEPT ![s] = @ + 1]
           /\ fails' = [fails EXCEPT ![s] = 1]
           /\ Emit("STORY_REVIEW_FAILED", s)
           /\ UNCHANGED reqStatus
  <2>1. status' \in [Story -> StoryStatus]
    BY <1>3, EmitType
  <2>2. tier[s] + 1 \in 0..3
    BY <1>3 DEF TypeOK
  <2> HIDE DEF enough, count
  <2> QED BY <1>1, <1>3, <2>1, <2>2 DEF TypeOK
<1>4. CASE /\ ~enough
           /\ fails' = [fails EXCEPT ![s] = Counted(count + 1)]
           /\ Emit("STORY_REVIEW_FAILED", s)
           /\ UNCHANGED <<reqStatus, tier>>
  <2>1. status' \in [Story -> StoryStatus]
    BY <1>4, EmitType
  <2> HIDE DEF enough, count
  <2> QED BY <1>1, <1>4, <2>1 DEF TypeOK
<1> QED BY <1>2, <1>3, <1>4 DEF ResetStoryToDraft

LEMMA EndPipelineType ==
  ASSUME TypeOK, NEW s \in Story, EndPipeline(s)
  PROVE  stage' \in [Story -> Stage] /\ mergeMu' \in StoryOrNone
BY DEF TypeOK, EndPipeline, Stage, StoryOrNone

LEMMA TypeInit == Init => TypeOK
<1>1. ASSUME Init PROVE /\ fails \in [Story -> 0..FailCap]
                        /\ slotOf \in [Story -> 0..MaxConcurrentAgents]
                        /\ crashes \in 0..MaxCrashes
  BY <1>1, FailCapPositive, LimitsAssumption DEF Init
<1> QED BY <1>1 DEF Init, TypeOK, ReqStatus, StoryStatus, PRState, StoryOrNone,
                    Slot, RunPhase, Stage

(* --- types: every action keeps them --------------------------------------- *)

LEMMA ConsistencyCheckType ==
  ASSUME TypeOK, ConsistencyCheck
  PROVE  /\ status' \in [Story -> StoryStatus]
         /\ tier' \in [Story -> 0..3]
         /\ fails' \in [Story -> 0..FailCap]
<1>1. \A s \in Story : Project("STORY_RESET", status[s]) \in StoryStatus
  BY ProjectType DEF TypeOK, StoryEvent
<1> QED BY <1>1, FailCapPositive DEF ConsistencyCheck, TypeOK

LEMMA ResumeType == TypeOK /\ Resume => TypeOK'
<1> SUFFICES ASSUME TypeOK, Resume PROVE TypeOK'
  OBVIOUS
<1> USE DEF human
<1>1. Unpaused \in ReqStatus
  BY DEF Unpaused, TypeOK, ReqStatus
<1>2. CASE ResumeNotComposed
  BY <1>1, <1>2 DEF ResumeNotComposed, TypeOK, tmux, process
<1>3. CASE ResumeGateOnly
  BY <1>1, <1>3 DEF ResumeGateOnly, TypeOK, ReqStatus, RunPhase, tmux
<1>4. CASE ResumeRecover
  <2>1. active' \in [Slot -> StoryOrNone]
    BY <1>4 DEF ResumeRecover, Orphans, TypeOK, StoryOrNone
  <2> QED BY <1>1, <1>4, <2>1, ConsistencyCheckType
          DEF ResumeRecover, TypeOK, RunPhase, tmux
<1>5. CASE ResumeDispatch
  BY <1>1, <1>5, ConsistencyCheckType
  DEF ResumeDispatch, CompleteStories, Created, TypeOK, RunPhase, tmux
<1> QED BY <1>2, <1>3, <1>4, <1>5 DEF Resume

LEMMA PollType == \A sl \in Slot : TypeOK /\ PollFinished(sl) => TypeOK'
<1> SUFFICES ASSUME NEW sl \in Slot, TypeOK, PollFinished(sl) PROVE TypeOK'
  OBVIOUS
<1> USE DEF human
<1>1. active[sl] \in Story
  BY DEF PollFinished, TypeOK, StoryOrNone
<1>2. status' \in [Story -> StoryStatus]
  BY <1>1, EmitType DEF PollFinished, StoryEvent
<1> QED BY <1>1, <1>2 DEF PollFinished, TypeOK, Stage, StoryOrNone, tmux

LEMMA SLABreachType == \A sl \in Slot : TypeOK /\ SLABreach(sl) => TypeOK'
<1> SUFFICES ASSUME NEW sl \in Slot, TypeOK, SLABreach(sl) PROVE TypeOK'
  OBVIOUS
<1> USE DEF human
<1>1. active[sl] \in Story
  BY DEF SLABreach, TypeOK, StoryOrNone
<1>2. status' \in [Story -> StoryStatus]
  BY <1>1, EmitType DEF SLABreach, StoryEvent
<1>3. tier' \in [Story -> 0..3]
  BY <1>1 DEF SLABreach, TypeOK
<1>4. fails' \in [Story -> 0..FailCap]
  BY <1>1, FailCapPositive DEF SLABreach, TypeOK
<1> QED BY <1>2, <1>3, <1>4 DEF SLABreach, TypeOK, tmux, process

LEMMA PipelineType == \A s \in Story : TypeOK /\ Pipeline(s) => TypeOK'
<1> SUFFICES ASSUME NEW s \in Story, TypeOK, Pipeline(s) PROVE TypeOK'
  OBVIOUS
<1> USE DEF tmux, store, human
<1>1. CASE StageFails(s)
  BY <1>1, ResetType, EndPipelineType DEF StageFails, TypeOK
<1>2. CASE WorkRejected(s)
  BY <1>2, ResetType, EndPipelineType DEF WorkRejected, TypeOK
<1>3. CASE StagePauses(s)
  BY <1>3, EndPipelineType DEF StagePauses, PauseRequirement, ReqStatus, TypeOK
<1>4. CASE ReviewPasses(s)
  BY <1>4, EmitType DEF ReviewPasses, StoryEvent, Stage, TypeOK
<1>5. CASE QAPasses(s)
  BY <1>5, EmitType DEF QAPasses, StoryEvent, Stage, TypeOK
<1>6. CASE SecurityPasses(s)
  BY <1>6 DEF SecurityPasses, Stage, TypeOK
<1>7. CASE LockMerge(s)
  BY <1>7 DEF LockMerge, Stage, MergeStage, StoryOrNone, TypeOK
<1>8. CASE CreatePR(s)
  BY <1>8, EmitType DEF CreatePR, StoryEvent, Stage, MergeStage, PRState, TypeOK
<1>9. CASE AwaitApproval(s)
  BY <1>9, EmitType, EndPipelineType DEF AwaitApproval, StoryEvent, TypeOK
<1>10. CASE MergePR(s)
  BY <1>10 DEF MergePR, Stage, MergeStage, PRState, TypeOK
<1>11. CASE RecordMerge(s)
  BY <1>11, EmitType DEF RecordMerge, StoryEvent, Stage, MergeStage, TypeOK
<1>12. CASE FinishPipeline(s)
  BY <1>12, EndPipelineType DEF FinishPipeline, PauseRequirement, ReqStatus, TypeOK
<1> QED BY <1>1, <1>2, <1>3, <1>4, <1>5, <1>6, <1>7, <1>8, <1>9, <1>10, <1>11,
           <1>12 DEF Pipeline

LEMMA NextWaveType == TypeOK /\ NextWave => TypeOK'
<1> SUFFICES ASSUME TypeOK, NextWave PROVE TypeOK'
  OBVIOUS
<1> USE DEF tmux, store, human
<1>1. CASE NextWavePaused
  BY <1>1 DEF NextWavePaused, RunPhase, TypeOK
<1>2. CASE NextWaveAllDone
  BY <1>2 DEF NextWaveAllDone, PRState, RunPhase, TypeOK
<1>3. CASE NextWaveReady
  BY <1>3 DEF NextWaveReady, ReadyNodes, CompleteStories, Created, RunPhase, TypeOK
<1> QED BY <1>1, <1>2, <1>3 DEF NextWave

LEMMA InterceptType == \A s \in Story : TypeOK /\ Intercept(s) => TypeOK'
<1> SUFFICES ASSUME NEW s \in Story, TypeOK, Intercept(s) PROVE TypeOK'
  OBVIOUS
<1> USE DEF tmux, store, human
<1>1. CASE PassOver(s)
  BY <1>1 DEF PassOver, TypeOK
<1>2. CASE ManagerResets(s)
  BY <1>2, ResetType DEF ManagerResets, Handled, TypeOK
<1>3. CASE InterceptionPauses(s)
  BY <1>3 DEF InterceptionPauses, Handled, PauseRequirement, ReqStatus, TypeOK
<1>4. ASSUME NEW r \in 0..3, ManagerRetries(s, r) PROVE TypeOK'
  <2>1. status' \in [Story -> StoryStatus]
    BY <1>4, EmitType DEF ManagerRetries, StoryEvent
  <2>2. fails' \in [Story -> 0..FailCap]
    BY <1>4, FailCapPositive DEF ManagerRetries, TypeOK
  <2> QED BY <1>4, <2>1, <2>2 DEF ManagerRetries, Handled, TypeOK
<1>5. CASE ManagerRewrites(s)
  BY <1>5, EmitType DEF ManagerRewrites, Handled, StoryEvent, TypeOK
<1>6. CASE ManagerEscalates(s)
  BY <1>6, FailCapPositive DEF ManagerEscalates, Handled, TypeOK
<1>7. CASE StorySplit(s)
  <2>1. \A c \in Story : /\ Project("STORY_CREATED", status[c]) \in StoryStatus
                        /\ Project("STORY_SPLIT", status[c]) \in StoryStatus
    BY ProjectType DEF TypeOK, StoryEvent
  <2>2. status' \in [Story -> StoryStatus]
    BY <1>7, <2>1 DEF StorySplit, TypeOK
  <2> QED BY <1>7, <2>2 DEF StorySplit, Handled, TypeOK
<1> QED BY <1>1, <1>2, <1>3, <1>4, <1>5, <1>6, <1>7 DEF Intercept

LEMMA DispatchType == TypeOK /\ Dispatch => TypeOK'
<1> SUFFICES ASSUME TypeOK, Dispatch PROVE TypeOK'
  OBVIOUS
<1> USE DEF tmux, store, human
<1>1. ASSUME NEW wave \in SUBSET Story, NEW slotFor \in [wave -> Slot],
             DispatchWave(wave, slotFor)
      PROVE  TypeOK'
  <2>1. \A s \in Story : Project("STORY_ASSIGNED", status[s]) \in StoryStatus
    BY ProjectType DEF TypeOK, StoryEvent
  <2>2. status' \in [Story -> StoryStatus]
    BY <1>1, <2>1 DEF DispatchWave, TypeOK
  <2>3. slotOf' \in [Story -> 0..MaxConcurrentAgents]
    BY <1>1, LimitsAssumption DEF DispatchWave, Slot, TypeOK
  <2> QED BY <1>1, <2>2, <2>3 DEF DispatchWave, RunPhase, TypeOK
<1>2. CASE NothingToDispatch
  BY <1>2 DEF NothingToDispatch, RunPhase, TypeOK
<1>3. ASSUME NEW s \in Story, Spawn(s) PROVE TypeOK'
  <2>1. status' \in [Story -> StoryStatus]
    BY <1>3, EmitType DEF Spawn, StoryEvent
  <2>2. session' \in [Slot -> StoryOrNone] /\ active' \in [Slot -> StoryOrNone]
    BY <1>3 DEF Spawn, StoryOrNone, TypeOK
  <2>3. idleAt' \subseteq {sl \in Slot : session'[sl] # NoStory}
    BY <1>3 DEF Spawn, TypeOK
  <2> QED BY <1>3, <2>1, <2>2, <2>3 DEF Spawn, TypeOK
<1>4. ASSUME NEW s \in Story, SpawnFails(s) PROVE TypeOK'
  <2>1. session' \in [Slot -> StoryOrNone]
    BY <1>4 DEF SpawnFails, StoryOrNone, TypeOK
  <2>2. idleAt' \subseteq {sl \in Slot : session'[sl] # NoStory}
    BY <1>4 DEF SpawnFails, TypeOK
  <2> QED BY <1>4, <2>1, <2>2 DEF SpawnFails, TypeOK
<1>5. CASE SpawnDone
  BY <1>5 DEF SpawnDone, RunPhase, TypeOK
<1> QED BY <1>1, <1>2, <1>3, <1>4, <1>5 DEF Dispatch

LEMMA AgentsType == TypeOK /\ Agents => TypeOK'
BY DEF Agents, AgentIdle, AgentExit, TypeOK, StoryOrNone, store, process,
       human

LEMMA CrashType == TypeOK /\ Crash => TypeOK'
BY LimitsAssumption
DEF Crash, TypeOK, RunPhase, Stage, StoryOrNone, store, tmux

LEMMA OperatorType == TypeOK /\ Operator => TypeOK'
<1> SUFFICES ASSUME TypeOK, Operator PROVE TypeOK'
  OBVIOUS
<1> USE DEF tmux, process, human
<1>1. CASE PauseCommand
  BY <1>1 DEF PauseCommand, PauseRequirement, ReqStatus, TypeOK
<1>2. ASSUME NEW s \in Story, ApproveCommand(s) PROVE TypeOK'
  <2>1. CASE ApproveChecks(s)
    BY <2>1 DEF ApproveChecks, store, TypeOK
  <2>2. CASE ApproveMerges(s)
    BY <2>2 DEF ApproveMerges, store, PRState, TypeOK
  <2>3. CASE ApproveRecords(s)
    BY <2>3, EmitType DEF ApproveRecords, StoryEvent, TypeOK
  <2>4. CASE ApproveEnds(s)
    BY <2>4, EmitType DEF ApproveEnds, StoryEvent, TypeOK
  <2> QED BY <1>2, <2>1, <2>2, <2>3, <2>4 DEF ApproveCommand
<1>3. ASSUME NEW s \in Story, RejectCommand(s) PROVE TypeOK'
  BY <1>3, EmitType DEF RejectCommand, StoryEvent, TypeOK
<1>4. ASSUME NEW s \in Story, RetryCommand(s) PROVE TypeOK'
  BY <1>4, EmitType, FailCapPositive DEF RetryCommand, StoryEvent, TypeOK
<1> QED BY <1>1, <1>2, <1>3, <1>4 DEF Operator

LEMMA TypeStep == TypeOK /\ [Next]_vars => TypeOK'
<1> SUFFICES ASSUME TypeOK, [Next]_vars PROVE TypeOK'
  OBVIOUS
<1>1. CASE Monitor
  <2>1. CASE GateVerdict
    BY <2>1 DEF GateVerdict, ReqStatus, RunPhase, TypeOK, tmux, human
  <2> QED BY <1>1, <2>1, PollType, SLABreachType, PipelineType, InterceptType, NextWaveType,
             DispatchType DEF Monitor
<1>2. CASE UNCHANGED vars
  BY <1>2 DEF vars, store, tmux, process, human, TypeOK
<1> QED BY <1>1, <1>2, ResumeType, AgentsType, CrashType, OperatorType DEF Next

(* In every behaviour the variables keep their types: in particular no     *)
(* story goes beyond the tech lead's tier, and no agent is taken for idle  *)
(* whose session is gone.                                                  *)
THEOREM Typed == Spec => []TypeOK
<1> QED BY TypeInit, TypeStep, PTL DEF Spec

(* --- tracked once, and exclusive on the shared checkout -------------------- *)

LEMMA TrackingInit == Init => TrackingInv
BY TypeInit, StoryAssumption
DEF Init, TrackingInv, MergeExclusive, MergeStage, TrackedOnce,
    PipelinesOnlyInTrack, SpawnPending

(* Most actions touch nothing the invariant speaks of but the types.       *)
LEMMA TrackingQuiet ==
  ASSUME TrackingInv, TypeOK',
         UNCHANGED <<stage, mergeMu, active, run, toSpawn, slotOf>>
  PROVE  TrackingInv'
BY DEF TrackingInv, MergeExclusive, TrackedOnce, PipelinesOnlyInTrack, SpawnPending

LEMMA ResumeTracking == TrackingInv /\ TypeOK' /\ Resume => TrackingInv'
<1> SUFFICES ASSUME TrackingInv, TypeOK', Resume PROVE TrackingInv'
  OBVIOUS
<1> USE DEF TrackingInv, process
<1>1. CASE ResumeNotComposed
  BY <1>1, TrackingQuiet DEF ResumeNotComposed
<1>2. CASE ResumeGateOnly
  BY <1>2 DEF ResumeGateOnly, MergeExclusive, TrackedOnce, PipelinesOnlyInTrack,
              SpawnPending
<1>3. CASE ResumeRecover
  <2> SUFFICES ASSUME NEW tracked \in SUBSET Orphans,
                      active' = [sl \in Slot |->
                                   IF \E s \in tracked : slotOf[s] = sl
                                   THEN CHOOSE s \in tracked : slotOf[s] = sl
                                   ELSE NoStory]
               PROVE  TrackingInv'
    BY <1>3 DEF ResumeRecover
  <2>1. \A sl \in Slot : active'[sl] # NoStory =>
          active'[sl] \in tracked /\ slotOf[active'[sl]] = sl
    OBVIOUS
  <2>2. \A s \in Story : stage[s] = "idle"
    BY <1>3 DEF ResumeRecover, PipelinesOnlyInTrack
  <2>3. toSpawn = {}
    BY <1>3 DEF ResumeRecover, SpawnPending
  <2>4. tracked \subseteq Story
    BY DEF Orphans, TypeOK
  <2>5. TrackedOnce'
    BY <1>3, <2>1, <2>2, <2>4 DEF ResumeRecover, TrackedOnce
  <2> QED BY <1>3, <2>2, <2>3, <2>5
          DEF ResumeRecover, MergeExclusive, PipelinesOnlyInTrack, SpawnPending
<1>4. CASE ResumeDispatch
  BY <1>4 DEF ResumeDispatch, MergeExclusive, TrackedOnce, PipelinesOnlyInTrack,
              SpawnPending
<1> QED BY <1>1, <1>2, <1>3, <1>4 DEF Resume

LEMMA PollTracking ==
  \A sl \in Slot : TrackingInv /\ TypeOK' /\ PollFinished(sl) => TrackingInv'
<1> SUFFICES ASSUME NEW sl \in Slot, TrackingInv, TypeOK', PollFinished(sl)
             PROVE  TrackingInv'
  OBVIOUS
<1> DEFINE s == active[sl]
<1> USE DEF TrackingInv
<1>1. s \in Story /\ stage[s] = "idle"
  BY DEF PollFinished, TrackedOnce, TypeOK, StoryOrNone
<1>2. \A x \in Slot : active'[x] # NoStory =>
        x # sl /\ active'[x] = active[x] /\ active[x] # s
  BY DEF PollFinished, TrackedOnce, TypeOK
<1>3. /\ stage'[s] = "review"
      /\ \A t \in Story : t # s => stage'[t] = stage[t]
  BY <1>1 DEF PollFinished, TypeOK
<1>4. MergeExclusive'
  BY <1>1, <1>3 DEF PollFinished, MergeExclusive, MergeStage
<1>5. TrackedOnce'
  BY <1>2, <1>3 DEF PollFinished, TrackedOnce, TypeOK, StoryOrNone
<1>6. PipelinesOnlyInTrack' /\ SpawnPending'
  BY DEF PollFinished, PipelinesOnlyInTrack, SpawnPending
<1> QED BY <1>4, <1>5, <1>6

(* A step of a pipeline moves one story, between stages other than idle or *)
(* back to idle, and moves the mutex as it enters or leaves the merge.     *)
LEMMA StageTracking ==
  ASSUME TrackingInv, TypeOK', NEW s \in Story, stage[s] # "idle",
         UNCHANGED <<active, run, toSpawn, slotOf>>,
         \A t \in Story : t # s => stage'[t] = stage[t],
         stage'[s] \in MergeStage <=> mergeMu' = s,
         \A t \in Story : t # s => (mergeMu' = t <=> mergeMu = t)
  PROVE  TrackingInv'
<1> USE DEF TrackingInv
<1>1. MergeExclusive'
  BY DEF MergeExclusive
<1>2. TrackedOnce'
  BY DEF TrackedOnce, TypeOK, StoryOrNone
<1>3. PipelinesOnlyInTrack' /\ SpawnPending'
  BY DEF PipelinesOnlyInTrack, SpawnPending
<1> QED BY <1>1, <1>2, <1>3

LEMMA EndPipelineTracking ==
  ASSUME TrackingInv, TypeOK', NEW s \in Story, stage[s] # "idle", EndPipeline(s),
         UNCHANGED <<active, run, toSpawn, slotOf>>
  PROVE  TrackingInv'
<1>1. /\ stage'[s] = "idle"
      /\ \A t \in Story : t # s => stage'[t] = stage[t]
  BY DEF EndPipeline, TrackingInv, TypeOK
<1>2. /\ mergeMu' # s
      /\ \A t \in Story : t # s => (mergeMu' = t <=> mergeMu = t)
  BY StoryAssumption DEF EndPipeline
<1>3. "idle" \notin MergeStage
  BY DEF MergeStage
<1> QED BY <1>1, <1>2, <1>3, StageTracking

LEMMA PipelineTracking ==
  \A s \in Story : TrackingInv /\ TypeOK' /\ Pipeline(s) => TrackingInv'
<1> SUFFICES ASSUME NEW s \in Story, TrackingInv, TypeOK', Pipeline(s)
             PROVE  TrackingInv'
  OBVIOUS
<1>1. CASE StageFails(s)
  BY <1>1, EndPipelineTracking DEF StageFails, CanFail
<1>2. CASE WorkRejected(s)
  BY <1>2, EndPipelineTracking DEF WorkRejected
<1>3. CASE StagePauses(s)
  BY <1>3, EndPipelineTracking DEF StagePauses, CanFail
<1>4. CASE AwaitApproval(s)
  BY <1>4, EndPipelineTracking DEF AwaitApproval
<1>5. CASE FinishPipeline(s)
  BY <1>5, EndPipelineTracking DEF FinishPipeline
<1> USE DEF TrackingInv, TypeOK, MergeExclusive, MergeStage
<1>6. CASE ReviewPasses(s)
  BY <1>6, StageTracking DEF ReviewPasses
<1>7. CASE QAPasses(s)
  BY <1>7, StageTracking DEF QAPasses
<1>8. CASE SecurityPasses(s)
  BY <1>8, StageTracking DEF SecurityPasses
<1>9. CASE LockMerge(s)
  BY <1>9, StageTracking, StoryAssumption DEF LockMerge
<1>10. CASE CreatePR(s)
  BY <1>10, StageTracking DEF CreatePR
<1>11. CASE MergePR(s)
  BY <1>11, StageTracking DEF MergePR
<1>12. CASE RecordMerge(s)
  BY <1>12, StageTracking DEF RecordMerge
<1> HIDE DEF TrackingInv, TypeOK, MergeExclusive, MergeStage
<1> QED BY <1>1, <1>2, <1>3, <1>4, <1>5, <1>6, <1>7, <1>8, <1>9, <1>10, <1>11,
           <1>12 DEF Pipeline

LEMMA NextWaveTracking == TrackingInv /\ TypeOK' /\ NextWave => TrackingInv'
BY DEF NextWave, NextWavePaused, NextWaveAllDone, NextWaveReady, WaveOver,
       TrackingInv, MergeExclusive, TrackedOnce, PipelinesOnlyInTrack, SpawnPending

LEMMA InterceptTracking ==
  \A s \in Story : TrackingInv /\ TypeOK' /\ Intercept(s) => TrackingInv'
BY TrackingQuiet
DEF Intercept, PassOver, ManagerResets, InterceptionPauses, ManagerRetries,
    ManagerRewrites, ManagerEscalates, StorySplit

LEMMA DispatchTracking == TrackingInv /\ TypeOK' /\ Dispatch => TrackingInv'
<1> SUFFICES ASSUME TrackingInv, TypeOK', Dispatch PROVE TrackingInv'
  OBVIOUS
<1> USE DEF TrackingInv, MergeExclusive, TrackedOnce, PipelinesOnlyInTrack, SpawnPending
<1>1. ASSUME NEW wave \in SUBSET Story, NEW slotFor \in [wave -> Slot],
             DispatchWave(wave, slotFor)
      PROVE  TrackingInv'
  <2>1. \A sl \in Slot : active'[sl] = NoStory
    BY <1>1 DEF DispatchWave
  <2>2. \A s \in toSpawn' : slotOf'[s] \in Slot
    BY <1>1 DEF DispatchWave
  <2> QED BY <1>1, <2>1, <2>2, StoryAssumption DEF DispatchWave
<1>2. CASE NothingToDispatch
  BY <1>2 DEF NothingToDispatch
<1>3. ASSUME NEW s \in Story, Spawn(s) PROVE TrackingInv'
  <2>1. slotOf[s] \in Slot /\ \A sl \in Slot : active[sl] # s
    BY <1>3 DEF Spawn
  <2>2. \A sl \in Slot : active'[sl] = IF sl = slotOf[s] THEN s ELSE active[sl]
    BY <1>3, <2>1 DEF Spawn, TypeOK
  <2> QED BY <1>3, <2>1, <2>2 DEF Spawn
<1>4. ASSUME NEW s \in Story, SpawnFails(s) PROVE TrackingInv'
  BY <1>4 DEF SpawnFails
<1>5. CASE SpawnDone
  BY <1>5 DEF SpawnDone
<1> QED BY <1>1, <1>2, <1>3, <1>4, <1>5 DEF Dispatch

LEMMA CrashTracking == TrackingInv /\ TypeOK' /\ Crash => TrackingInv'
BY StoryAssumption
DEF Crash, TrackingInv, MergeExclusive, MergeStage, TrackedOnce,
    PipelinesOnlyInTrack, SpawnPending

LEMMA TrackingStep == TrackingInv /\ [Next]_vars => TrackingInv'
<1> SUFFICES ASSUME TrackingInv, [Next]_vars PROVE TrackingInv'
  OBVIOUS
<1>1. TypeOK'
  BY TypeStep DEF TrackingInv
<1>2. CASE Monitor
  <2>1. CASE GateVerdict
    BY <1>1, <2>1 DEF GateVerdict, TrackingInv, MergeExclusive, TrackedOnce,
                      PipelinesOnlyInTrack, SpawnPending
  <2>2. ASSUME NEW sl \in Slot, SLABreach(sl) PROVE TrackingInv'
    BY <1>1, <2>2, TrackingQuiet DEF SLABreach, process
  <2> QED BY <1>1, <1>2, <2>1, <2>2, PollTracking, PipelineTracking,
             InterceptTracking, NextWaveTracking, DispatchTracking DEF Monitor
<1>3. CASE Agents
  BY <1>1, <1>3, TrackingQuiet DEF Agents, AgentIdle, AgentExit, process
<1>4. CASE Operator
  BY <1>1, <1>4, TrackingQuiet
  DEF Operator, PauseCommand, ApproveCommand, ApproveChecks, ApproveMerges, ApproveRecords,
      ApproveEnds, RejectCommand, RetryCommand, process
<1>5. CASE UNCHANGED vars
  BY <1>1, <1>5, TrackingQuiet DEF vars, process
<1> QED BY <1>1, <1>2, <1>3, <1>4, <1>5, ResumeTracking, CrashTracking DEF Next

LEMMA TrackingInvariant == Spec => []TrackingInv
BY TrackingInit, TrackingStep, PTL DEF Spec

(* The pipelines that rebase, merge or clean up in the one shared checkout *)
(* exclude each other: mergeMu is held exactly as long as a pipeline is in *)
(* there, whichever way it returns and wherever the process is killed.     *)
THEOREM Exclusive == Spec => []MergeExclusive
<1>1. TrackingInv => MergeExclusive
  BY DEF TrackingInv
<1> QED BY <1>1, TrackingInvariant, PTL

(* The monitor never tracks two agents for one story, and never an agent   *)
(* beside the story's own pipeline, whatever is spawned, recovered after a *)
(* crash, or reset by the operator meanwhile.                              *)
THEOREM OncePerStory == Spec => []TrackedOnce
<1>1. TrackingInv => TrackedOnce
  BY DEF TrackingInv
<1> QED BY <1>1, TrackingInvariant, PTL

(* --- what an event leaves behind ----------------------------------------- *)

LEMMA ProjectValues ==
  \A st : /\ Project("STORY_ASSIGNED", st) = "assigned"
          /\ Project("STORY_STARTED", st) =
               IF IsStoryComplete(st) THEN st ELSE "in_progress"
          /\ Project("STORY_COMPLETED", st) = "review"
          /\ Project("STORY_REVIEW_PASSED", st) = "qa"
          /\ Project("STORY_REVIEW_FAILED", st) = "draft"
          /\ Project("STORY_QA_PASSED", st) = "pr_submitted"
          /\ Project("STORY_PR_CREATED", st) = "pr_submitted"
          /\ Project("STORY_AWAITING_APPROVAL", st) = "awaiting_approval"
          /\ Project("STORY_MERGED", st) = "merged"
          /\ Project("STORY_APPROVED", st) = IF st = "merged" THEN st ELSE "approved"
          /\ Project("STORY_SPLIT", st) = "split"
          /\ Project("STORY_REJECTED", st) = "draft"
          /\ Project("STORY_RESET", st) = "draft"
          /\ Project("STORY_REWRITTEN", st) = "draft"
          /\ Project("STORY_CREATED", st) = IF st = "none" THEN "draft" ELSE st
BY DEF Project

(* resetStoryToDraft does nothing to the statuses of other stories.        *)
LEMMA ResetEffect ==
  ASSUME TypeOK, NEW s \in Story, NEW own \in {0, 1}, ResetStoryToDraft(s, own)
  PROVE  status' = status \/ status' = [status EXCEPT ![s] = "draft"]
BY ProjectValues DEF ResetStoryToDraft, Emit

(* --- approval ------------------------------------------------------------- *)

(* An action that touches neither stages nor pull requests and makes no    *)
(* story awaiting_approval keeps the approval invariant.                   *)
LEMMA ApprovalQuiet ==
  ASSUME ApprovalInv, TypeOK', UNCHANGED <<pr, stage>>,
         \A s \in Story : status'[s] = "awaiting_approval" => status[s] = "awaiting_approval"
  PROVE  ApprovalInv'
BY DEF ApprovalInv, AwaitingIsMergeable

LEMMA ApprovalResume == ApprovalInv /\ TypeOK' /\ Resume => ApprovalInv'
<1> SUFFICES ASSUME ApprovalInv, TypeOK', Resume PROVE ApprovalInv'
  OBVIOUS
<1>1. CASE ResumeNotComposed
  BY <1>1, ApprovalQuiet DEF ResumeNotComposed, process
<1>2. CASE ResumeGateOnly
  BY <1>2, ApprovalQuiet DEF ResumeGateOnly
<1>3. ASSUME ConsistencyCheck
      PROVE  \A s \in Story : status'[s] = "awaiting_approval" => status[s] = "awaiting_approval"
  BY <1>3, ProjectValues DEF ConsistencyCheck
<1>4. CASE ResumeRecover
  BY <1>3, <1>4, ApprovalQuiet DEF ResumeRecover
<1>5. CASE ResumeDispatch
  BY <1>3, <1>5, ApprovalQuiet DEF ResumeDispatch
<1> QED BY <1>1, <1>2, <1>4, <1>5 DEF Resume

LEMMA ApprovalPipeline ==
  \A s \in Story : ApprovalInv /\ TypeOK' /\ Pipeline(s) => ApprovalInv'
<1> SUFFICES ASSUME NEW s \in Story, ApprovalInv, TypeOK', Pipeline(s)
             PROVE  ApprovalInv'
  OBVIOUS
<1> USE DEF ApprovalInv, AwaitingIsMergeable
<1>0. status \in [Story -> StoryStatus] /\ pr \in [Story -> PRState]
      /\ stage \in [Story -> Stage]
  BY DEF TypeOK
<1>1. ASSUME NEW own \in {0, 1}, ResetStoryToDraft(s, own), EndPipeline(s), UNCHANGED pr
      PROVE  ApprovalInv'
  BY <1>0, <1>1, ResetEffect DEF EndPipeline
<1>2. CASE StageFails(s)
  BY <1>1, <1>2 DEF StageFails
<1>3. CASE WorkRejected(s)
  BY <1>1, <1>3 DEF WorkRejected
<1>4. CASE StagePauses(s)
  BY <1>0, <1>4 DEF StagePauses, EndPipeline
<1>5. CASE ReviewPasses(s)
  BY <1>0, <1>5, ProjectValues DEF ReviewPasses, Emit
<1>6. CASE QAPasses(s)
  BY <1>0, <1>6, ProjectValues DEF QAPasses, Emit
<1>7. CASE SecurityPasses(s)
  BY <1>0, <1>7 DEF SecurityPasses, store
<1>8. CASE LockMerge(s)
  BY <1>0, <1>8 DEF LockMerge, store
<1>9. CASE CreatePR(s)
  BY <1>0, <1>9, ProjectValues DEF CreatePR, Emit
<1>10. CASE AwaitApproval(s)
  BY <1>0, <1>10, ProjectValues DEF AwaitApproval, EndPipeline, Emit
<1>11. CASE MergePR(s)
  BY <1>0, <1>11 DEF MergePR, store
<1>12. CASE RecordMerge(s)
  BY <1>0, <1>12, ProjectValues DEF RecordMerge, Emit
<1>13. CASE FinishPipeline(s)
  BY <1>0, <1>13 DEF FinishPipeline, EndPipeline
<1> QED BY <1>2, <1>3, <1>4, <1>5, <1>6, <1>7, <1>8, <1>9, <1>10, <1>11, <1>12,
           <1>13 DEF Pipeline

LEMMA ApprovalIntercept ==
  \A s \in Story : ApprovalInv /\ TypeOK' /\ Intercept(s) => ApprovalInv'
<1> SUFFICES ASSUME NEW s \in Story, ApprovalInv, TypeOK', Intercept(s)
             PROVE  ApprovalInv'
  OBVIOUS
<1>0. TypeOK /\ status \in [Story -> StoryStatus]
  BY DEF ApprovalInv, TypeOK
<1>1. UNCHANGED <<pr, stage>>
  BY DEF Intercept, PassOver, ManagerResets, InterceptionPauses, ManagerRetries,
         ManagerRewrites, ManagerEscalates, StorySplit, Handled
<1>2. CASE UNCHANGED status
  BY <1>1, <1>2, ApprovalQuiet
<1>3. CASE ManagerResets(s)
  BY <1>0, <1>1, <1>3, ResetEffect, ApprovalQuiet DEF ManagerResets
<1>4. ASSUME NEW r \in 0..3, ManagerRetries(s, r) PROVE ApprovalInv'
  BY <1>0, <1>1, <1>4, ProjectValues, ApprovalQuiet DEF ManagerRetries, Emit
<1>5. CASE ManagerRewrites(s)
  BY <1>0, <1>1, <1>5, ProjectValues, ApprovalQuiet DEF ManagerRewrites, Emit
<1>6. CASE StorySplit(s)
  BY <1>0, <1>1, <1>6, ProjectValues, ApprovalQuiet DEF StorySplit
<1>7. PassOver(s) \/ InterceptionPauses(s) \/ ManagerEscalates(s) => UNCHANGED status
  BY DEF PassOver, InterceptionPauses, ManagerEscalates, store
<1> QED BY <1>2, <1>3, <1>4, <1>5, <1>6, <1>7 DEF Intercept

LEMMA ApprovalDispatch == ApprovalInv /\ TypeOK' /\ Dispatch => ApprovalInv'
<1> SUFFICES ASSUME ApprovalInv, TypeOK', Dispatch PROVE ApprovalInv'
  OBVIOUS
<1>0. status \in [Story -> StoryStatus]
  BY DEF ApprovalInv, TypeOK
<1>1. ASSUME NEW wave \in SUBSET Story, NEW slotFor \in [wave -> Slot],
             DispatchWave(wave, slotFor)
      PROVE  ApprovalInv'
  BY <1>0, <1>1, ProjectValues, ApprovalQuiet DEF DispatchWave
<1>2. CASE NothingToDispatch
  BY <1>2, ApprovalQuiet DEF NothingToDispatch, store
<1>3. ASSUME NEW s \in Story, Spawn(s) PROVE ApprovalInv'
  BY <1>0, <1>3, ProjectValues, ApprovalQuiet DEF Spawn, Emit
<1>4. ASSUME NEW s \in Story, SpawnFails(s) PROVE ApprovalInv'
  BY <1>4, ApprovalQuiet DEF SpawnFails, store
<1>5. CASE SpawnDone
  BY <1>5, ApprovalQuiet DEF SpawnDone, store
<1> QED BY <1>1, <1>2, <1>3, <1>4, <1>5 DEF Dispatch

LEMMA ApprovalOperator == ApprovalInv /\ TypeOK' /\ Operator => ApprovalInv'
<1> SUFFICES ASSUME ApprovalInv, TypeOK', Operator PROVE ApprovalInv'
  OBVIOUS
<1>0. status \in [Story -> StoryStatus] /\ pr \in [Story -> PRState]
  BY DEF ApprovalInv, TypeOK
<1>1. CASE PauseCommand
  BY <1>1, ApprovalQuiet DEF PauseCommand, process
<1>2. ASSUME NEW s \in Story, ApproveCommand(s) PROVE ApprovalInv'
  <2>1. \A t \in Story : status'[t] = "awaiting_approval" => status[t] = "awaiting_approval"
    BY <1>0, <1>2, ProjectValues
    DEF ApproveCommand, ApproveChecks, ApproveMerges, ApproveRecords, ApproveEnds, Emit, store
  <2>2. UNCHANGED stage /\ \A t \in Story : pr'[t] \in {pr[t], "merged"}
    BY <1>0, <1>2
    DEF ApproveCommand, ApproveChecks, ApproveMerges, ApproveRecords, ApproveEnds, process
  <2> QED BY <2>1, <2>2 DEF ApprovalInv, AwaitingIsMergeable
<1>3. ASSUME NEW s \in Story, RejectCommand(s) PROVE ApprovalInv'
  BY <1>0, <1>3, ProjectValues, ApprovalQuiet DEF RejectCommand, Emit, process
<1>4. ASSUME NEW s \in Story, RetryCommand(s) PROVE ApprovalInv'
  BY <1>0, <1>4, ProjectValues, ApprovalQuiet DEF RetryCommand, Emit, process
<1> QED BY <1>1, <1>2, <1>3, <1>4 DEF Operator

LEMMA ApprovalStep ==
  ~DeleteDanglingBranches /\ ApprovalInv /\ [Next]_vars => ApprovalInv'
<1> SUFFICES ASSUME ~DeleteDanglingBranches, ApprovalInv, [Next]_vars
             PROVE  ApprovalInv'
  OBVIOUS
<1>0. TypeOK /\ TypeOK'
  BY TypeStep DEF ApprovalInv
<1>1. CASE Monitor
  <2>1. ASSUME NEW sl \in Slot, PollFinished(sl) PROVE ApprovalInv'
    BY <1>0, <2>1, ProjectValues
    DEF PollFinished, Emit, ApprovalInv, AwaitingIsMergeable, TypeOK, StoryOrNone
  <2>2. ASSUME NEW sl \in Slot, SLABreach(sl) PROVE ApprovalInv'
    BY <1>0, <2>2, ProjectValues, ApprovalQuiet
    DEF SLABreach, Emit, TypeOK, StoryOrNone, process
  <2>3. CASE NextWave
    <3>1. pr' = pr
      BY <1>0, <2>3 DEF NextWave, NextWavePaused, NextWaveAllDone, NextWaveReady, TypeOK
    <3> QED BY <1>0, <2>3, <3>1, ApprovalQuiet
            DEF NextWave, NextWavePaused, NextWaveAllDone, NextWaveReady, store
  <2>4. CASE GateVerdict
    BY <1>0, <2>4, ApprovalQuiet DEF GateVerdict
  <2> QED BY <1>0, <1>1, <2>1, <2>2, <2>3, <2>4, ApprovalPipeline, ApprovalIntercept,
             ApprovalDispatch DEF Monitor
<1>2. CASE Agents
  BY <1>0, <1>2, ApprovalQuiet DEF Agents, AgentIdle, AgentExit, store, process
<1>3. CASE Crash
  BY <1>0, <1>3 DEF Crash, ApprovalInv, AwaitingIsMergeable, store
<1>4. CASE UNCHANGED vars
  BY <1>0, <1>4, ApprovalQuiet DEF vars, store, process
<1> QED BY <1>0, <1>1, <1>2, <1>3, <1>4, ApprovalResume, ApprovalOperator DEF Next

(* Where dangling branches are left alone, a story that waits for approval *)
(* has an open pull request, or one that an approval has merged and not    *)
(* recorded yet, through every approval, rejection, retry, crash and race  *)
(* of the operator with the monitor.                                       *)
THEOREM Approvable ==
  ASSUME ~DeleteDanglingBranches
  PROVE  Spec => []AwaitingIsMergeable
<1>1. Init => ApprovalInv
  BY TypeInit DEF Init, ApprovalInv, AwaitingIsMergeable
<1>2. ApprovalInv /\ [Next]_vars => ApprovalInv'
  BY ApprovalStep
<1>3. ApprovalInv => AwaitingIsMergeable
  BY DEF ApprovalInv
<1> QED BY <1>1, <1>2, <1>3, PTL DEF Spec

(* --- what is merged -------------------------------------------------------- *)

LEMMA MergedQuiet ==
  ASSUME MergedInv, TrackingInv',
         UNCHANGED <<status, pr, stage, active, toSpawn, queue, run>>
  PROVE  MergedInv'
BY DEF MergedInv, StageFits, MergedIsBehind, HandedOutIsUnfinished

LEMMA MergedResume == MergedInv /\ TrackingInv' /\ Resume => MergedInv'
<1> SUFFICES ASSUME MergedInv, TrackingInv', Resume PROVE MergedInv'
  OBVIOUS
<1> USE DEF MergedInv
<1>0. /\ status \in [Story -> StoryStatus] /\ worktree \subseteq Story
      /\ active' \in [Slot -> StoryOrNone]
  BY DEF TrackingInv, TypeOK
<1>1. CASE ResumeNotComposed
  BY <1>1, MergedQuiet DEF ResumeNotComposed, process
<1>2. CASE ResumeGateOnly
  BY <1>2 DEF ResumeGateOnly, StageFits, MergedIsBehind, HandedOutIsUnfinished
<1>3. ASSUME ConsistencyCheck, UNCHANGED <<pr, stage, queue, toSpawn>>, run = "down",
             run' \in RunPhase
      PROVE  /\ \A s \in Story : (StageFits(s) /\ MergedIsBehind(s))'
             /\ queue' = {} /\ toSpawn' = {}
  <2>1. \A s \in Story : \/ status'[s] = status[s]
                         \/ (status[s] = "in_progress" /\ status'[s] = "draft")
    BY <1>0, <1>3, ProjectValues DEF ConsistencyCheck, WorkLost
  <2>2. \A s \in Story : stage[s] = "idle"
    BY <1>3 DEF TrackingInv, PipelinesOnlyInTrack
  <2>3. queue = {} /\ toSpawn = {}
    BY <1>3 DEF HandedOutIsUnfinished, TrackingInv, SpawnPending
  <2> QED BY <1>3, <2>1, <2>2, <2>3 DEF StageFits, MergedIsBehind
<1>4. CASE ResumeRecover
  <2>1. PICK tracked \in SUBSET Orphans :
          active' = [sl \in Slot |-> IF \E s \in tracked : slotOf[s] = sl
                                     THEN CHOOSE s \in tracked : slotOf[s] = sl
                                     ELSE NoStory]
    BY <1>4 DEF ResumeRecover
  <2>2. \A sl \in Slot : active'[sl] # NoStory => active'[sl] \in tracked
    BY <2>1
  <2>3. \A s \in Orphans : s \in Story /\ status'[s] = status[s]
                           /\ status[s] \in {"in_progress", "review", "qa"}
    BY <1>0, <1>4 DEF ResumeRecover, ConsistencyCheck, WorkLost, Orphans,
                      IsRecoverableStalledStatus
  <2> QED BY <1>3, <1>4, <2>2, <2>3 DEF ResumeRecover, RunPhase, HandedOutIsUnfinished
<1>5. CASE ResumeDispatch
  <2>1. \A sl \in Slot : active[sl] = NoStory
    BY <1>5 DEF ResumeDispatch, TrackingInv, TrackedOnce
  <2> QED BY <1>3, <1>5, <2>1 DEF ResumeDispatch, RunPhase, HandedOutIsUnfinished
<1> QED BY <1>1, <1>2, <1>4, <1>5 DEF Resume

(* A step of a pipeline of story s moves s alone.                          *)
LEMMA MergedStory ==
  ASSUME MergedInv, TrackingInv', NEW s \in Story, stage[s] # "idle",
         UNCHANGED <<active, toSpawn, queue, run>>,
         \A t \in Story : t # s => /\ status'[t] = status[t]
                                   /\ pr'[t] = pr[t]
                                   /\ stage'[t] = stage[t],
         StageFits(s)', MergedIsBehind(s)'
  PROVE  MergedInv'
<1>1. run = "track" /\ toSpawn = {} /\ queue = {}
  BY DEF MergedInv, TrackingInv, PipelinesOnlyInTrack, SpawnPending, HandedOutIsUnfinished
<1>2. \A sl \in Slot : active[sl] # NoStory => active[sl] \in Story \ {s}
  BY DEF MergedInv, TrackingInv, TypeOK, TrackedOnce, StoryOrNone
<1>3. HandedOutIsUnfinished'
  BY <1>1, <1>2 DEF MergedInv, HandedOutIsUnfinished
<1>4. \A t \in Story : (StageFits(t) /\ MergedIsBehind(t))'
  BY DEF MergedInv, StageFits, MergedIsBehind
<1> QED BY <1>3, <1>4 DEF MergedInv

LEMMA MergedPipeline ==
  \A s \in Story : MergedInv /\ TrackingInv' /\ Pipeline(s) => MergedInv'
<1> SUFFICES ASSUME NEW s \in Story, MergedInv, TrackingInv', Pipeline(s)
             PROVE  MergedInv'
  OBVIOUS
<1>0. /\ TypeOK /\ StageFits(s) /\ MergedIsBehind(s)
      /\ status \in [Story -> StoryStatus] /\ pr \in [Story -> PRState]
      /\ stage \in [Story -> Stage]
  BY DEF MergedInv, TrackingInv, TypeOK
<1> USE DEF StageFits, MergedIsBehind
<1>1. ASSUME NEW own \in {0, 1}, ResetStoryToDraft(s, own), EndPipeline(s),
             stage[s] \in {"review", "qa", "rebase", "merge"},
             UNCHANGED <<pr, run, queue, toSpawn, active>>
      PROVE  MergedInv'
  <2>1. \A t \in Story : t # s => status'[t] = status[t] /\ stage'[t] = stage[t]
    BY <1>0, <1>1, ResetEffect DEF EndPipeline
  <2>2. stage'[s] = "idle" /\ pr'[s] # "merged"
    BY <1>0, <1>1 DEF EndPipeline
  <2> QED BY <1>1, <2>1, <2>2, MergedStory
<1>2. CASE StageFails(s)
  BY <1>1, <1>2 DEF StageFails, CanFail
<1>3. CASE WorkRejected(s)
  BY <1>1, <1>3 DEF WorkRejected
<1>4. CASE StagePauses(s)
  BY <1>0, <1>4, MergedStory DEF StagePauses, CanFail, EndPipeline
<1>5. CASE ReviewPasses(s)
  BY <1>0, <1>5, ProjectValues, MergedStory DEF ReviewPasses, Emit
<1>6. CASE QAPasses(s)
  BY <1>0, <1>6, ProjectValues, MergedStory DEF QAPasses, Emit
<1>7. CASE SecurityPasses(s)
  BY <1>0, <1>7, MergedStory DEF SecurityPasses, store
<1>8. CASE LockMerge(s)
  BY <1>0, <1>8, MergedStory DEF LockMerge, store
<1>9. CASE CreatePR(s)
  BY <1>0, <1>9, ProjectValues, MergedStory DEF CreatePR, Emit
<1>10. CASE AwaitApproval(s)
  BY <1>0, <1>10, ProjectValues, MergedStory DEF AwaitApproval, EndPipeline, Emit
<1>11. CASE MergePR(s)
  BY <1>0, <1>11, MergedStory DEF MergePR, store
<1>12. CASE RecordMerge(s)
  BY <1>0, <1>12, ProjectValues, MergedStory DEF RecordMerge, Emit
<1>13. CASE FinishPipeline(s)
  BY <1>0, <1>13, MergedStory DEF FinishPipeline, EndPipeline
<1> QED BY <1>2, <1>3, <1>4, <1>5, <1>6, <1>7, <1>8, <1>9, <1>10, <1>11, <1>12,
           <1>13 DEF Pipeline

LEMMA MergedIntercept ==
  \A s \in Story : MergedInv /\ TrackingInv' /\ Intercept(s) => MergedInv'
<1> SUFFICES ASSUME NEW s \in Story, MergedInv, TrackingInv', Intercept(s)
             PROVE  MergedInv'
  OBVIOUS
<1>0. /\ TypeOK /\ status \in [Story -> StoryStatus]
      /\ run = "dispatch" /\ toSpawn = {} /\ s \in queue /\ ~IsStoryComplete(status[s])
      /\ \A t \in Story : stage[t] = "idle" /\ StageFits(t) /\ MergedIsBehind(t)
      /\ \A sl \in Slot : active[sl] = NoStory
      /\ queue \subseteq Story
  BY DEF Intercept, PassOver, ManagerResets, InterceptionPauses, ManagerRetries,
         ManagerRewrites, ManagerEscalates, StorySplit, Handled, MergedInv,
         TrackingInv, TypeOK, TrackedOnce, PipelinesOnlyInTrack, SpawnPending,
         HandedOutIsUnfinished
<1>1. queue' = queue \ {s} /\ UNCHANGED <<pr, stage, active, toSpawn, run>>
  BY DEF Intercept, PassOver, ManagerResets, InterceptionPauses, ManagerRetries,
         ManagerRewrites, ManagerEscalates, StorySplit, Handled
<1>2. \A t \in Story : \/ t = s
                       \/ status'[t] = status[t]
                       \/ (status[t] = "none" /\ status'[t] = "draft")
  <2>1. CASE ManagerResets(s)
    BY <1>0, <2>1, ResetEffect DEF ManagerResets
  <2>2. ASSUME NEW r \in 0..3, ManagerRetries(s, r)
        PROVE  \A t \in Story : status'[t] = status[t] \/ t = s
    BY <1>0, <2>2 DEF ManagerRetries, Emit
  <2>3. CASE ManagerRewrites(s)
    BY <1>0, <2>3 DEF ManagerRewrites, Emit
  <2>4. CASE StorySplit(s)
    BY <1>0, <2>4, ProjectValues DEF StorySplit
  <2>5. CASE PassOver(s) \/ InterceptionPauses(s) \/ ManagerEscalates(s)
    BY <2>5 DEF PassOver, InterceptionPauses, ManagerEscalates, store
  <2> QED BY <2>1, <2>2, <2>3, <2>4, <2>5 DEF Intercept
<1>3. \A t \in Story : (StageFits(t) /\ MergedIsBehind(t))'
  BY <1>0, <1>1, <1>2 DEF StageFits, MergedIsBehind, IsStoryComplete
<1>4. \A t \in queue' : t \in queue /\ t # s /\ ~IsStoryComplete(status[t])
  BY <1>1 DEF MergedInv, HandedOutIsUnfinished
<1>5. HandedOutIsUnfinished'
  BY <1>0, <1>1, <1>2, <1>4 DEF HandedOutIsUnfinished, IsStoryComplete
<1> QED BY <1>3, <1>5 DEF MergedInv

LEMMA MergedDispatch == MergedInv /\ TrackingInv' /\ Dispatch => MergedInv'
<1> SUFFICES ASSUME MergedInv, TrackingInv', Dispatch PROVE MergedInv'
  OBVIOUS
<1>0. /\ status \in [Story -> StoryStatus] /\ slotOf \in [Story -> 0..MaxConcurrentAgents]
      /\ active \in [Slot -> StoryOrNone] /\ toSpawn \subseteq Story
      /\ \A t \in Story : stage[t] = "idle" /\ StageFits(t) /\ MergedIsBehind(t)
      /\ HandedOutIsUnfinished
  BY DEF Dispatch, DispatchWave, NothingToDispatch, Spawn, SpawnFails, SpawnDone,
         MergedInv, TrackingInv, TypeOK, PipelinesOnlyInTrack
<1>1. ASSUME NEW wave \in SUBSET Story, NEW slotFor \in [wave -> Slot],
             DispatchWave(wave, slotFor)
      PROVE  MergedInv'
  <2>1. /\ \A s \in wave : status[s] = "draft" /\ status'[s] = "assigned"
        /\ \A s \in Story \ wave : status'[s] = status[s]
    BY <1>0, <1>1, ProjectValues DEF DispatchWave, StoryDispatchable
  <2>2. \A sl \in Slot : active'[sl] = NoStory
    BY <1>1 DEF DispatchWave, MergedInv, TrackingInv, TrackedOnce
  <2>3. HandedOutIsUnfinished'
    BY <1>1, <2>1, <2>2 DEF DispatchWave, HandedOutIsUnfinished
  <2>4. \A t \in Story : (StageFits(t) /\ MergedIsBehind(t))'
    BY <1>0, <1>1, <2>1 DEF DispatchWave, StageFits, MergedIsBehind
  <2> QED BY <2>3, <2>4 DEF MergedInv
<1>2. CASE NothingToDispatch
  BY <1>0, <1>2 DEF NothingToDispatch, store, MergedInv, StageFits, MergedIsBehind,
                    HandedOutIsUnfinished
<1>3. ASSUME NEW s \in Story, Spawn(s) PROVE MergedInv'
  <2>1. /\ status[s] = "assigned" /\ status'[s] = "in_progress"
        /\ \A t \in Story : t # s => status'[t] = status[t]
    BY <1>0, <1>3, ProjectValues DEF Spawn, Emit, HandedOutIsUnfinished, IsStoryComplete
  <2>2. \A sl \in Slot : active'[sl] = s \/ active'[sl] = active[sl]
    BY <1>0, <1>3 DEF Spawn
  <2>3. \A sl \in Slot : active[sl] # NoStory => active[sl] \in Story
    BY <1>0 DEF StoryOrNone
  <2>4. queue = {}
    BY <1>0, <1>3 DEF Spawn, HandedOutIsUnfinished
  <2>5. HandedOutIsUnfinished'
    BY <1>0, <1>3, <2>1, <2>2, <2>3, <2>4 DEF Spawn, HandedOutIsUnfinished
  <2>6. \A t \in Story : (StageFits(t) /\ MergedIsBehind(t))'
    BY <1>0, <1>3, <2>1 DEF Spawn, StageFits, MergedIsBehind
  <2> QED BY <2>5, <2>6 DEF MergedInv
<1>4. ASSUME NEW s \in Story, SpawnFails(s) PROVE MergedInv'
  BY <1>0, <1>4 DEF SpawnFails, store, MergedInv, StageFits, MergedIsBehind,
                    HandedOutIsUnfinished
<1>5. CASE SpawnDone
  BY <1>0, <1>5 DEF SpawnDone, store, MergedInv, StageFits, MergedIsBehind,
                    HandedOutIsUnfinished
<1> QED BY <1>1, <1>2, <1>3, <1>4, <1>5 DEF Dispatch

LEMMA MergedNextWave == MergedInv /\ TrackingInv' /\ NextWave => MergedInv'
<1> SUFFICES ASSUME MergedInv, TrackingInv', NextWave PROVE MergedInv'
  OBVIOUS
<1>0. /\ pr \in [Story -> PRState]
      /\ \A t \in Story : stage[t] = "idle" /\ StageFits(t) /\ MergedIsBehind(t)
      /\ \A sl \in Slot : active[sl] = NoStory
      /\ toSpawn = {} /\ queue = {}
      /\ UNCHANGED <<status, stage, active, toSpawn>>
  BY DEF NextWave, NextWavePaused, NextWaveAllDone, NextWaveReady, WaveOver, store,
         MergedInv, TrackingInv, TypeOK, SpawnPending, HandedOutIsUnfinished
<1>1. \A s \in Story : pr'[s] = "merged" => pr[s] = "merged"
  BY <1>0 DEF NextWave, NextWavePaused, NextWaveAllDone, NextWaveReady
<1>2. \A s \in queue' : run' = "dispatch" /\ ~IsStoryComplete(status'[s])
  BY <1>0 DEF NextWave, NextWavePaused, NextWaveAllDone, NextWaveReady, ReadyNodes,
              CompleteStories, Created
<1> QED BY <1>0, <1>1, <1>2
        DEF MergedInv, StageFits, MergedIsBehind, HandedOutIsUnfinished

(* A story that awaits approval, or is merged beyond its pipeline's reach, *)
(* is in nobody's hands: the answer of the operator disturbs nothing.      *)
LEMMA MergedAnswer ==
  ASSUME MergedInv, TrackingInv', NEW s \in Story,
         status[s] \in {"awaiting_approval", "merged"},
         status'[s] = status[s] \/ status'[s] = "merged"
           \/ (status[s] = "awaiting_approval" /\ status'[s] = "draft"),
         status[s] = "awaiting_approval" \/ pr' = pr,
         pr'[s] = "merged" => \/ status'[s] = "merged"
                              \/ status'[s] = "awaiting_approval" /\ "approve" \in Commands,
         \A t \in Story : t # s => status'[t] = status[t] /\ pr'[t] = pr[t],
         UNCHANGED process
  PROVE  MergedInv'
<1>0. /\ status \in [Story -> StoryStatus] /\ pr \in [Story -> PRState]
      /\ \A t \in Story : StageFits(t) /\ MergedIsBehind(t) /\ stage[t] \in Stage
  BY DEF MergedInv, TrackingInv, TypeOK
<1>1. status[s] = "awaiting_approval" => stage[s] = "idle"
  BY <1>0 DEF StageFits, Stage, MergeStage
<1>2. /\ \A sl \in Slot : active[sl] # NoStory => active[sl] # s
      /\ s \notin toSpawn /\ s \notin queue
  BY DEF MergedInv, HandedOutIsUnfinished, IsStoryComplete
<1>3. \A sl \in Slot : active[sl] # NoStory => active[sl] \in Story
  BY DEF MergedInv, TrackingInv, TypeOK, StoryOrNone
<1>4. toSpawn \subseteq Story /\ queue \subseteq Story
  BY DEF MergedInv, TrackingInv, TypeOK
<1>5. HandedOutIsUnfinished'
  BY <1>2, <1>3, <1>4 DEF MergedInv, HandedOutIsUnfinished, process
<1>6. \A t \in Story : (StageFits(t) /\ MergedIsBehind(t))'
  BY <1>0, <1>1 DEF StageFits, MergedIsBehind, process
<1> QED BY <1>5, <1>6 DEF MergedInv

(* What each step of `vxd approve' finds and leaves.                       *)
LEMMA ApproveEffect ==
  ASSUME ApprovingInv, NEW s \in Story, ApproveCommand(s)
  PROVE  /\ "approve" \in Commands
         /\ status[s] \in {"awaiting_approval", "merged"}
         /\ status'[s] \in {status[s], "merged"}
         /\ status[s] = "awaiting_approval" \/ pr' = pr
         /\ \A t \in Story : t # s => status'[t] = status[t] /\ pr'[t] = pr[t]
         /\ UNCHANGED <<reqStatus, worktree, tmux, slotOf, process>>
<1>0. /\ status \in [Story -> StoryStatus] /\ pr \in [Story -> PRState]
      /\ approving \in [Story -> {"no", "checked", "merged", "recorded"}]
      /\ ApprovalFits(s)
  BY DEF ApprovingInv, MergedInv, TrackingInv, TypeOK
<1>1. CASE ApproveChecks(s)
  BY <1>1 DEF ApproveChecks, store
<1>2. CASE ApproveMerges(s)
  BY <1>0, <1>2 DEF ApproveMerges, ApprovalFits, store
<1>3. CASE ApproveRecords(s)
  BY <1>0, <1>3, ProjectValues DEF ApproveRecords, ApprovalFits, Emit
<1>4. CASE ApproveEnds(s)
  BY <1>0, <1>4, ProjectValues DEF ApproveEnds, ApprovalFits, Emit
<1> QED BY <1>1, <1>2, <1>3, <1>4 DEF ApproveCommand

(* The operator takes nothing back: no retry, no reject beside an approve. *)
AnswersStand == "retry" \notin Commands /\ ~({"approve", "reject"} \subseteq Commands)

LEMMA MergedOperator ==
  AnswersStand /\ ApprovingInv /\ TrackingInv' /\ Operator => MergedInv'
<1> SUFFICES ASSUME AnswersStand, ApprovingInv, TrackingInv', Operator
             PROVE  MergedInv'
  OBVIOUS
<1>0. /\ MergedInv /\ status \in [Story -> StoryStatus] /\ pr \in [Story -> PRState]
      /\ \A t \in Story : MergedIsBehind(t)
  BY DEF ApprovingInv, MergedInv, TrackingInv, TypeOK
<1>1. CASE PauseCommand
  BY <1>0, <1>1, MergedQuiet DEF PauseCommand, process
<1>2. ASSUME NEW s \in Story, ApproveCommand(s) PROVE MergedInv'
  <2>1. pr'[s] = "merged" => status'[s] \in {"awaiting_approval", "merged"}
    BY <1>2, ApproveEffect
  <2> QED BY <1>0, <1>2, <2>1, ApproveEffect, MergedAnswer
<1>3. ASSUME NEW s \in Story, RejectCommand(s) PROVE MergedInv'
  <2>1. /\ status[s] = "awaiting_approval" /\ status'[s] = "draft"
        /\ \A t \in Story : t # s => status'[t] = status[t]
        /\ UNCHANGED <<pr, process>> /\ "approve" \notin Commands
    BY <1>0, <1>3, ProjectValues DEF RejectCommand, Emit, AnswersStand
  <2>2. pr'[s] # "merged"
    BY <1>0, <2>1 DEF MergedIsBehind
  <2> QED BY <1>0, <2>1, <2>2, MergedAnswer
<1> QED BY <1>1, <1>2, <1>3 DEF Operator, RetryCommand, AnswersStand

(* A step of a pipeline moves its story alone, which neither was nor is    *)
(* in_progress, and takes the worktree of no other.                        *)
LEMMA PipelineLocal ==
  ASSUME MergedInv, NEW s \in Story, Pipeline(s)
  PROVE  /\ stage[s] # "idle" /\ run = "track"
         /\ UNCHANGED <<run, done, queue, toSpawn, active>>
         /\ \A t \in Story : t # s => status'[t] = status[t] /\ stage'[t] = stage[t]
         /\ status[s] \notin {"none", "draft"}
         /\ status'[s] \notin {"none", "approved", "in_progress"}
         /\ worktree \ {s} \subseteq worktree'
<1>1. stage[s] # "idle"
  BY DEF Pipeline, StageFails, CanFail, WorkRejected, StagePauses, ReviewPasses, QAPasses,
         SecurityPasses, LockMerge, CreatePR, AwaitApproval, MergePR, RecordMerge,
         FinishPipeline
<1>2. /\ run = "track"
      /\ UNCHANGED <<run, done, queue, toSpawn, active>>
      /\ worktree \ {s} \subseteq worktree'
  BY <1>1 DEF Pipeline, StageFails, WorkRejected, StagePauses, ReviewPasses, QAPasses,
         SecurityPasses, LockMerge, CreatePR, AwaitApproval, MergePR, RecordMerge,
         FinishPipeline, MergedInv, TrackingInv, PipelinesOnlyInTrack
<1>3. /\ TypeOK /\ StageFits(s)
      /\ status \in [Story -> StoryStatus] /\ stage \in [Story -> Stage]
  BY DEF MergedInv, TrackingInv, TypeOK
<1>4. status[s] \notin {"none", "draft", "approved", "in_progress"}
  BY <1>1, <1>3 DEF StageFits, Stage, MergeStage
<1>5. ASSUME NEW own \in {0, 1}, ResetStoryToDraft(s, own)
      PROVE  /\ \A t \in Story : t # s => status'[t] = status[t]
             /\ status'[s] \notin {"none", "approved", "in_progress"}
  BY <1>3, <1>4, <1>5, ResetEffect
<1>6. \A t \in Story : t # s => stage'[t] = stage[t]
  BY <1>3 DEF Pipeline, StageFails, WorkRejected, StagePauses, ReviewPasses, QAPasses,
         SecurityPasses, LockMerge, CreatePR, AwaitApproval, MergePR, RecordMerge,
         FinishPipeline, EndPipeline
<1>7. CASE StageFails(s) \/ WorkRejected(s)
  BY <1>1, <1>2, <1>4, <1>5, <1>6, <1>7 DEF StageFails, WorkRejected
<1>8. CASE \/ StagePauses(s) \/ SecurityPasses(s) \/ LockMerge(s) \/ MergePR(s)
           \/ FinishPipeline(s)
  BY <1>1, <1>2, <1>4, <1>6, <1>8
  DEF StagePauses, SecurityPasses, LockMerge, MergePR, FinishPipeline, store
<1>9. CASE \/ ReviewPasses(s) \/ QAPasses(s) \/ CreatePR(s) \/ AwaitApproval(s)
           \/ RecordMerge(s)
  BY <1>1, <1>2, <1>3, <1>4, <1>6, <1>9, ProjectValues
  DEF ReviewPasses, QAPasses, CreatePR, AwaitApproval, RecordMerge, Emit
<1> QED BY <1>7, <1>8, <1>9 DEF Pipeline

(* What awaits approval or is recorded as merged is the operator's alone.  *)
LEMMA SettledStays ==
  ASSUME MergedInv, Resume \/ Monitor \/ Agents \/ Crash \/ UNCHANGED vars,
         NEW s \in Story, status[s] \in {"awaiting_approval", "merged"}
  PROVE  status'[s] = status[s] /\ approving' = approving
<1>0. /\ status \in [Story -> StoryStatus] /\ IsStoryComplete(status[s])
      /\ StageFits(s) /\ stage[s] \in Stage
  BY DEF MergedInv, TrackingInv, TypeOK, IsStoryComplete
<1>1. CASE Resume
  BY <1>0, <1>1
  DEF Resume, ResumeNotComposed, ResumeGateOnly, ResumeRecover, ResumeDispatch,
      ConsistencyCheck, WorkLost, human
<1>2. ASSUME NEW sl \in Slot, PollFinished(sl) \/ SLABreach(sl)
      PROVE  status'[s] = status[s] /\ approving' = approving
  <2>1. active[sl] # s
    BY <1>2 DEF PollFinished, SLABreach, MergedInv, HandedOutIsUnfinished
  <2> QED BY <1>0, <1>2, <2>1 DEF PollFinished, SLABreach, Emit, human
<1>3. ASSUME NEW t \in Story, Pipeline(t)
      PROVE  status'[s] = status[s] /\ approving' = approving
  <2>1. approving' = approving
    BY <1>3 DEF Pipeline, StageFails, WorkRejected, StagePauses, ReviewPasses, QAPasses,
         SecurityPasses, LockMerge, CreatePR, AwaitApproval, MergePR, RecordMerge,
         FinishPipeline, human
  <2>2. CASE t # s
    BY <1>3, <2>1, <2>2, PipelineLocal
  <2>3. CASE t = s
    <3>1. stage[s] \in {"idle", "cleanup"}
      BY <1>0 DEF StageFits, Stage, MergeStage
    <3> QED BY <1>0, <1>3, <2>1, <2>3, <3>1
            DEF Pipeline, StageFails, CanFail, WorkRejected, StagePauses, ReviewPasses,
                QAPasses, SecurityPasses, LockMerge, CreatePR, AwaitApproval, MergePR,
                RecordMerge, FinishPipeline
  <2> QED BY <2>2, <2>3
<1>4. ASSUME NEW t \in Story, Intercept(t)
      PROVE  status'[s] = status[s] /\ approving' = approving
  <2>1. t \in queue /\ t # s /\ approving' = approving
    BY <1>0, <1>4
    DEF Intercept, PassOver, ManagerResets, InterceptionPauses, ManagerRetries,
        ManagerRewrites, ManagerEscalates, StorySplit, Handled, MergedInv,
        HandedOutIsUnfinished, human
  <2>2. CASE ManagerResets(t)
    BY <1>0, <2>1, <2>2, ResetEffect DEF ManagerResets, MergedInv, TrackingInv
  <2>3. CASE StorySplit(t)
    BY <1>0, <2>1, <2>3 DEF StorySplit
  <2>4. ASSUME NEW r \in 0..3, ManagerRetries(t, r) PROVE status'[s] = status[s]
    BY <1>0, <2>1, <2>4 DEF ManagerRetries, Emit
  <2>5. CASE PassOver(t) \/ InterceptionPauses(t) \/ ManagerRewrites(t) \/ ManagerEscalates(t)
    BY <1>0, <2>1, <2>5
    DEF PassOver, InterceptionPauses, ManagerRewrites, ManagerEscalates, Emit, store
  <2> QED BY <1>4, <2>1, <2>2, <2>3, <2>4, <2>5 DEF Intercept
<1>5. CASE NextWave \/ GateVerdict
  BY <1>5 DEF NextWave, NextWavePaused, NextWaveAllDone, NextWaveReady, GateVerdict, store, human
<1>6. CASE Dispatch
  <2>1. \A t \in Story : status[t] \in {"draft", "assigned"} => t # s
    OBVIOUS
  <2>2. \A t \in toSpawn : status[t] = "assigned"
    BY DEF MergedInv, HandedOutIsUnfinished
  <2> QED BY <1>0, <1>6, <2>1, <2>2
          DEF Dispatch, DispatchWave, NothingToDispatch, Spawn, SpawnFails, SpawnDone,
              StoryDispatchable, Emit, store, human
<1>7. CASE Agents \/ Crash \/ UNCHANGED vars
  BY <1>7 DEF Agents, AgentIdle, AgentExit, Crash, vars, store, human
<1> QED BY <1>1, <1>2, <1>3, <1>4, <1>5, <1>6, <1>7 DEF Monitor

LEMMA MergedStep ==
  AnswersStand /\ ApprovingInv /\ [Next]_vars => MergedInv'
<1> SUFFICES ASSUME AnswersStand, ApprovingInv, [Next]_vars PROVE MergedInv'
  OBVIOUS
<1>0. MergedInv /\ TrackingInv /\ TrackingInv'
  BY TrackingStep DEF ApprovingInv, MergedInv
<1>1. CASE Monitor
  <2>1. ASSUME NEW sl \in Slot, active[sl] # NoStory
        PROVE  /\ active[sl] \in Story /\ stage[active[sl]] = "idle"
               /\ pr[active[sl]] # "merged"
               /\ active[sl] \notin toSpawn
               /\ queue = {} \/ run = "dispatch"
    BY <1>0, <2>1 DEF TrackingInv, TypeOK, TrackedOnce, StoryOrNone, SpawnPending,
                      MergedInv, MergedIsBehind, HandedOutIsUnfinished
  <2>2. \A sl \in Slot : active[sl] # NoStory => active[sl] \in Story
    BY <2>1
  <2>3. ASSUME NEW sl \in Slot, PollFinished(sl) PROVE MergedInv'
    <3> DEFINE s == active[sl]
    <3>1. active[sl] # NoStory
      BY <2>3 DEF PollFinished
    <3>2. /\ status'[s] = "review" /\ stage'[s] = "review" /\ s \in Story
          /\ \A t \in Story : t # s => status'[t] = status[t] /\ stage'[t] = stage[t]
      BY <1>0, <2>1, <2>3, <3>1, ProjectValues
      DEF PollFinished, Emit, TrackingInv, TypeOK
    <3>3. \A x \in Slot : active'[x] # NoStory => active'[x] = active[x] /\ active[x] # s
      BY <1>0, <2>3 DEF PollFinished, TrackingInv, TypeOK, TrackedOnce
    <3>4. HandedOutIsUnfinished'
      BY <1>0, <2>1, <2>2, <2>3, <3>1, <3>2, <3>3
      DEF PollFinished, MergedInv, HandedOutIsUnfinished, TrackingInv, SpawnPending
    <3>5. \A t \in Story : (StageFits(t) /\ MergedIsBehind(t))'
      BY <1>0, <2>1, <2>3, <3>1, <3>2 DEF PollFinished, MergedInv, StageFits, MergedIsBehind
    <3> QED BY <1>0, <3>4, <3>5 DEF MergedInv
  <2>4. ASSUME NEW sl \in Slot, SLABreach(sl) PROVE MergedInv'
    <3> DEFINE s == active[sl]
    <3>1. active[sl] # NoStory /\ run = "track" /\ UNCHANGED <<pr, process>>
      BY <2>4 DEF SLABreach
    <3>2. /\ status'[s] = "draft" /\ s \in Story
          /\ \A t \in Story : t # s => status'[t] = status[t]
      BY <1>0, <2>1, <2>4, <3>1, ProjectValues DEF SLABreach, Emit, TrackingInv, TypeOK
    <3>3. HandedOutIsUnfinished'
      BY <1>0, <2>1, <2>2, <3>1, <3>2
      DEF process, MergedInv, HandedOutIsUnfinished, TrackingInv, SpawnPending
    <3>4. \A t \in Story : (StageFits(t) /\ MergedIsBehind(t))'
      BY <1>0, <2>1, <3>1, <3>2 DEF process, MergedInv, StageFits, MergedIsBehind
    <3> QED BY <1>0, <3>3, <3>4 DEF MergedInv
  <2>5. CASE GateVerdict
    BY <1>0, <2>5 DEF GateVerdict, MergedInv, StageFits, MergedIsBehind,
                      HandedOutIsUnfinished
  <2> QED BY <1>0, <1>1, <2>3, <2>4, <2>5, MergedPipeline, MergedIntercept,
             MergedNextWave, MergedDispatch DEF Monitor
<1>2. CASE Agents
  BY <1>0, <1>2, MergedQuiet DEF Agents, AgentIdle, AgentExit, store, process
<1>3. CASE Crash
  BY <1>0, <1>3 DEF Crash, store, MergedInv, StageFits, MergedIsBehind,
                    HandedOutIsUnfinished
<1>4. CASE UNCHANGED vars
  BY <1>0, <1>4, MergedQuiet DEF vars, store, process
<1> QED BY <1>0, <1>1, <1>2, <1>3, <1>4, MergedResume, MergedOperator DEF Next

(* Nothing but the pipeline, the cleanup and `vxd approve' touches a pull  *)
(* request, and none of them one that is merged.                           *)
LEMMA MergedPR ==
  MergedInv /\ [Next]_vars => \A s \in Story : pr[s] = "merged" => pr'[s] = "merged"
<1> SUFFICES ASSUME MergedInv, [Next]_vars, NEW s \in Story, pr[s] = "merged"
             PROVE  pr'[s] = "merged"
  OBVIOUS
<1>0. pr \in [Story -> PRState] /\ stage[s] \in {"idle", "record", "cleanup"}
  BY DEF MergedInv, TrackingInv, TypeOK, MergedIsBehind
<1>1. ASSUME NEW t \in Story, Pipeline(t) PROVE pr'[s] = "merged"
  BY <1>0, <1>1
  DEF Pipeline, StageFails, WorkRejected, StagePauses, ReviewPasses, QAPasses,
      SecurityPasses, LockMerge, CreatePR, AwaitApproval, MergePR, RecordMerge,
      FinishPipeline
<1>2. ASSUME NEW t \in Story, Intercept(t) PROVE pr' = pr
  BY <1>2
  DEF Intercept, PassOver, ManagerResets, InterceptionPauses, ManagerRetries,
      ManagerRewrites, ManagerEscalates, StorySplit
<1>3. CASE NextWave
  BY <1>0, <1>3 DEF NextWave, NextWavePaused, NextWaveAllDone, NextWaveReady, Dangling
<1>4. CASE Dispatch
  BY <1>4 DEF Dispatch, DispatchWave, NothingToDispatch, Spawn, SpawnFails, SpawnDone
<1>5. CASE Monitor
  BY <1>1, <1>2, <1>3, <1>4, <1>5 DEF Monitor, PollFinished, SLABreach, GateVerdict
<1>6. CASE Operator
  BY <1>0, <1>6 DEF Operator, PauseCommand, ApproveCommand, ApproveChecks, ApproveMerges,
                    ApproveRecords, ApproveEnds, RejectCommand, RetryCommand
<1>7. CASE Resume \/ Agents \/ Crash \/ UNCHANGED vars
  BY <1>7 DEF Resume, ResumeNotComposed, ResumeGateOnly, ResumeRecover, ResumeDispatch,
              Agents, AgentIdle, AgentExit, Crash, vars
<1> QED BY <1>5, <1>6, <1>7 DEF Next

(* Whatever goes on around a story while its approval is under way, what   *)
(* approve has read of it stays true.                                      *)
LEMMA ApprovingStep ==
  AnswersStand /\ ApprovingInv /\ [Next]_vars => ApprovingInv'
<1> SUFFICES ASSUME AnswersStand, ApprovingInv, [Next]_vars PROVE ApprovingInv'
  OBVIOUS
<1>0. /\ MergedInv /\ MergedInv' /\ status \in [Story -> StoryStatus]
      /\ pr \in [Story -> PRState]
      /\ approving \in [Story -> {"no", "checked", "merged", "recorded"}]
  BY MergedStep DEF ApprovingInv, MergedInv, TrackingInv, TypeOK
<1>1. \A s \in Story : pr[s] = "merged" => pr'[s] = "merged"
  BY <1>0, MergedPR
<1>2. SUFFICES ASSUME NEW s \in Story PROVE ApprovalFits(s)'
  BY <1>0 DEF ApprovingInv
<1>3. ApprovalFits(s)
  BY DEF ApprovingInv
<1>4. CASE Resume \/ Monitor \/ Agents \/ Crash \/ UNCHANGED vars
  <2>1. CASE status[s] \in {"awaiting_approval", "merged"}
    BY <1>0, <1>1, <1>3, <1>4, <2>1, SettledStays DEF ApprovalFits
  <2>2. CASE status[s] \notin {"awaiting_approval", "merged"}
    <3>1. approving[s] = "no"
      BY <1>0, <1>3, <2>2 DEF ApprovalFits
    <3>2. approving' = approving
      BY <1>0, <1>4 DEF Resume, ResumeNotComposed, ResumeGateOnly, ResumeRecover,
         ResumeDispatch, Monitor, PollFinished, SLABreach, Pipeline, StageFails, WorkRejected,
         StagePauses, ReviewPasses, QAPasses, SecurityPasses, LockMerge, CreatePR,
         AwaitApproval, MergePR, RecordMerge, FinishPipeline, Intercept, PassOver,
         ManagerResets, InterceptionPauses, ManagerRetries, ManagerRewrites,
         ManagerEscalates, StorySplit, NextWave, NextWavePaused, NextWaveAllDone,
         NextWaveReady, Dispatch, DispatchWave, NothingToDispatch, Spawn, SpawnFails,
         SpawnDone, GateVerdict, Agents, AgentIdle, AgentExit, Crash, vars, human
    <3> QED BY <3>1, <3>2 DEF ApprovalFits
  <2> QED BY <2>1, <2>2
<1>5. CASE Operator
  <2>1. CASE PauseCommand
    BY <1>3, <2>1 DEF PauseCommand, ApprovalFits, human
  <2>2. ASSUME NEW t \in Story, ApproveCommand(t) PROVE ApprovalFits(s)'
    <3>1. CASE t # s
      <4>1. approving'[s] = approving[s]
        BY <1>0, <2>2, <3>1
        DEF ApproveCommand, ApproveChecks, ApproveMerges, ApproveRecords, ApproveEnds
      <4> QED BY <1>3, <2>2, <3>1, <4>1, ApproveEffect DEF ApprovalFits
    <3>2. CASE t = s
      BY <1>0, <1>3, <2>2, <3>2, ProjectValues
      DEF ApproveCommand, ApproveChecks, ApproveMerges, ApproveRecords, ApproveEnds,
          ApprovalFits, Emit, store
    <3> QED BY <3>1, <3>2
  <2>3. ASSUME NEW t \in Story, RejectCommand(t) PROVE ApprovalFits(s)'
    <3>1. "approve" \notin Commands /\ approving' = approving
      BY <2>3 DEF AnswersStand, RejectCommand, human
    <3> QED BY <1>0, <1>3, <3>1 DEF ApprovalFits
  <2> QED BY <1>5, <2>1, <2>2, <2>3 DEF Operator, RetryCommand, AnswersStand
<1> QED BY <1>4, <1>5 DEF Next

LEMMA ApprovingInvariant ==
  ASSUME AnswersStand
  PROVE  Spec => []ApprovingInv
<1>1. Init => ApprovingInv
  BY TrackingInit DEF Init, ApprovingInv, MergedInv, StageFits, MergedIsBehind,
                      HandedOutIsUnfinished, ApprovalFits
<1>2. ApprovingInv /\ [Next]_vars => ApprovingInv'
  BY ApprovingStep
<1> QED BY <1>1, <1>2, PTL DEF Spec

(* As long as nobody types `vxd retry', nor rejects beside an approval     *)
(* under way, work that the forge has merged stays merged and is never     *)
(* handed out again: not by a retry or a tier change of the monitor, not   *)
(* by an interception, not by a resume after a crash between the merge and *)
(* its record, and not by an approval cut off there.                       *)
THEOREM MergedFinal ==
  ASSUME "retry" \notin Commands, ~({"approve", "reject"} \subseteq Commands)
  PROVE  Spec => MergedIsFinal
<1>1. AnswersStand
  BY DEF AnswersStand
<1>2. ApprovingInv /\ ApprovingInv' /\ [Next]_vars =>
        [\A s \in Story : pr[s] = "merged" =>
           /\ pr'[s] = "merged"
           /\ status'[s] \notin {"draft", "assigned", "in_progress"}]_vars
  BY MergedPR DEF ApprovingInv, MergedInv, MergedIsBehind
<1>3. Spec => []ApprovingInv
  BY <1>1, ApprovingInvariant
<1> QED BY <1>2, <1>3, PTL DEF Spec, MergedIsFinal

(* --- agents at work --------------------------------------------------------- *)

(* A step that leaves the stories of working agents where they are, and    *)
(* adds no working agent, keeps the isolation invariant.                   *)
LEMMA IsolationFrame ==
  ASSUME IsolationInv, TrackingInv',
         queue' = {},
         \A s \in toSpawn' : status'[s] = "assigned",
         \A sl \in Slot : active'[sl] # NoStory => slotOf'[active'[sl]] = sl,
         \A sl \in Slot : session'[sl] # NoStory /\ sl \notin idleAt' =>
           session'[sl] = session[sl] /\ sl \notin idleAt,
         \A s \in Story : status[s] = "in_progress" /\ stage[s] = "idle" /\ s \in worktree
                          /\ (\E sl \in Slot : session[sl] = s /\ sl \notin idleAt)
           => /\ status'[s] = status[s] /\ stage'[s] = stage[s]
              /\ slotOf'[s] = slotOf[s] /\ s \in worktree'
  PROVE  IsolationInv'
<1>1. ASSUME NEW sl \in Slot, session'[sl] # NoStory, sl \notin idleAt'
      PROVE  LET s == session'[sl]
             IN  /\ slotOf'[s] = sl /\ status'[s] = "in_progress"
                 /\ stage'[s] = "idle" /\ s \in worktree'
  <2> DEFINE s == session[sl]
  <2>1. session'[sl] = s /\ sl \notin idleAt /\ s \in Story
    BY <1>1 DEF IsolationInv, TrackingInv, TypeOK, StoryOrNone
  <2>2. slotOf[s] = sl /\ status[s] = "in_progress" /\ stage[s] = "idle" /\ s \in worktree
    BY <1>1, <2>1 DEF IsolationInv, AgentsAreKnown
  <2> QED BY <2>1, <2>2
<1> QED BY <1>1 DEF IsolationInv, AgentsAreKnown

(* Most actions change nothing about agents and their stories.             *)
LEMMA IsolationQuiet ==
  ASSUME IsolationInv, TrackingInv',
         UNCHANGED <<status, stage, slotOf, worktree, tmux, toSpawn, active, queue>>
  PROVE  IsolationInv'
BY DEF tmux, IsolationInv, AgentsAreKnown

LEMMA IsolationResume == IsolationInv /\ TrackingInv' /\ Resume => IsolationInv'
<1> SUFFICES ASSUME IsolationInv, TrackingInv', Resume PROVE IsolationInv'
  OBVIOUS
<1>1. CASE ResumeNotComposed
  BY <1>1, IsolationQuiet DEF ResumeNotComposed, process
<1>2. CASE ResumeGateOnly
  BY <1>2, IsolationQuiet DEF ResumeGateOnly
<1>3. ASSUME ConsistencyCheck, run = "down", UNCHANGED <<stage, slotOf, worktree, tmux,
             toSpawn, queue>>,
             \A sl \in Slot : active'[sl] # NoStory => slotOf[active'[sl]] = sl
      PROVE  IsolationInv'
  <2>1. \A s \in worktree : s \in Story /\ status'[s] = status[s]
    BY <1>3 DEF ConsistencyCheck, WorkLost, IsolationInv, TrackingInv, TypeOK
  <2>2. toSpawn' = {} /\ queue' = {}
    BY <1>3 DEF IsolationInv, TrackingInv, SpawnPending
  <2>3. \A sl \in Slot : active'[sl] # NoStory => slotOf'[active'[sl]] = sl
    BY <1>3
  <2>4. UNCHANGED <<session, idleAt, stage, slotOf, worktree>>
    BY <1>3 DEF tmux
  <2> QED BY <2>1, <2>2, <2>3, <2>4, IsolationFrame
<1>4. CASE ResumeRecover
  <2>1. PICK tracked \in SUBSET Orphans :
          active' = [sl \in Slot |-> IF \E s \in tracked : slotOf[s] = sl
                                     THEN CHOOSE s \in tracked : slotOf[s] = sl
                                     ELSE NoStory]
    BY <1>4 DEF ResumeRecover
  <2>2. \A sl \in Slot : active'[sl] # NoStory => slotOf[active'[sl]] = sl
    BY <2>1
  <2> QED BY <1>3, <1>4, <2>2 DEF ResumeRecover
<1>5. CASE ResumeDispatch
  BY <1>3, <1>5 DEF ResumeDispatch, IsolationInv
<1> QED BY <1>1, <1>2, <1>4, <1>5 DEF Resume

LEMMA IsolationPoll ==
  \A sl \in Slot : IsolationInv /\ TrackingInv' /\ PollFinished(sl) => IsolationInv'
<1> SUFFICES ASSUME NEW sl \in Slot, IsolationInv, TrackingInv', PollFinished(sl)
             PROVE  IsolationInv'
  OBVIOUS
<1> DEFINE s == active[sl]
<1>0. /\ status \in [Story -> StoryStatus] /\ stage \in [Story -> Stage]
      /\ active \in [Slot -> StoryOrNone]
  BY DEF IsolationInv, TrackingInv, TypeOK
<1>1. run = "track" /\ s # NoStory /\ s \in Story /\ slotOf[s] = sl
  BY <1>0 DEF PollFinished, IsolationInv, StoryOrNone
<1>2. ASSUME NEW x \in Slot, session[x] = s, x \notin idleAt PROVE FALSE
  BY <1>1, <1>2 DEF PollFinished, IsolationInv, AgentsAreKnown
<1>3. \A t \in Story : t # s => status'[t] = status[t] /\ stage'[t] = stage[t]
  BY <1>0 DEF PollFinished, Emit
<1>4. toSpawn' = {} /\ queue' = {}
  BY <1>1 DEF PollFinished, IsolationInv, TrackingInv, SpawnPending
<1>5. UNCHANGED <<session, idleAt, slotOf, worktree>>
  BY DEF PollFinished, tmux
<1>6. \A x \in Slot : active'[x] # NoStory => slotOf'[active'[x]] = x
  BY <1>0, <1>5 DEF PollFinished, IsolationInv
<1> QED BY <1>2, <1>3, <1>4, <1>5, <1>6, IsolationFrame

(* A pipeline moves one story, whose agent is not at work.                 *)
LEMMA IsolationPipeline ==
  \A s \in Story : IsolationInv /\ TrackingInv' /\ Pipeline(s) => IsolationInv'
<1> SUFFICES ASSUME NEW s \in Story, IsolationInv, TrackingInv', Pipeline(s)
             PROVE  IsolationInv'
  OBVIOUS
<1>0. /\ TypeOK /\ status \in [Story -> StoryStatus] /\ stage \in [Story -> Stage]
  BY DEF IsolationInv, TrackingInv, TypeOK
<1>1. stage[s] # "idle" /\ UNCHANGED <<slotOf, tmux, active, toSpawn, queue>>
  BY DEF Pipeline, StageFails, WorkRejected, StagePauses, ReviewPasses, QAPasses,
         SecurityPasses, LockMerge, CreatePR, AwaitApproval, MergePR, RecordMerge,
         FinishPipeline, CanFail
<1>2. \A t \in Story : t # s => stage'[t] = stage[t] /\ (t \in worktree => t \in worktree')
  BY <1>0
  DEF Pipeline, StageFails, WorkRejected, StagePauses, ReviewPasses, QAPasses,
      SecurityPasses, LockMerge, CreatePR, AwaitApproval, MergePR, RecordMerge,
      FinishPipeline, EndPipeline
<1>3. \A t \in Story : t # s => status'[t] = status[t]
  <2>1. CASE StageFails(s) \/ WorkRejected(s)
    BY <1>0, <2>1, ResetEffect DEF StageFails, WorkRejected
  <2>2. CASE ~(StageFails(s) \/ WorkRejected(s))
    BY <1>0, <2>2
    DEF Pipeline, StagePauses, ReviewPasses, QAPasses, SecurityPasses, LockMerge,
        CreatePR, AwaitApproval, MergePR, RecordMerge, FinishPipeline, Emit, store
  <2> QED BY <2>1, <2>2
<1>4. toSpawn' = {} /\ queue' = {}
  BY <1>1 DEF IsolationInv, TrackingInv, SpawnPending, PipelinesOnlyInTrack
<1>5. UNCHANGED <<session, idleAt, slotOf, active>>
  BY <1>1 DEF tmux
<1>6. \A x \in Slot : active'[x] # NoStory => slotOf'[active'[x]] = x
  BY <1>5 DEF IsolationInv
<1> QED BY <1>1, <1>2, <1>3, <1>4, <1>5, <1>6, IsolationFrame

LEMMA IsolationNextWave ==
  ~ManagerWired /\ IsolationInv /\ TrackingInv' /\ NextWave => IsolationInv'
<1> SUFFICES ASSUME ~ManagerWired, IsolationInv, TrackingInv', NextWave
             PROVE  IsolationInv'
  OBVIOUS
<1>1. queue' = queue
  BY DEF NextWave, NextWavePaused, NextWaveAllDone, NextWaveReady, IsolationInv
<1> QED BY <1>1, IsolationQuiet
        DEF NextWave, NextWavePaused, NextWaveAllDone, NextWaveReady, store

LEMMA IsolationDispatch == IsolationInv /\ TrackingInv' /\ Dispatch => IsolationInv'
<1> SUFFICES ASSUME IsolationInv, TrackingInv', Dispatch PROVE IsolationInv'
  OBVIOUS
<1>0. /\ status \in [Story -> StoryStatus] /\ stage \in [Story -> Stage]
      /\ slotOf \in [Story -> 0..MaxConcurrentAgents] /\ toSpawn \subseteq Story
      /\ session \in [Slot -> StoryOrNone] /\ active \in [Slot -> StoryOrNone]
      /\ queue = {}
  BY DEF IsolationInv, TrackingInv, TypeOK
<1>1. ASSUME NEW wave \in SUBSET Story, NEW slotFor \in [wave -> Slot],
             DispatchWave(wave, slotFor)
      PROVE  IsolationInv'
  <2>1. /\ \A s \in wave : status[s] = "draft" /\ status'[s] = "assigned"
        /\ \A s \in Story \ wave : status'[s] = status[s] /\ slotOf'[s] = slotOf[s]
    BY <1>0, <1>1, ProjectValues DEF DispatchWave, StoryDispatchable
  <2>2. \A sl \in Slot : active'[sl] = NoStory
    BY <1>1 DEF DispatchWave, IsolationInv, TrackingInv, TrackedOnce
  <2>3. toSpawn' = wave /\ queue' = {} /\ UNCHANGED <<session, idleAt, stage, worktree>>
    BY <1>0, <1>1 DEF DispatchWave, tmux
  <2> QED BY <2>1, <2>2, <2>3, IsolationFrame
<1>2. CASE NothingToDispatch
  BY <1>2, IsolationQuiet DEF NothingToDispatch, store
<1>3. ASSUME NEW s \in Story, Spawn(s) PROVE IsolationInv'
  <2>1. /\ status[s] = "assigned" /\ stage[s] = "idle" /\ slotOf[s] \in Slot
        /\ toSpawn' = toSpawn \ {s} /\ worktree' = worktree \cup {s}
        /\ UNCHANGED <<slotOf, stage, queue>>
    BY <1>3 DEF Spawn, IsolationInv, TrackingInv, PipelinesOnlyInTrack, SpawnPending
  <2>2. /\ status'[s] = "in_progress"
        /\ \A t \in Story : t # s => status'[t] = status[t]
    BY <1>0, <1>3, <2>1, ProjectValues DEF Spawn, Emit, IsStoryComplete
  <2>3. \A sl \in Slot : /\ session'[sl] = IF sl = slotOf[s] THEN s ELSE session[sl]
                         /\ active'[sl] = IF sl = slotOf[s] THEN s ELSE active[sl]
                         /\ sl # slotOf[s] => (sl \in idleAt' <=> sl \in idleAt)
    BY <1>0, <1>3 DEF Spawn
  <2>4. ASSUME NEW sl \in Slot, session'[sl] # NoStory, sl \notin idleAt'
        PROVE  LET t == session'[sl]
               IN  /\ slotOf'[t] = sl /\ status'[t] = "in_progress"
                   /\ stage'[t] = "idle" /\ t \in worktree'
    <3>1. CASE sl = slotOf[s]
      BY <2>1, <2>2, <2>3, <3>1
    <3>2. CASE sl # slotOf[s]
      <4> DEFINE t == session[sl]
      <4>1. session'[sl] = t /\ t \in Story /\ sl \notin idleAt
        BY <1>0, <2>3, <2>4, <3>2 DEF StoryOrNone
      <4>2. slotOf[t] = sl /\ status[t] = "in_progress" /\ stage[t] = "idle" /\ t \in worktree
        BY <2>4, <4>1 DEF IsolationInv, AgentsAreKnown
      <4> QED BY <2>1, <2>2, <4>1, <4>2
    <3> QED BY <3>1, <3>2
  <2>5. \A sl \in Slot : active'[sl] # NoStory => slotOf'[active'[sl]] = sl
    BY <2>1, <2>3 DEF IsolationInv
  <2>6. \A t \in toSpawn' : status'[t] = "assigned"
    BY <1>0, <2>1, <2>2 DEF IsolationInv
  <2> QED BY <1>0, <2>1, <2>4, <2>5, <2>6 DEF IsolationInv, AgentsAreKnown
<1>4. ASSUME NEW s \in Story, SpawnFails(s) PROVE IsolationInv'
  <2>1. /\ toSpawn' = toSpawn \ {s} /\ UNCHANGED <<status, stage, slotOf, active, queue>>
        /\ \A t \in worktree : t \in worktree'
    BY <1>4 DEF SpawnFails, store
  <2>2. \A sl \in Slot : session'[sl] # NoStory /\ sl \notin idleAt' =>
          session'[sl] = session[sl] /\ sl \notin idleAt
    BY <1>0, <1>4 DEF SpawnFails, tmux
  <2>3. /\ queue' = {}
        /\ \A t \in toSpawn' : status'[t] = "assigned"
        /\ \A sl \in Slot : active'[sl] # NoStory => slotOf'[active'[sl]] = sl
    BY <1>0, <2>1 DEF IsolationInv
  <2> QED BY <2>1, <2>2, <2>3, IsolationFrame
<1>5. CASE SpawnDone
  BY <1>5, IsolationQuiet DEF SpawnDone, store
<1> QED BY <1>1, <1>2, <1>3, <1>4, <1>5 DEF Dispatch

LEMMA IsolationOperator ==
  AnswersStand /\ ApprovingInv /\ IsolationInv /\ TrackingInv' /\ Operator => IsolationInv'
<1> SUFFICES ASSUME AnswersStand, ApprovingInv, IsolationInv, TrackingInv', Operator
             PROVE  IsolationInv'
  OBVIOUS
<1>0. status \in [Story -> StoryStatus] /\ toSpawn \subseteq Story
  BY DEF IsolationInv, TrackingInv, TypeOK
<1>1. CASE PauseCommand
  BY <1>1, IsolationQuiet DEF PauseCommand, process
<1>2. ASSUME NEW s \in Story, ApproveCommand(s) \/ RejectCommand(s) PROVE IsolationInv'
  <2>1. /\ status[s] \in {"awaiting_approval", "merged"}
        /\ \A t \in Story : t # s => status'[t] = status[t]
        /\ UNCHANGED <<worktree, tmux, slotOf, process>>
    BY <1>0, <1>2, ApproveEffect DEF RejectCommand, Emit
  <2>2. UNCHANGED <<session, idleAt, queue, toSpawn, active, stage>>
    BY <2>1 DEF tmux, process
  <2>3. /\ queue' = {}
        /\ \A t \in toSpawn' : status'[t] = "assigned"
        /\ \A sl \in Slot : active'[sl] # NoStory => slotOf'[active'[sl]] = sl
    BY <1>0, <2>1, <2>2 DEF IsolationInv
  <2> QED BY <2>1, <2>2, <2>3, IsolationFrame
<1> QED BY <1>1, <1>2 DEF Operator, RetryCommand, AnswersStand

LEMMA IsolationStep ==
  ASSUME ~ManagerWired, ~SLAAutoEscalate, AnswersStand, ApprovingInv,
         IsolationInv, [Next]_vars
  PROVE  IsolationInv'
<1>0. TrackingInv /\ TrackingInv'
  BY TrackingStep DEF IsolationInv
<1>1. CASE Monitor
  <2>1. ASSUME NEW sl \in Slot, SLABreach(sl) PROVE FALSE
    BY <2>1 DEF SLABreach
  <2>2. ASSUME NEW s \in Story, Intercept(s) PROVE FALSE
    BY <2>2
    DEF Intercept, PassOver, ManagerResets, InterceptionPauses, ManagerRetries,
        ManagerRewrites, ManagerEscalates, StorySplit, Handled, IsolationInv
  <2>3. CASE GateVerdict
    BY <1>0, <2>3, IsolationQuiet DEF GateVerdict
  <2> QED BY <1>0, <1>1, <2>1, <2>2, <2>3, IsolationPoll, IsolationPipeline,
             IsolationNextWave, IsolationDispatch DEF Monitor
<1>2. CASE Agents
  <2>1. UNCHANGED <<status, stage, slotOf, worktree, toSpawn, active, queue>>
    BY <1>2 DEF Agents, AgentIdle, AgentExit, store, process
  <2>2. \A sl \in Slot : session'[sl] # NoStory /\ sl \notin idleAt' =>
          session'[sl] = session[sl] /\ sl \notin idleAt
    BY <1>0, <1>2 DEF Agents, AgentIdle, AgentExit, TrackingInv, TypeOK
  <2> QED BY <1>0, <2>1, <2>2, IsolationFrame DEF IsolationInv
<1>3. CASE Crash
  <2>1. /\ queue' = {} /\ toSpawn' = {} /\ \A sl \in Slot : active'[sl] = NoStory
        /\ \A s \in Story : stage'[s] = "idle"
        /\ UNCHANGED <<status, worktree, session, idleAt, slotOf>>
    BY <1>3 DEF Crash, store, tmux
  <2> QED BY <1>0, <2>1, IsolationFrame
<1>4. CASE UNCHANGED vars
  BY <1>0, <1>4, IsolationQuiet DEF vars, store, tmux, process
<1> QED BY <1>0, <1>1, <1>2, <1>3, <1>4, IsolationResume, IsolationOperator DEF Next

(* With no manager, no SLA escalation, no `vxd retry' and no reject beside *)
(* an approve, an agent at work has its worktree to itself, however often  *)
(* the process is killed and resumed while agents of earlier runs are      *)
(* still at work, and whatever session names a later wave reuses.          *)
THEOREM Isolated ==
  ASSUME ~ManagerWired, ~SLAAutoEscalate, "retry" \notin Commands,
         ~({"approve", "reject"} \subseteq Commands)
  PROVE  Spec => []WorkerIsolation
<1>0. AnswersStand
  BY DEF AnswersStand
<1>1. Init => IsolationInv
  BY TrackingInit DEF Init, IsolationInv, AgentsAreKnown
<1>2. ApprovingInv /\ IsolationInv /\ [Next]_vars => IsolationInv'
  BY <1>0, IsolationStep
<1>3. Spec => []ApprovingInv
  BY <1>0, ApprovingInvariant
<1>4. IsolationInv => WorkerIsolation
  <2> SUFFICES ASSUME IsolationInv, NEW s \in Story, AtWork(s) # {}
               PROVE  /\ \A x, y \in AtWork(s) : x = y
                      /\ status[s] = "in_progress" /\ stage[s] = "idle"
                      /\ s \in worktree
    BY DEF WorkerIsolation
  <2>1. \A sl \in AtWork(s) : sl \in Slot /\ session[sl] # NoStory /\ sl \notin idleAt
    BY StoryAssumption DEF AtWork
  <2>2. \A sl \in AtWork(s) : /\ slotOf[s] = sl /\ status[s] = "in_progress"
                             /\ stage[s] = "idle" /\ s \in worktree
    BY <2>1 DEF IsolationInv, AgentsAreKnown, AtWork
  <2> QED BY <2>2
<1> QED BY <1>1, <1>2, <1>3, <1>4, PTL DEF Spec
=============================================================================
