-------------------------- MODULE DeliveryOrderProofs --------------------------
(***************************************************************************)
(* The order of work: a verdict is given on all stories, nothing is begun  *)
(* before what it depends on, and DeliveryPipeline implements the promise  *)
(* of WaveDelivery.  Each theorem names the configurations it is about.    *)
(***************************************************************************)
EXTENDS DeliveryProofs

LEMMA NoAnswerTakenBack ==
  {"retry", "reject"} \cap Commands = {} => AnswersStand
BY DEF AnswersStand

(* --- the verdict ------------------------------------------------------------ *)

LEMMA AllCompleteMeans ==
  AllComplete <=> \A s \in Story : status[s] = "none" \/ IsStoryComplete(status[s])
BY DEF AllComplete, Created, CompleteStories, IsStoryComplete

(* While a run works on the stories there is no verdict yet.               *)
LEMMA VerdictAtWork ==
  ASSUME VerdictInv, TrackingInv', run # "down", run' # "gate",
         reqStatus' \in {reqStatus, "paused"}
  PROVE  VerdictInv'
BY DEF VerdictInv

LEMMA VerdictStill ==
  ASSUME VerdictInv, TrackingInv', UNCHANGED <<run, status>>,
         reqStatus' \in {reqStatus, "paused"}
  PROVE  VerdictInv'
BY DEF VerdictInv, AllComplete, Created, CompleteStories

LEMMA VerdictResume == VerdictInv /\ TrackingInv' /\ Resume => VerdictInv'
<1> SUFFICES ASSUME VerdictInv, TrackingInv', Resume PROVE VerdictInv'
  OBVIOUS
<1>1. CASE ResumeNotComposed
  BY <1>1 DEF ResumeNotComposed, Unpaused, VerdictInv, process, AllComplete, Created,
              CompleteStories
<1>2. CASE ResumeGateOnly
  BY <1>2 DEF ResumeGateOnly, Unpaused, VerdictInv
<1>3. CASE ResumeRecover
  BY <1>3 DEF ResumeRecover, Unpaused, VerdictInv
<1>4. CASE ResumeDispatch
  BY <1>4 DEF ResumeDispatch, Unpaused, VerdictInv
<1> QED BY <1>1, <1>2, <1>3, <1>4 DEF Resume

LEMMA PipelineRequirement ==
  \A s \in Story : TrackingInv /\ Pipeline(s) =>
    run = "track" /\ run' = run /\ reqStatus' \in {reqStatus, "paused"}
<1> SUFFICES ASSUME NEW s \in Story, TrackingInv, Pipeline(s)
             PROVE  run = "track" /\ run' = run /\ reqStatus' \in {reqStatus, "paused"}
  OBVIOUS
<1>1. stage[s] # "idle"
  BY DEF Pipeline, StageFails, CanFail, WorkRejected, StagePauses, ReviewPasses, QAPasses,
         SecurityPasses, LockMerge, CreatePR, AwaitApproval, MergePR, RecordMerge,
         FinishPipeline
<1>2. run = "track"
  BY <1>1 DEF TrackingInv, PipelinesOnlyInTrack
<1>3. run' = run /\ reqStatus' \in {reqStatus, "paused"}
  BY DEF Pipeline, StageFails, WorkRejected, StagePauses, ReviewPasses, QAPasses,
         SecurityPasses, LockMerge, CreatePR, AwaitApproval, MergePR, RecordMerge,
         FinishPipeline, ResetStoryToDraft, PauseRequirement, store
<1> QED BY <1>2, <1>3

LEMMA InterceptRequirement ==
  \A s \in Story : Intercept(s) =>
    run = "dispatch" /\ run' = run /\ reqStatus' \in {reqStatus, "paused"}
BY DEF Intercept, PassOver, ManagerResets, InterceptionPauses, ManagerRetries,
       ManagerRewrites, ManagerEscalates, StorySplit, Handled, ResetStoryToDraft,
       PauseRequirement, store

LEMMA VerdictMonitor == VerdictInv /\ TrackingInv' /\ Monitor => VerdictInv'
<1> SUFFICES ASSUME VerdictInv, TrackingInv', Monitor PROVE VerdictInv'
  OBVIOUS
<1>1. ASSUME NEW sl \in Slot, PollFinished(sl) \/ SLABreach(sl) PROVE VerdictInv'
  BY <1>1, VerdictAtWork DEF PollFinished, SLABreach, process
<1>2. ASSUME NEW s \in Story, Pipeline(s) PROVE VerdictInv'
  BY <1>2, VerdictAtWork, PipelineRequirement DEF VerdictInv
<1>3. ASSUME NEW s \in Story, Intercept(s) PROVE VerdictInv'
  BY <1>3, VerdictAtWork, InterceptRequirement
<1>4. CASE NextWavePaused \/ NextWaveReady
  BY <1>4, VerdictAtWork DEF NextWavePaused, NextWaveReady, WaveOver, store
<1>5. CASE NextWaveAllDone
  BY <1>5 DEF NextWaveAllDone, WaveOver, VerdictInv, store, AllComplete, Created,
              CompleteStories
<1>6. CASE Dispatch
  BY <1>6, VerdictAtWork
  DEF Dispatch, DispatchWave, NothingToDispatch, Spawn, SpawnFails, SpawnDone, store
<1>7. CASE GateVerdict
  BY <1>7 DEF GateVerdict, VerdictInv, AllComplete, Created, CompleteStories
<1> QED BY <1>1, <1>2, <1>3, <1>4, <1>5, <1>6, <1>7 DEF Monitor, NextWave

LEMMA VerdictOperator ==
  ASSUME {"retry", "reject"} \cap Commands = {}, ApprovingInv, VerdictInv, TrackingInv',
         Operator
  PROVE  VerdictInv'
<1>1. CASE PauseCommand
  BY <1>1, VerdictStill DEF PauseCommand, PauseRequirement, process
<1>2. ASSUME NEW s \in Story, ApproveCommand(s) PROVE VerdictInv'
  <2>1. /\ IsStoryComplete(status[s])
        /\ \A t \in Story : status'[t] = status[t] \/ (t = s /\ status'[t] = "merged")
        /\ UNCHANGED <<reqStatus, process>>
    BY <1>2, ApproveEffect DEF IsStoryComplete
  <2>2. AllComplete => AllComplete'
    BY <2>1 DEF AllComplete, Created, CompleteStories, IsStoryComplete
  <2> QED BY <2>1, <2>2 DEF VerdictInv, process
<1> QED BY <1>1, <1>2 DEF Operator, RejectCommand, RetryCommand

LEMMA VerdictStep ==
  ASSUME {"retry", "reject"} \cap Commands = {}, ApprovingInv, VerdictInv, [Next]_vars
  PROVE  VerdictInv'
<1>0. TrackingInv'
  BY TrackingStep DEF VerdictInv
<1>1. CASE Agents
  BY <1>0, <1>1, VerdictStill DEF Agents, AgentIdle, AgentExit, store, process
<1>2. CASE Crash
  BY <1>0, <1>2, VerdictAtWork DEF Crash, store
<1>3. CASE UNCHANGED vars
  BY <1>0, <1>3, VerdictStill DEF vars, store, process
<1> QED BY <1>0, <1>1, <1>2, <1>3, VerdictResume, VerdictMonitor, VerdictOperator DEF Next

LEMMA VerdictInvariant ==
  ASSUME {"retry", "reject"} \cap Commands = {}
  PROVE  Spec => []VerdictInv
<1>1. Init => VerdictInv
  BY TrackingInit DEF Init, VerdictInv
<1>2. ApprovingInv /\ VerdictInv /\ [Next]_vars => VerdictInv'
  BY VerdictStep
<1>3. Spec => []ApprovingInv
  BY NoAnswerTakenBack, ApprovingInvariant
<1> QED BY <1>1, <1>2, <1>3, PTL DEF Spec

(* As long as the operator neither retries nor rejects: whatever splits,   *)
(* crashes and resumes come before, the requirement is completed or        *)
(* blocked only while every story, the children of splits included, is     *)
(* complete.                                                               *)
THEOREM VerdictCovers ==
  ASSUME {"retry", "reject"} \cap Commands = {}
  PROVE  Spec => []VerdictCoversAllStories
<1>1. VerdictInv => VerdictCoversAllStories
  BY DEF VerdictInv, VerdictCoversAllStories
<1> QED BY <1>1, VerdictInvariant, PTL

(* --- dependencies ------------------------------------------------------------ *)

(* A step that engages no further story and disturbs no settled one.       *)
LEMMA OrderFrame ==
  ASSUME OrderInv, ApprovingInv', queue' = {},
         run' = "dispatch" => done' \subseteq CompleteStories',
         \A s \in Story : Engaged(s)' => Engaged(s),
         \A d \in Story : IsStoryComplete(status[d]) /\ stage[d] = "idle"
                            => IsStoryComplete(status'[d]) /\ stage'[d] = "idle",
         \A s \in Story : status'[s] = "in_progress" => s \in worktree'
  PROVE  OrderInv'
BY DepsAssumption DEF OrderInv, DepsSettled

(* An agent that was started has a worktree: nothing is lost on a resume.  *)
LEMMA NothingLost ==
  ASSUME \A s \in Story : status[s] = "in_progress" => s \in worktree,
         status \in [Story -> StoryStatus], ConsistencyCheck
  PROVE  status' = status
<1>1. WorkLost = {}
  BY DEF WorkLost
<1> QED BY <1>1 DEF ConsistencyCheck

LEMMA OrderResume == OrderInv /\ ApprovingInv' /\ Resume => OrderInv'
<1> SUFFICES ASSUME OrderInv, ApprovingInv', Resume PROVE OrderInv'
  OBVIOUS
<1>0. /\ queue = {} /\ \A s \in Story : status[s] = "in_progress" => s \in worktree
      /\ status \in [Story -> StoryStatus]
  BY DEF OrderInv, ApprovingInv, MergedInv, TrackingInv, TypeOK
<1>1. CASE ResumeNotComposed
  BY <1>0, <1>1, OrderFrame DEF ResumeNotComposed, process, Engaged
<1>2. CASE ResumeGateOnly
  BY <1>0, <1>2, OrderFrame DEF ResumeGateOnly, Engaged
<1>3. CASE ResumeRecover
  <2>1. PICK tracked \in SUBSET Orphans :
          active' = [sl \in Slot |-> IF \E s \in tracked : slotOf[s] = sl
                                     THEN CHOOSE s \in tracked : slotOf[s] = sl
                                     ELSE NoStory]
    BY <1>3 DEF ResumeRecover
  <2>2. \A s \in tracked : Engaged(s)
    BY DEF Orphans, IsRecoverableStalledStatus, Engaged
  <2>3. \A s \in Story, sl \in Slot : active'[sl] = s => s \in tracked
    BY <2>1, StoryAssumption
  <2>4. status' = status
    BY <1>0, <1>3, NothingLost DEF ResumeRecover
  <2>5. \A s \in Story : Engaged(s)' => Engaged(s)
    BY <1>3, <2>2, <2>3, <2>4 DEF ResumeRecover, Engaged
  <2> QED BY <1>0, <1>3, <2>4, <2>5, OrderFrame DEF ResumeRecover
<1>4. CASE ResumeDispatch
  <2>1. status' = status
    BY <1>0, <1>4, NothingLost DEF ResumeDispatch
  <2> QED BY <1>0, <1>4, <2>1, OrderFrame
          DEF ResumeDispatch, Engaged, CompleteStories, Created
<1> QED BY <1>1, <1>2, <1>3, <1>4 DEF Resume

LEMMA OrderPipeline ==
  \A s \in Story : OrderInv /\ ApprovingInv' /\ Pipeline(s) => OrderInv'
<1> SUFFICES ASSUME NEW s \in Story, OrderInv, ApprovingInv', Pipeline(s)
             PROVE  OrderInv'
  OBVIOUS
<1>1. /\ stage[s] # "idle" /\ run = "track"
      /\ UNCHANGED <<run, queue, active>>
      /\ \A t \in Story : t # s => status'[t] = status[t] /\ stage'[t] = stage[t]
      /\ status'[s] # "in_progress"
      /\ worktree \ {s} \subseteq worktree'
  BY PipelineLocal DEF OrderInv, ApprovingInv
<1>2. \A t \in Story : Engaged(t)' => Engaged(t)
  BY <1>1 DEF Engaged
<1> QED BY <1>1, <1>2, OrderFrame DEF OrderInv

(* The first two steps of a tracked agent's story.                         *)
LEMMA OrderPoll ==
  \A sl \in Slot :
    OrderInv /\ ApprovingInv' /\ (PollFinished(sl) \/ SLABreach(sl)) => OrderInv'
<1> SUFFICES ASSUME NEW sl \in Slot, OrderInv, ApprovingInv', PollFinished(sl) \/ SLABreach(sl)
             PROVE  OrderInv'
  OBVIOUS
<1> DEFINE s == active[sl]
<1>1. /\ s \in Story /\ ~IsStoryComplete(status[s]) /\ run = "track"
      /\ status \in [Story -> StoryStatus] /\ stage \in [Story -> Stage]
      /\ active \in [Slot -> StoryOrNone]
  BY DEF PollFinished, SLABreach, OrderInv, ApprovingInv, MergedInv, TrackingInv, TypeOK, StoryOrNone,
         HandedOutIsUnfinished, IsStoryComplete
<1>2. \A t \in Story : t # s => status'[t] = status[t] /\ stage'[t] = stage[t]
  BY <1>1 DEF PollFinished, SLABreach, Emit, process
<1>3. status'[s] # "in_progress"
  BY <1>1, ProjectValues DEF PollFinished, SLABreach, Emit
<1>4. \A t \in Story, x \in Slot : active'[x] = t => active[x] = t
  BY <1>1, StoryAssumption DEF PollFinished, SLABreach, process
<1>5. \A t \in Story : Engaged(t)' => Engaged(t)
  BY <1>1, <1>2, <1>4 DEF Engaged
<1>6. UNCHANGED <<run, queue, worktree>>
  BY DEF PollFinished, SLABreach, process
<1> HIDE DEF s
<1> QED BY <1>1, <1>2, <1>3, <1>5, <1>6, OrderFrame DEF OrderInv

LEMMA OrderDispatch ==
  ~ManagerWired /\ OrderInv /\ ApprovingInv' /\ (NextWave \/ Dispatch) => OrderInv'
<1> SUFFICES ASSUME ~ManagerWired, OrderInv, ApprovingInv', NextWave \/ Dispatch
             PROVE  OrderInv'
  OBVIOUS
<1>0. /\ queue = {} /\ \A s \in Story : status[s] = "in_progress" => s \in worktree
      /\ TypeOK /\ TrackingInv
      /\ status \in [Story -> StoryStatus]
  BY DEF OrderInv, ApprovingInv, MergedInv, TrackingInv, TypeOK
<1>1. CASE NextWave
  BY <1>0, <1>1, OrderFrame
  DEF NextWave, NextWavePaused, NextWaveAllDone, NextWaveReady, store, Engaged,
      CompleteStories, Created
<1>2. ASSUME NEW wave \in SUBSET Story, NEW slotFor \in [wave -> Slot],
             DispatchWave(wave, slotFor)
      PROVE  OrderInv'
  <2>1. \A s \in Story : stage[s] = "idle" /\ stage'[s] = "idle"
    BY <1>0, <1>2 DEF DispatchWave, TrackingInv, PipelinesOnlyInTrack
  <2>2. \A s \in wave : /\ status[s] = "draft"
                        /\ \A d \in Deps[s] : IsStoryComplete(status[d])
    BY <1>2 DEF DispatchWave, OrderInv, CompleteStories, ReadyNodes, StoryDispatchable
  <2>3. \A s \in Story : status'[s] = IF s \in wave THEN "assigned" ELSE status[s]
    BY <1>2, ProjectValues DEF DispatchWave
  <2>4. \A d \in Story : IsStoryComplete(status[d]) => IsStoryComplete(status'[d])
    BY <2>2, <2>3 DEF IsStoryComplete
  <2>5. \A s \in Story : s \notin wave /\ Engaged(s)' => Engaged(s)
    BY <1>2, <2>1, <2>3 DEF Engaged, DispatchWave
  <2>6. \A s \in Story : Engaged(s)' => DepsSettled(s)'
    BY <2>1, <2>2, <2>4, <2>5, DepsAssumption DEF OrderInv, DepsSettled
  <2> QED BY <1>0, <1>2, <2>3, <2>6 DEF OrderInv, DispatchWave
<1>3. CASE NothingToDispatch
  BY <1>0, <1>3, OrderFrame DEF NothingToDispatch, store, Engaged
<1>4. ASSUME NEW s \in Story, Spawn(s) PROVE OrderInv'
  <2>1. status[s] = "assigned"
    BY <1>4 DEF Spawn, OrderInv, ApprovingInv, MergedInv, HandedOutIsUnfinished
  <2>2. /\ status'[s] = "in_progress" /\ s \in worktree'
        /\ \A t \in Story : t # s => status'[t] = status[t]
        /\ worktree \subseteq worktree' /\ UNCHANGED <<queue, run, stage>>
    BY <1>0, <1>4, <2>1, ProjectValues DEF Spawn, Emit, IsStoryComplete
  <2>3. \A t \in Story, x \in Slot : active'[x] = t => active[x] = t \/ t = s
    BY <1>0, <1>4 DEF Spawn, TypeOK
  <2>4. \A t \in Story : Engaged(t)' => Engaged(t)
    BY <2>1, <2>2, <2>3 DEF Engaged
  <2>5. ~IsStoryComplete(status[s]) /\ run' # "dispatch"
    BY <1>4, <2>1 DEF Spawn, IsStoryComplete
  <2> QED BY <1>0, <2>2, <2>4, <2>5, OrderFrame
<1>5. ASSUME NEW s \in Story, SpawnFails(s) PROVE OrderInv'
  BY <1>0, <1>5, OrderFrame DEF SpawnFails, store, Engaged
<1>6. CASE SpawnDone
  BY <1>0, <1>6, OrderFrame DEF SpawnDone, store, Engaged
<1> QED BY <1>1, <1>2, <1>3, <1>4, <1>5, <1>6 DEF Dispatch

LEMMA OrderOperator ==
  {"retry", "reject"} \cap Commands = {} /\ OrderInv /\ ApprovingInv' /\ Operator
    => OrderInv'
<1> SUFFICES ASSUME {"retry", "reject"} \cap Commands = {}, OrderInv, ApprovingInv', Operator
             PROVE  OrderInv'
  OBVIOUS
<1>1. CASE PauseCommand
  BY <1>1, OrderFrame DEF PauseCommand, process, OrderInv, Engaged, CompleteStories, Created
<1>2. ASSUME NEW s \in Story, ApproveCommand(s) PROVE OrderInv'
  <2>1. /\ \A t \in Story : status'[t] = status[t] \/ (t = s /\ status'[t] = "merged")
        /\ UNCHANGED <<process, worktree>>
    BY <1>2, ApproveEffect DEF OrderInv
  <2>2. CompleteStories \subseteq CompleteStories'
    BY <2>1 DEF CompleteStories, Created, IsStoryComplete
  <2>3. /\ UNCHANGED <<run, done, queue, stage, active, worktree>>
        /\ \A t \in Story : Engaged(t)' => Engaged(t)
        /\ \A t \in Story : IsStoryComplete(status[t]) => IsStoryComplete(status'[t])
        /\ \A t \in Story : status'[t] = "in_progress" => status[t] = "in_progress"
    BY <2>1 DEF process, Engaged, IsStoryComplete
  <2> QED BY <2>2, <2>3, OrderFrame DEF OrderInv
<1> QED BY <1>1, <1>2 DEF Operator, RejectCommand, RetryCommand

LEMMA OrderStep ==
  /\ ~ManagerWired /\ {"retry", "reject"} \cap Commands = {}
  /\ OrderInv /\ [Next]_vars
  => OrderInv'
<1> SUFFICES ASSUME ~ManagerWired, {"retry", "reject"} \cap Commands = {}, OrderInv, [Next]_vars
             PROVE  OrderInv'
  OBVIOUS
<1>0. ApprovingInv'
  BY NoAnswerTakenBack, ApprovingStep DEF OrderInv
<1>1. CASE Agents
  BY <1>0, <1>1, OrderFrame
  DEF Agents, AgentIdle, AgentExit, store, process, OrderInv, Engaged, CompleteStories, Created
<1>2. CASE Crash
  BY <1>0, <1>2, OrderFrame, StoryAssumption DEF Crash, store, OrderInv, Engaged
<1>3. CASE UNCHANGED vars
  BY <1>0, <1>3, OrderFrame
  DEF vars, store, process, OrderInv, Engaged, CompleteStories, Created
<1>4. CASE Monitor
  <2>1. \A s \in Story : ~Intercept(s)
    BY DEF OrderInv, Intercept, PassOver, ManagerResets, InterceptionPauses, ManagerRetries,
           ManagerRewrites, ManagerEscalates, StorySplit, Handled
  <2>2. CASE GateVerdict
    BY <1>0, <2>2, OrderFrame DEF GateVerdict, OrderInv, Engaged
  <2> QED BY <1>0, <1>4, <2>1, <2>2, OrderPoll, OrderPipeline, OrderDispatch DEF Monitor
<1> QED BY <1>0, <1>1, <1>2, <1>3, <1>4, OrderResume, OrderOperator DEF Next

LEMMA OrderInvariant ==
  ASSUME ~ManagerWired, {"retry", "reject"} \cap Commands = {}
  PROVE  Spec => []OrderInv
<1>1. Init => OrderInv
  BY TrackingInit, StoryAssumption
  DEF Init, OrderInv, ApprovingInv, MergedInv, StageFits, MergedIsBehind, HandedOutIsUnfinished, Engaged,
      ApprovalFits
<1>2. OrderInv /\ [Next]_vars => OrderInv'
  BY OrderStep
<1> QED BY <1>1, <1>2, PTL DEF Spec

(* Without a manager, and as long as the operator neither retries nor      *)
(* rejects: no story is handed out, worked on or in its pipeline while     *)
(* something it depends on is not complete, although a failed merge makes  *)
(* a complete story incomplete again, and across crashes and resumes.      *)
THEOREM InOrder ==
  ASSUME ~ManagerWired, {"retry", "reject"} \cap Commands = {}
  PROVE  Spec => []DependenciesFirst
<1>1. OrderInv => DependenciesFirst
  BY DEF OrderInv, DependenciesFirst, Engaged, DepsSettled
<1> QED BY <1>1, OrderInvariant, PTL

(* --- what is kept, with or without a manager ---------------------------------- *)

(* A step that queues nothing it has not seen, forgets no story and takes  *)
(* no worktree of an agent.                                                *)
LEMMA KeptFrame ==
  ASSUME WorkIsKept, ApprovingInv', queue' \subseteq queue,
         \A s \in Story : status'[s] \in {"none", "approved"} => status'[s] = status[s],
         \A s \in Story : status'[s] = "in_progress" => s \in worktree'
  PROVE  WorkIsKept'
BY DEF WorkIsKept, ApprovingInv, MergedInv, TrackingInv, TypeOK

LEMMA KeptStill ==
  ASSUME WorkIsKept, ApprovingInv', queue' \subseteq queue, status' = status,
         worktree \subseteq worktree'
  PROVE  WorkIsKept'
BY KeptFrame DEF WorkIsKept

(* What an interception does to the stories.                               *)
LEMMA InterceptEffect ==
  ASSUME WorkIsKept, NEW s \in Story, Intercept(s)
  PROVE  /\ run = "dispatch" /\ s \in queue /\ queue' \subseteq queue
         /\ status[s] # "none" /\ ~IsStoryComplete(status[s])
         /\ \A t \in Story : stage[t] = "idle" /\ stage'[t] = "idle"
         /\ \/ status' = status /\ worktree' = worktree
            \/ /\ status' = [status EXCEPT ![s] = "draft"]
               /\ worktree \ {s} \subseteq worktree'
            \/ /\ Children[s] # {} /\ \A c \in Children[s] : status[c] = "none"
               /\ status' = [c \in Story |-> IF c \in Children[s] THEN "draft"
                                             ELSE IF c = s THEN "split" ELSE status[c]]
               /\ worktree' = worktree
<1>0. /\ TypeOK /\ status \in [Story -> StoryStatus]
      /\ run # "track" => \A t \in Story : stage[t] = "idle"
  BY DEF WorkIsKept, ApprovingInv, MergedInv, TrackingInv, TypeOK, PipelinesOnlyInTrack
<1>1. run = "dispatch" /\ s \in queue /\ queue' \subseteq queue /\ stage' = stage
  BY DEF Intercept, PassOver, ManagerResets, InterceptionPauses, ManagerRetries,
         ManagerRewrites, ManagerEscalates, StorySplit, Handled
<1>2. status[s] # "none" /\ ~IsStoryComplete(status[s])
  BY <1>1 DEF WorkIsKept, ApprovingInv, MergedInv, HandedOutIsUnfinished
<1>3. CASE PassOver(s) \/ InterceptionPauses(s) \/ ManagerEscalates(s)
  BY <1>0, <1>1, <1>2, <1>3 DEF PassOver, InterceptionPauses, ManagerEscalates, store
<1>4. CASE ManagerResets(s)
  BY <1>0, <1>1, <1>2, <1>4, ResetEffect DEF ManagerResets
<1>5. ASSUME NEW r \in 0..3, ManagerRetries(s, r)
      PROVE  /\ status' = [status EXCEPT ![s] = "draft"]
             /\ worktree \ {s} \subseteq worktree'
  <2>1. /\ status' = [status EXCEPT ![s] = Project("STORY_REVIEW_FAILED", @)]
        /\ worktree' \in {worktree, worktree \ {s}}
    BY <1>5 DEF ManagerRetries, Emit
  <2>2. Project("STORY_REVIEW_FAILED", status[s]) = "draft"
    BY ProjectValues
  <2> QED BY <2>1, <2>2
<1>6. CASE ManagerRewrites(s)
  <2>1. /\ status' = [status EXCEPT ![s] = Project("STORY_REWRITTEN", @)]
        /\ worktree' = worktree
    BY <1>6 DEF ManagerRewrites, Emit
  <2>2. Project("STORY_REWRITTEN", status[s]) = "draft"
    BY ProjectValues
  <2>3. status' = [status EXCEPT ![s] = "draft"]
    BY <2>1, <2>2
  <2> QED BY <1>0, <1>1, <1>2, <2>1, <2>3
<1>7. CASE StorySplit(s)
  <2>1. /\ Children[s] # {} /\ \A c \in Children[s] : status[c] = "none"
        /\ worktree' = worktree
        /\ status' = [c \in Story |->
                        IF c \in Children[s] THEN Project("STORY_CREATED", status[c])
                        ELSE IF c = s THEN Project("STORY_SPLIT", status[c])
                        ELSE status[c]]
    BY <1>7 DEF StorySplit
  <2>2. status' = [c \in Story |-> IF c \in Children[s] THEN "draft"
                                  ELSE IF c = s THEN "split" ELSE status[c]]
    BY <2>1, ProjectValues
  <2> QED BY <1>0, <1>1, <1>2, <2>1, <2>2
<1> QED BY <1>0, <1>1, <1>2, <1>3, <1>4, <1>5, <1>6, <1>7 DEF Intercept

LEMMA KeptResume == WorkIsKept /\ ApprovingInv' /\ Resume => WorkIsKept'
<1> SUFFICES ASSUME WorkIsKept, ApprovingInv', Resume PROVE WorkIsKept'
  OBVIOUS
<1>0. /\ status \in [Story -> StoryStatus]
      /\ \A s \in Story : status[s] = "in_progress" => s \in worktree
  BY DEF WorkIsKept, ApprovingInv, MergedInv, TrackingInv, TypeOK
<1>1. status' = status
  BY <1>0, NothingLost
  DEF Resume, ResumeNotComposed, ResumeGateOnly, ResumeRecover, ResumeDispatch
<1>2. queue' = queue /\ worktree' = worktree
  BY DEF Resume, ResumeNotComposed, ResumeGateOnly, ResumeRecover, ResumeDispatch, process
<1> QED BY <1>1, <1>2, KeptStill

LEMMA KeptDispatch == WorkIsKept /\ ApprovingInv' /\ Dispatch => WorkIsKept'
<1> SUFFICES ASSUME WorkIsKept, ApprovingInv', Dispatch PROVE WorkIsKept'
  OBVIOUS
<1>0. /\ status \in [Story -> StoryStatus] /\ HandedOutIsUnfinished
      /\ \A s \in Story : status[s] = "in_progress" => s \in worktree
  BY DEF WorkIsKept, ApprovingInv, MergedInv, TrackingInv, TypeOK
<1>1. ASSUME NEW wave \in SUBSET Story, NEW slotFor \in [wave -> Slot],
             DispatchWave(wave, slotFor)
      PROVE  WorkIsKept'
  <2>1. \A s \in Story : status'[s] = IF s \in wave THEN "assigned" ELSE status[s]
    BY <1>1, ProjectValues DEF DispatchWave
  <2>2. queue' = queue /\ worktree' = worktree
    BY <1>1 DEF DispatchWave
  <2> QED BY <1>0, <2>1, <2>2, KeptFrame
<1>2. ASSUME NEW s \in Story, Spawn(s) PROVE WorkIsKept'
  <2>1. /\ status'[s] = "in_progress" /\ worktree' = worktree \cup {s} /\ queue' = queue
        /\ \A t \in Story : t # s => status'[t] = status[t]
    BY <1>0, <1>2, ProjectValues DEF Spawn, Emit, HandedOutIsUnfinished, IsStoryComplete
  <2> QED BY <1>0, <2>1, KeptFrame
<1>3. CASE NothingToDispatch \/ SpawnDone \/ \E s \in Story : SpawnFails(s)
  <2>1. status' = status /\ queue' = queue /\ worktree \subseteq worktree'
    BY <1>3 DEF NothingToDispatch, SpawnDone, SpawnFails, store
  <2> QED BY <2>1, KeptStill
<1> QED BY <1>1, <1>2, <1>3 DEF Dispatch

LEMMA KeptStep ==
  ASSUME AnswersStand, WorkIsKept, [Next]_vars
  PROVE  WorkIsKept'
<1>0. /\ ApprovingInv /\ ApprovingInv' /\ MergedInv
      /\ status \in [Story -> StoryStatus]
      /\ \A s \in Story : status[s] = "in_progress" => s \in worktree
  BY ApprovingStep DEF WorkIsKept, ApprovingInv, MergedInv, TrackingInv, TypeOK
<1>1. ASSUME NEW sl \in Slot, PollFinished(sl) \/ SLABreach(sl) PROVE WorkIsKept'
  <2>1. \A s \in Story : status'[s] \in {status[s], "review", "draft"}
    BY <1>0, <1>1, ProjectValues DEF PollFinished, SLABreach, Emit
  <2>2. queue' = queue /\ worktree' = worktree
    BY <1>1 DEF PollFinished, SLABreach, process
  <2> QED BY <1>0, <2>1, <2>2, KeptFrame
<1>2. ASSUME NEW s \in Story, Pipeline(s) PROVE WorkIsKept'
  BY <1>0, <1>2, PipelineLocal, KeptFrame
<1>3. ASSUME NEW s \in Story, Intercept(s) PROVE WorkIsKept'
  BY <1>0, <1>3, InterceptEffect, KeptFrame
<1>4. CASE NextWave
  <2>1. /\ status' = status /\ worktree' = worktree
        /\ \A s \in queue' : s \in queue \/ status[s] # "none"
    BY <1>4 DEF NextWave, NextWavePaused, NextWaveAllDone, NextWaveReady, ReadyNodes,
                Created, store
  <2> QED BY <1>0, <2>1 DEF WorkIsKept
<1>5. CASE GateVerdict
  BY <1>0, <1>5, KeptStill DEF GateVerdict
<1>6. CASE Agents \/ Crash \/ UNCHANGED vars
  <2>1. status' = status /\ worktree' = worktree /\ queue' \subseteq queue
    BY <1>6 DEF Agents, AgentIdle, AgentExit, Crash, vars, store, process
  <2> QED BY <1>0, <2>1, KeptStill
<1>7. CASE PauseCommand
  BY <1>0, <1>7, KeptStill DEF PauseCommand, process
<1>8. ASSUME NEW s \in Story, ApproveCommand(s) PROVE WorkIsKept'
  <2>1. /\ \A t \in Story : status'[t] \in {status[t], "merged"}
        /\ queue' = queue /\ worktree' = worktree
    BY <1>0, <1>8, ApproveEffect DEF process
  <2> QED BY <1>0, <2>1, KeptFrame
<1>9. ASSUME NEW s \in Story, RejectCommand(s) PROVE WorkIsKept'
  <2>1. /\ \A t \in Story : status'[t] \in {status[t], "draft"}
        /\ queue' = queue /\ worktree' = worktree
    BY <1>0, <1>9, ProjectValues DEF RejectCommand, Emit, process
  <2> QED BY <1>0, <2>1, KeptFrame
<1> QED BY <1>0, <1>1, <1>2, <1>3, <1>4, <1>5, <1>6, <1>7, <1>8, <1>9, KeptResume,
           KeptDispatch DEF Next, Monitor, Operator, RetryCommand, AnswersStand

LEMMA KeptInvariant ==
  ASSUME AnswersStand
  PROVE  Spec => []WorkIsKept
<1>1. Init => WorkIsKept
  BY TrackingInit
  DEF Init, WorkIsKept, ApprovingInv, MergedInv, StageFits, MergedIsBehind,
      HandedOutIsUnfinished, ApprovalFits
<1>2. WorkIsKept /\ [Next]_vars => WorkIsKept'
  BY KeptStep
<1> QED BY <1>1, <1>2, PTL DEF Spec

(* --- the promise: initial states map to initial states, steps to steps ------ *)

(* The promise without the order first: in that every configuration keeps  *)
(* it, manager or not.  The order is what OrderInv adds to it.             *)


PhaseMap == [s \in Story |-> PhaseOf(s)]
VerdictMap == IF reqStatus \in {"completed", "blocked"} THEN reqStatus ELSE "open"

(* A step of the promise, or none.                                         *)
Promised == Unordered!Next \/ UNCHANGED <<PhaseMap, VerdictMap>>

(* What every step is taken from.                                          *)
PromiseInv == WorkIsKept /\ VerdictInv

LEMMA PhaseValue ==
  \A s \in Story :
    PhaseOf(s) = IF status[s] = "none" THEN "absent"
                 ELSE IF status[s] = "draft" THEN "waiting"
                 ELSE IF IsStoryComplete(status[s]) /\ stage[s] = "idle" THEN "done"
                 ELSE "working"
BY Zenon DEF PhaseOf, IsStoryComplete

(* The same of the state after a step.                                     *)
LEMMA PhaseValueNext ==
  \A s \in Story :
    PhaseOf(s)' = IF status'[s] = "none" THEN "absent"
                  ELSE IF status'[s] = "draft" THEN "waiting"
                  ELSE IF IsStoryComplete(status'[s]) /\ stage'[s] = "idle" THEN "done"
                  ELSE "working"
BY Zenon DEF PhaseOf, IsStoryComplete

LEMMA PromisedStutter ==
  ASSUME \A s \in Story : PhaseOf(s)' = PhaseOf(s), VerdictMap' = VerdictMap
  PROVE  Promised
BY DEF Promised, PhaseMap

(* One story's work ends, or goes on.                                      *)
LEMMA PromisedEnd ==
  ASSUME NEW s \in Story, PhaseOf(s) = "working",
         PhaseOf(s)' \in {"waiting", "working", "done"},
         \A t \in Story : t # s => PhaseOf(t)' = PhaseOf(t), VerdictMap' = VerdictMap
  PROVE  Promised
<1>1. CASE PhaseOf(s)' = "working"
  BY <1>1, PromisedStutter
<1>2. CASE PhaseOf(s)' = "waiting"
  <2>1. PhaseMap' = [PhaseMap EXCEPT ![s] = "waiting"]
    BY <1>2 DEF PhaseMap
  <2>2. Unordered!Return(s)
    BY <2>1 DEF Unordered!Return, PhaseMap, VerdictMap
  <2> QED BY <2>2 DEF Promised, Unordered!Next
<1>3. CASE PhaseOf(s)' = "done"
  <2>1. PhaseMap' = [t \in Story |-> IF t \in {s} THEN "done" ELSE PhaseMap[t]]
    BY <1>3 DEF PhaseMap
  <2>2. Unordered!Deliver({s})
    BY <2>1 DEF Unordered!Deliver, PhaseMap, VerdictMap
  <2> QED BY <2>2 DEF Promised, Unordered!Next
<1> QED BY <1>1, <1>2, <1>3

LEMMA PromisedBegin ==
  ASSUME NEW wave \in SUBSET Story, VerdictMap = "open", VerdictMap' = VerdictMap,
         \A s \in wave : PhaseOf(s) = "waiting" /\ PhaseOf(s)' = "working",
         \A s \in Story \ wave : PhaseOf(s)' = PhaseOf(s)
  PROVE  Promised
<1>1. PhaseMap' = [s \in Story |-> IF s \in wave THEN "working" ELSE PhaseMap[s]]
  BY DEF PhaseMap
<1>2. Unordered!Begin(wave)
  BY <1>1 DEF Unordered!Begin, PhaseMap, VerdictMap
<1> QED BY <1>2 DEF Promised, Unordered!Next

LEMMA PromisedReopen ==
  ASSUME \A s \in Story : PhaseOf(s)' = PhaseOf(s),
         VerdictMap = "blocked", VerdictMap' = "open"
  PROVE  Promised
BY DEF Promised, Unordered!Next, Unordered!Reopen, PhaseMap, VerdictMap

(* --- the steps -------------------------------------------------------------- *)

LEMMA OpenAtWork ==
  PromiseInv /\ run # "down" => VerdictMap = "open"
BY DEF PromiseInv, VerdictInv, VerdictMap

LEMMA PromisedResume == PromiseInv /\ Resume => Promised
<1> SUFFICES ASSUME PromiseInv, Resume PROVE Promised
  OBVIOUS
<1>0. /\ status \in [Story -> StoryStatus]
      /\ \A s \in Story : status[s] = "in_progress" => s \in worktree
  BY DEF PromiseInv, WorkIsKept, ApprovingInv, MergedInv, TrackingInv, TypeOK
<1>1. UNCHANGED <<status, stage>>
  BY <1>0, NothingLost DEF Resume, ResumeNotComposed, ResumeGateOnly, ResumeRecover,
                           ResumeDispatch, process
<1>2. \A s \in Story : PhaseOf(s)' = PhaseOf(s)
  BY <1>1, PhaseValue, PhaseValueNext
<1>3. CASE reqStatus = "blocked" /\ ResumeGateOnly
  BY <1>2, <1>3, PromisedReopen DEF ResumeGateOnly, VerdictMap
<1>4. CASE ~(reqStatus = "blocked" /\ ResumeGateOnly)
  <2>1. VerdictMap' = VerdictMap
    BY <1>4 DEF Resume, ResumeNotComposed, ResumeGateOnly, ResumeRecover, ResumeDispatch,
                Unpaused, VerdictMap
  <2> QED BY <1>2, <2>1, PromisedStutter
<1> QED BY <1>3, <1>4

(* A story put back to draft by the SLA while its agent was tracked is     *)
(* begun a second time.                                                    *)
LEMMA PromisedPoll ==
  \A sl \in Slot : PromiseInv /\ (PollFinished(sl) \/ SLABreach(sl)) => Promised
<1> SUFFICES ASSUME NEW sl \in Slot, PromiseInv, PollFinished(sl) \/ SLABreach(sl)
             PROVE  Promised
  OBVIOUS
<1>0. PICK s \in Story : s = active[sl]
  BY DEF PollFinished, SLABreach, PromiseInv, WorkIsKept, ApprovingInv, MergedInv,
         TrackingInv, TypeOK, StoryOrNone
<1>1. /\ s \in Story /\ run = "track" /\ stage[s] = "idle"
      /\ status[s] \in {"draft", "in_progress", "review", "qa"}
      /\ status \in [Story -> StoryStatus] /\ stage \in [Story -> Stage]
  BY <1>0 DEF PollFinished, SLABreach, PromiseInv, WorkIsKept, ApprovingInv, MergedInv,
         TrackingInv, TypeOK, StoryOrNone, HandedOutIsUnfinished, TrackedOnce
<1>2. \A t \in Story : t # s => status'[t] = status[t] /\ stage'[t] = stage[t]
  BY <1>0, <1>1 DEF PollFinished, SLABreach, Emit, process
<1>3. \A t \in Story : t # s => PhaseOf(t)' = PhaseOf(t)
  BY <1>2, PhaseValue, PhaseValueNext
<1>4. VerdictMap = "open" /\ VerdictMap' = VerdictMap
  BY <1>1, OpenAtWork DEF PollFinished, SLABreach, VerdictMap
<1>5. PhaseOf(s) = IF status[s] = "draft" THEN "waiting" ELSE "working"
  BY <1>1, PhaseValue DEF IsStoryComplete
<1>6. CASE PollFinished(sl)
  <2>1. status'[s] = "review" /\ stage'[s] = "review"
    BY <1>0, <1>1, <1>6, ProjectValues DEF PollFinished, Emit
  <2>2. PhaseOf(s)' = "working"
    BY <1>1, <2>1, PhaseValueNext DEF IsStoryComplete
  <2>3. CASE status[s] = "draft"
    <3>2. {s} \in SUBSET Story
      BY <1>1
    <3>3. \A t \in {s} : PhaseOf(t) = "waiting" /\ PhaseOf(t)' = "working"
      BY <1>5, <2>2, <2>3
    <3>4. \A t \in Story \ {s} : PhaseOf(t)' = PhaseOf(t)
      BY <1>3
    <3> QED BY <1>4, <3>2, <3>3, <3>4, PromisedBegin
  <2>4. CASE status[s] # "draft"
    BY <1>1, <1>3, <1>4, <1>5, <2>2, <2>4, PromisedEnd
  <2> QED BY <2>3, <2>4
<1>7. CASE SLABreach(sl)
  <2>1. PhaseOf(s)' = "waiting"
    BY <1>0, <1>1, <1>7, ProjectValues, PhaseValueNext DEF SLABreach, Emit
  <2> QED BY <1>0, <1>3, <1>4, <1>5, <1>7, <2>1, PromisedEnd DEF SLABreach
<1> QED BY <1>6, <1>7

LEMMA PromisedPipeline == \A s \in Story : PromiseInv /\ Pipeline(s) => Promised
<1> SUFFICES ASSUME NEW s \in Story, PromiseInv, Pipeline(s) PROVE Promised
  OBVIOUS
<1>1. /\ stage[s] # "idle" /\ run = "track"
      /\ \A t \in Story : t # s => status'[t] = status[t] /\ stage'[t] = stage[t]
      /\ status[s] \notin {"none", "draft"} /\ status'[s] # "none"
  BY PipelineLocal DEF PromiseInv, WorkIsKept, ApprovingInv
<1>2. PhaseOf(s) = "working" /\ PhaseOf(s)' \in {"waiting", "working", "done"}
  BY <1>1, PhaseValue, PhaseValueNext
<1>3. \A t \in Story : t # s => PhaseOf(t)' = PhaseOf(t)
  BY <1>1, PhaseValue, PhaseValueNext
<1>4. VerdictMap' = VerdictMap
  BY <1>1, OpenAtWork, PipelineRequirement
  DEF PromiseInv, VerdictInv, VerdictMap
<1> QED BY <1>2, <1>3, <1>4, PromisedEnd

LEMMA PromisedDispatch == PromiseInv /\ Dispatch => Promised
<1> SUFFICES ASSUME PromiseInv, Dispatch PROVE Promised
  OBVIOUS
<1>0. /\ HandedOutIsUnfinished /\ TrackingInv
      /\ status \in [Story -> StoryStatus] /\ stage \in [Story -> Stage]
  BY DEF PromiseInv, WorkIsKept, ApprovingInv, MergedInv, TrackingInv, TypeOK
<1>1. ASSUME NEW wave \in SUBSET Story, NEW slotFor \in [wave -> Slot],
             DispatchWave(wave, slotFor)
      PROVE  Promised
  <2>1. run = "dispatch" /\ \A s \in Story : stage[s] = "idle" /\ stage'[s] = "idle"
    BY <1>0, <1>1 DEF DispatchWave, TrackingInv, PipelinesOnlyInTrack
  <2>2. \A s \in wave : status[s] = "draft"
    BY <1>1 DEF DispatchWave, StoryDispatchable
  <2>3. \A s \in Story : status'[s] = IF s \in wave THEN "assigned" ELSE status[s]
    BY <1>1, ProjectValues DEF DispatchWave
  <2>4. \A s \in wave : PhaseOf(s) = "waiting" /\ PhaseOf(s)' = "working"
    BY <2>1, <2>2, <2>3, PhaseValue, PhaseValueNext DEF IsStoryComplete
  <2>5. \A s \in Story \ wave : PhaseOf(s)' = PhaseOf(s)
    BY <2>1, <2>3, PhaseValue, PhaseValueNext
  <2>6. VerdictMap = "open" /\ VerdictMap' = VerdictMap
    BY <1>1, <2>1, OpenAtWork DEF DispatchWave, VerdictMap
  <2> QED BY <2>4, <2>5, <2>6, PromisedBegin
<1>2. ASSUME NEW s \in Story, Spawn(s) PROVE Promised
  <2>1. /\ status[s] = "assigned" /\ status'[s] = "in_progress"
        /\ UNCHANGED <<stage, reqStatus>>
    BY <1>0, <1>2, ProjectValues
    DEF Spawn, Emit, HandedOutIsUnfinished, IsStoryComplete
  <2>2. \A t \in Story : t # s => status'[t] = status[t]
    BY <1>0, <1>2 DEF Spawn, Emit
  <2> QED BY <2>1, <2>2, PhaseValue, PhaseValueNext, PromisedStutter
          DEF IsStoryComplete, VerdictMap
<1>3. ASSUME UNCHANGED <<status, stage, reqStatus>> PROVE Promised
  BY <1>3, PhaseValue, PhaseValueNext, PromisedStutter DEF VerdictMap
<1> QED BY <1>1, <1>2, <1>3 DEF Dispatch, NothingToDispatch, SpawnFails, SpawnDone, store

(* A story looked at before the wave goes on as it is, goes back to        *)
(* waiting, or is given up for the parts it is split into.                 *)
LEMMA PromisedIntercept == \A s \in Story : PromiseInv /\ Intercept(s) => Promised
<1> SUFFICES ASSUME NEW s \in Story, PromiseInv, Intercept(s) PROVE Promised
  OBVIOUS
<1>0. WorkIsKept /\ status \in [Story -> StoryStatus]
  BY DEF PromiseInv, WorkIsKept, ApprovingInv, MergedInv, TrackingInv, TypeOK
<1>1. /\ run = "dispatch" /\ status[s] # "none" /\ ~IsStoryComplete(status[s])
      /\ \A t \in Story : stage[t] = "idle" /\ stage'[t] = "idle"
  BY <1>0, InterceptEffect
<1>2. VerdictMap' = VerdictMap
  BY <1>1, OpenAtWork, InterceptRequirement DEF PromiseInv, VerdictInv, VerdictMap
<1>3. PhaseOf(s) = IF status[s] = "draft" THEN "waiting" ELSE "working"
  BY <1>1, PhaseValue
<1>4. CASE status' = status
  <2>1. \A t \in Story : PhaseOf(t)' = PhaseOf(t)
    BY <1>1, <1>4, PhaseValue, PhaseValueNext
  <2> QED BY <1>2, <2>1, PromisedStutter
<1>5. CASE status' = [status EXCEPT ![s] = "draft"]
  <2>1. PhaseOf(s)' = "waiting"
    BY <1>0, <1>5, PhaseValueNext
  <2>2. \A t \in Story : t # s => PhaseOf(t)' = PhaseOf(t)
    BY <1>0, <1>1, <1>5, PhaseValue, PhaseValueNext
  <2>3. CASE status[s] = "draft"
    BY <1>2, <1>3, <2>1, <2>2, <2>3, PromisedStutter
  <2> QED BY <1>2, <1>3, <2>1, <2>2, <2>3, PromisedEnd
<1>6. CASE /\ Children[s] # {} /\ \A c \in Children[s] : status[c] = "none"
           /\ status' = [c \in Story |-> IF c \in Children[s] THEN "draft"
                                         ELSE IF c = s THEN "split" ELSE status[c]]
  <2>1. s \notin Children[s] /\ Children[s] \in SUBSET Story
    BY <1>1, <1>6, ChildrenAssumption
  <2>2. \A c \in Children[s] : PhaseOf(c) = "absent" /\ PhaseOf(c)' = "waiting"
    BY <1>6, <2>1, PhaseValue, PhaseValueNext
  <2>3. PhaseOf(s)' = "done"
    BY <1>1, <1>6, <2>1, PhaseValueNext DEF IsStoryComplete
  <2>4. \A t \in Story : t # s /\ t \notin Children[s] => PhaseOf(t)' = PhaseOf(t)
    BY <1>1, <1>6, PhaseValue, PhaseValueNext
  <2>5. PhaseMap' = [t \in Story |-> IF t = s THEN "done"
                                    ELSE IF t \in Children[s] THEN "waiting"
                                    ELSE PhaseMap[t]]
    BY <2>1, <2>2, <2>3, <2>4 DEF PhaseMap
  <2>6. /\ PhaseMap[s] \in {"waiting", "working"}
        /\ \A c \in Children[s] : PhaseMap[c] = "absent"
    BY <1>3, <2>1, <2>2 DEF PhaseMap
  <2>7. Unordered!Split(s, Children[s])
    BY <1>2, <1>6, <2>5, <2>6 DEF Unordered!Split, PhaseMap, VerdictMap
  <2> QED BY <2>1, <2>7 DEF Promised, Unordered!Next
<1> QED BY <1>0, <1>4, <1>5, <1>6, InterceptEffect

LEMMA PromisedVerdict == PromiseInv /\ GateVerdict => Promised
<1> SUFFICES ASSUME PromiseInv, GateVerdict PROVE Promised
  OBVIOUS
<1>1. /\ run = "gate" /\ UNCHANGED <<status, stage>>
      /\ reqStatus' \in {"completed", "blocked"}
  BY DEF GateVerdict
<1>2. \A s \in Story : /\ status[s] = "none" \/ IsStoryComplete(status[s])
                       /\ stage[s] = "idle"
  BY <1>1, AllCompleteMeans DEF PromiseInv, VerdictInv, TrackingInv, PipelinesOnlyInTrack
<1>3. \A s \in Story : PhaseOf(s) \in {"absent", "done"} /\ PhaseOf(s)' = PhaseOf(s)
  BY <1>1, <1>2, PhaseValue, PhaseValueNext DEF IsStoryComplete
<1>4. VerdictMap = "open" /\ VerdictMap' \in {"completed", "blocked"}
  BY <1>1, OpenAtWork DEF VerdictMap
<1>5. Unordered!AllDone
  BY <1>3 DEF Unordered!AllDone
<1>6. PhaseMap' = PhaseMap
  BY <1>3 DEF PhaseMap
<1>7. Unordered!Judge
  BY <1>4, <1>5, <1>6 DEF Unordered!Judge, PhaseMap, VerdictMap
<1> QED BY <1>7 DEF Promised, Unordered!Next

(* The crash cuts off pipelines whose stories already count as complete.   *)
LEMMA PromisedCrash == PromiseInv /\ Crash => Promised
<1> SUFFICES ASSUME PromiseInv, Crash PROVE Promised
  OBVIOUS
<1> DEFINE cut == {s \in Story : IsStoryComplete(status[s]) /\ stage[s] # "idle"}
<1>1. /\ UNCHANGED <<status, reqStatus>>
      /\ \A s \in Story : stage'[s] = "idle"
  BY DEF Crash, store
<1>2. \A s \in cut : PhaseOf(s) = "working" /\ PhaseOf(s)' = "done"
  BY <1>1, PhaseValue, PhaseValueNext DEF IsStoryComplete
<1>3. \A s \in Story \ cut : PhaseOf(s)' = PhaseOf(s)
  BY <1>1, PhaseValue, PhaseValueNext
<1>4. PhaseMap' = [s \in Story |-> IF s \in cut THEN "done" ELSE PhaseMap[s]]
  BY <1>2, <1>3 DEF PhaseMap
<1>5. VerdictMap' = VerdictMap
  BY <1>1 DEF VerdictMap
<1>6. Unordered!Deliver(cut)
  BY <1>2, <1>4, <1>5 DEF Unordered!Deliver, PhaseMap, VerdictMap
<1> QED BY <1>6 DEF Promised, Unordered!Next

LEMMA PromisedOperator ==
  {"retry", "reject"} \cap Commands = {} /\ PromiseInv /\ Operator => Promised
<1> SUFFICES ASSUME {"retry", "reject"} \cap Commands = {}, PromiseInv, Operator
             PROVE  Promised
  OBVIOUS
<1>1. CASE PauseCommand
  <2>1. \A s \in Story : PhaseOf(s)' = PhaseOf(s)
    BY <1>1, PhaseValue, PhaseValueNext DEF PauseCommand, process
  <2>2. CASE reqStatus = "blocked"
    BY <1>1, <2>1, <2>2, PromisedReopen DEF PauseCommand, PauseRequirement, VerdictMap
  <2>3. CASE reqStatus # "blocked"
    BY <1>1, <2>1, <2>3, PromisedStutter DEF PauseCommand, PauseRequirement, VerdictMap
  <2> QED BY <2>2, <2>3
<1>2. ASSUME NEW s \in Story, ApproveCommand(s) PROVE Promised
  <2>1. /\ \A t \in Story : t # s => status'[t] = status[t]
        /\ IsStoryComplete(status[s]) /\ IsStoryComplete(status'[s])
        /\ UNCHANGED <<stage, reqStatus>>
    BY <1>2, ApproveEffect DEF process, PromiseInv, WorkIsKept, IsStoryComplete
  <2>2. \A t \in Story : PhaseOf(t)' = PhaseOf(t)
    BY <2>1, PhaseValue, PhaseValueNext DEF IsStoryComplete
  <2> QED BY <2>1, <2>2, PromisedStutter DEF VerdictMap
<1> QED BY <1>1, <1>2 DEF Operator, RejectCommand, RetryCommand

LEMMA PromisedStep ==
  {"retry", "reject"} \cap Commands = {} /\ PromiseInv /\ [Next]_vars => Promised
<1> SUFFICES ASSUME {"retry", "reject"} \cap Commands = {}, PromiseInv, [Next]_vars
             PROVE  Promised
  OBVIOUS
<1>1. ASSUME UNCHANGED <<status, stage, reqStatus>> PROVE Promised
  BY <1>1, PhaseValue, PhaseValueNext, PromisedStutter DEF VerdictMap
<1>2. CASE Monitor
  <2>1. CASE NextWave
    BY <1>1, <2>1 DEF NextWave, NextWavePaused, NextWaveAllDone, NextWaveReady, store
  <2> QED BY <1>2, <2>1, PromisedPoll, PromisedPipeline, PromisedIntercept,
             PromisedDispatch, PromisedVerdict DEF Monitor
<1>3. CASE Agents \/ UNCHANGED vars
  BY <1>1, <1>3 DEF Agents, AgentIdle, AgentExit, vars, store, process
<1> QED BY <1>2, <1>3, PromisedResume, PromisedCrash, PromisedOperator DEF Next

LEMMA PromiseInvariant ==
  ASSUME {"retry", "reject"} \cap Commands = {}
  PROVE  Spec => []PromiseInv
BY NoAnswerTakenBack, KeptInvariant, VerdictInvariant, PTL DEF PromiseInv

LEMMA PromisedInit == Init => Unordered!Init
<1> SUFFICES ASSUME Init PROVE Unordered!Init
  OBVIOUS
<1>1. \A s \in Story : PhaseOf(s) = IF IsPlanned(s) THEN "waiting" ELSE "absent"
  BY PhaseValue DEF Init
<1> QED BY <1>1 DEF Unordered!Init, Init

(* As long as the operator neither retries nor rejects, and whatever a     *)
(* manager and a tech lead do to the stories, the pipeline keeps all of    *)
(* the promise of WaveDelivery but the order: work begun ends delivered or *)
(* back in waiting, a delivered story is not begun again, a story is given *)
(* up only for parts that take its place, and the verdict is given on all  *)
(* stories, the parts included, whatever crashes, pauses and resumes come  *)
(* in between.                                                             *)
THEOREM PromiseKeptButOrder ==
  ASSUME {"retry", "reject"} \cap Commands = {}
  PROVE  Spec => KeepsPromiseButOrder
<1>1. PromiseInv /\ [Next]_vars => [Unordered!Next]_<<PhaseMap, VerdictMap>>
  BY PromisedStep DEF Promised
<1> QED BY <1>1, PromisedInit, PromiseInvariant, PTL
        DEF Spec, KeepsPromiseButOrder, Unordered!Spec, PhaseMap, VerdictMap

(* What is being worked on after a step had what it depends on done before *)
(* it: such a story is not part of the wave that begins.                   *)
LEMMA BegunInOrder ==
  ASSUME PromiseInv', OrderInv', NEW wave \in SUBSET Story, Unordered!Begin(wave)
  PROVE  Promise!Begin(wave)
<1>1. /\ VerdictMap = "open" /\ UNCHANGED VerdictMap
      /\ \A s \in wave : PhaseMap[s] = "waiting"
      /\ PhaseMap' = [s \in Story |-> IF s \in wave THEN "working" ELSE PhaseMap[s]]
  BY DEF Unordered!Begin, PhaseMap, VerdictMap
<1>2. ASSUME NEW s \in wave, NEW d \in Deps[s] PROVE PhaseMap[d] = "done"
  <2>1. s \in Story /\ d \in Story
    BY <1>2, DepsAssumption
  <2>2. PhaseOf(s)' = "working"
    BY <1>1, <2>1 DEF PhaseMap
  <2>3. Engaged(s)'
    <3>1. status'[s] \in StoryStatus /\ status'[s] # "approved"
      BY <2>1 DEF PromiseInv, WorkIsKept, ApprovingInv, MergedInv, TrackingInv, TypeOK
    <3> QED BY <2>1, <2>2, <3>1, PhaseValueNext DEF Engaged, StoryStatus, IsStoryComplete
  <2>4. IsStoryComplete(status'[d]) /\ stage'[d] = "idle"
    BY <2>1, <2>3 DEF OrderInv, DepsSettled
  <2>5. PhaseOf(d)' = "done"
    BY <2>1, <2>4, PhaseValueNext DEF IsStoryComplete
  <2> QED BY <1>1, <2>1, <2>5 DEF PhaseMap
<1> QED BY <1>1, <1>2 DEF Promise!Begin, PhaseMap, VerdictMap

LEMMA PromisedInOrder ==
  ASSUME Promised, \A wave \in SUBSET Story : Unordered!Begin(wave) => Promise!Begin(wave)
  PROVE  [Promise!Next]_<<PhaseMap, VerdictMap>>
BY DEF Promised, Unordered!Next, Promise!Next, Unordered!Deliver, Promise!Deliver,
       Unordered!Return, Promise!Return, Unordered!Split, Promise!Split, Unordered!Judge,
       Promise!Judge, Unordered!AllDone, Promise!AllDone, Unordered!Reopen, Promise!Reopen

(* As long as the operator neither retries nor rejects, the pipeline keeps *)
(* the promise of WaveDelivery whole, where no manager is wired or nothing *)
(* depends on anything: a story is begun only when all it depends on is    *)
(* delivered, ends delivered or back in waiting, is not begun again once   *)
(* delivered, and the verdict is given on all stories.                     *)
THEOREM PromiseKept ==
  ASSUME {"retry", "reject"} \cap Commands = {},
         ManagerWired => \A s \in Story : Deps[s] = {}
  PROVE  Spec => KeepsPromise
<1>1. Init => Promise!Init
  BY PromisedInit DEF Promise!Init, Unordered!Init
<1>2. CASE ~ManagerWired
  <2>1. /\ PromiseInv /\ PromiseInv' /\ OrderInv' /\ [Next]_vars
        => [Promise!Next]_<<PhaseMap, VerdictMap>>
    BY PromisedStep, BegunInOrder, PromisedInOrder
  <2>2. Spec => []OrderInv
    BY <1>2, OrderInvariant
  <2> QED BY <1>1, <2>1, <2>2, PromiseInvariant, PTL
          DEF Spec, KeepsPromise, Promise!Spec, PhaseMap, VerdictMap
<1>3. CASE \A s \in Story : Deps[s] = {}
  <2>1. \A wave \in SUBSET Story : Unordered!Begin(wave) => Promise!Begin(wave)
    BY <1>3 DEF Unordered!Begin, Promise!Begin
  <2>2. PromiseInv /\ [Next]_vars => [Promise!Next]_<<PhaseMap, VerdictMap>>
    BY <2>1, PromisedStep, PromisedInOrder
  <2> QED BY <1>1, <2>2, PromiseInvariant, PTL
          DEF Spec, KeepsPromise, Promise!Spec, PhaseMap, VerdictMap
<1> QED BY <1>2, <1>3
=============================================================================
