------------------------- MODULE DeliveryProperties -------------------------
(***************************************************************************)
(* What should hold of DeliveryPipeline, and the promise it is meant to    *)
(* keep (WaveDelivery) with the mapping from the one to the other.         *)
(***************************************************************************)
EXTENDS DeliveryPipeline

(* The types of the variables; no slot is both idle and without a session. *)
TypeOK ==
  /\ reqStatus \in ReqStatus
  /\ status \in [Story -> StoryStatus]
  /\ tier \in [Story -> 0..3]
  /\ fails \in [Story -> 0..FailCap]
  /\ pr \in [Story -> PRState]
  /\ worktree \subseteq Story
  /\ session \in [Slot -> StoryOrNone]
  /\ idleAt \subseteq {sl \in Slot : session[sl] # NoStory}
  /\ slotOf \in [Story -> 0..MaxConcurrentAgents]
  /\ run \in RunPhase
  /\ done \subseteq Story /\ queue \subseteq Story /\ toSpawn \subseteq Story
  /\ active \in [Slot -> StoryOrNone]
  /\ stage \in [Story -> Stage]
  /\ mergeMu \in StoryOrNone
  /\ approving \in [Story -> {"no", "checked", "merged", "recorded"}]
  /\ crashes \in 0..MaxCrashes

(* Everything from the rebase to the cleanup works on the one shared       *)
(* checkout: a pipeline is in there exactly while it holds mergeMu, on     *)
(* every return and after every crash.                                     *)
MergeExclusive == \A s \in Story : stage[s] \in MergeStage <=> mergeMu = s

(* Agents at work (alive, not at the prompt) on story s.                   *)
AtWork(s) == {sl \in Slot : session[sl] = s /\ sl \notin idleAt}

(* Nobody else touches the worktree of a story whose agent is at work: no  *)
(* second agent, no pipeline, and the projection says in_progress.         *)
(* Detached agents keep their sessions while waves come and go.            *)
WorkerIsolation ==
  \A s \in Story : AtWork(s) # {} =>
    /\ \A x, y \in AtWork(s) : x = y
    /\ status[s] = "in_progress" /\ stage[s] = "idle"
    /\ s \in worktree

(* A story is handed out or worked on only while everything it depends on  *)
(* counts as complete.                                                     *)
DependenciesFirst ==
  \A s \in Story :
    status[s] \in {"assigned", "in_progress", "review", "qa"} \/ stage[s] # "idle"
      => \A d \in Deps[s] : IsStoryComplete(status[d])

(* What the forge has merged stays merged and is never worked on again,    *)
(* even when the process dies before it has recorded the merge.            *)
MergedIsFinal ==
  [][\A s \in Story : pr[s] = "merged" =>
       /\ pr'[s] = "merged"
       /\ status'[s] \notin {"draft", "assigned", "in_progress"}]_vars

(* A verdict stands only while every story is complete.                    *)
VerdictCoversAllStories ==
  reqStatus \in {"completed", "blocked"} => AllComplete

(* Two tracked agents never share a story, and no agent is tracked for a   *)
(* story whose pipeline already runs: one failure is counted once.         *)
TrackedOnce ==
  \A x, y \in Slot : active[x] # NoStory =>
    /\ active[x] = active[y] => x = y
    /\ stage[active[x]] = "idle"
    /\ run \in {"track", "spawn"}

(* A story that waits for approval has a pull request to approve, or one   *)
(* that an approval under way or cut off has already merged.               *)
AwaitingIsMergeable ==
  \A s \in Story : status[s] = "awaiting_approval" => pr[s] \in {"open", "merged"}

(* Nothing is dispatched for a paused requirement.                         *)
PausedStopsDispatch ==
  [][run = "dispatch" /\ run' = "spawn" => reqStatus # "paused"]_vars

(* A run of `vxd resume' ends.                                             *)
RunTerminates == run # "down" ~> run = "down"

(* An operator who keeps resuming gets every story that stalled after its  *)
(* agent was started back into its pipeline, or out of the stalled status. *)
StalledIsPickedUp ==
  \A s \in Story :
    IsRecoverableStalledStatus(status[s]) /\ stage[s] = "idle"
      ~> stage[s] # "idle" \/ ~IsRecoverableStalledStatus(status[s])

(* A merge cut off by a crash, or by a pause before it, is taken up again  *)
(* by a later run of `vxd resume'.                                         *)
InterruptedMergeIsResumed ==
  \A s \in Story :
    status[s] = "pr_submitted" /\ stage[s] = "idle"
      ~> stage[s] # "idle" \/ status[s] # "pr_submitted"

(* --- the invariant behind TrackedOnce and MergeExclusive ------------------ *)

(* Pipelines run only while the monitor tracks.                            *)
PipelinesOnlyInTrack ==
  run # "track" => \A s \in Story : stage[s] = "idle"

(* What is left to launch was given a session, and is not tracked yet.     *)
SpawnPending ==
  \A s \in toSpawn : /\ run = "spawn" /\ slotOf[s] \in Slot
                     /\ \A sl \in Slot : active[sl] # s

(* Inductive.                                                              *)
TrackingInv ==
  /\ TypeOK
  /\ MergeExclusive
  /\ TrackedOnce
  /\ PipelinesOnlyInTrack
  /\ SpawnPending

(* --- the invariants behind the other safety properties ------------------- *)

(* A pipeline's stage fixes what the projection says of its story.         *)
StageFits(s) ==
  /\ stage[s] = "review" => status[s] = "review"
  /\ stage[s] = "qa" => status[s] = "qa"
  /\ stage[s] \in {"security", "mergewait", "rebase", "merge", "record"}
       => status[s] = "pr_submitted"
  /\ stage[s] = "cleanup" => status[s] = "merged"

(* Merged on the forge: at worst not recorded yet.                         *)
MergedIsBehind(s) ==
  pr[s] = "merged" =>
    /\ \/ status[s] \in {"pr_submitted", "merged"}
       \/ status[s] = "awaiting_approval" /\ "approve" \in Commands
    /\ stage[s] \in {"idle", "record", "cleanup"}

(* What approve has read of its story stays true while it works from it.   *)
ApprovalFits(s) ==
  /\ approving[s] # "no" => "approve" \in Commands
  /\ approving[s] \in {"checked", "merged"} => status[s] = "awaiting_approval"
  /\ approving[s] = "merged" => pr[s] = "merged"
  /\ approving[s] = "recorded" => status[s] = "merged"

(* What is tracked, to be spawned or to be intercepted is unfinished.      *)
HandedOutIsUnfinished ==
  /\ \A sl \in Slot : active[sl] # NoStory =>
       status[active[sl]] \in {"draft", "in_progress", "review", "qa"}
  /\ \A s \in toSpawn : status[s] = "assigned"
  /\ \A s \in queue : run = "dispatch" /\ ~IsStoryComplete(status[s])

MergedInv ==
  /\ TrackingInv
  /\ \A s \in Story : StageFits(s) /\ MergedIsBehind(s)
  /\ HandedOutIsUnfinished

(* Inductive without vxd retry, and without vxd reject beside vxd approve. *)
ApprovingInv == MergedInv /\ \A s \in Story : ApprovalFits(s)

(* An agent at work, detached or not, is where the projection says it is.  *)
AgentsAreKnown ==
  \A sl \in Slot : session[sl] # NoStory /\ sl \notin idleAt =>
    LET s == session[sl]
    IN slotOf[s] = sl /\ status[s] = "in_progress" /\ stage[s] = "idle" /\ s \in worktree

(* Inductive with ApprovingInv, without manager and SLA escalation.        *)
IsolationInv ==
  /\ TrackingInv
  /\ queue = {}
  /\ \A s \in toSpawn : status[s] = "assigned"
  /\ \A sl \in Slot : active[sl] # NoStory => slotOf[active[sl]] = sl
  /\ AgentsAreKnown

(* Inductive without the cleanup of dangling branches.                     *)
ApprovalInv ==
  /\ TypeOK
  /\ AwaitingIsMergeable
  /\ \A s \in Story : stage[s] # "idle" => status[s] # "awaiting_approval"
  /\ \A s \in Story : stage[s] = "merge" => pr[s] \in {"open", "merged"}

(* A verdict is recorded as the run ends, and the gate is entered with     *)
(* every story complete: inductive with ApprovingInv, without vxd reject.  *)
VerdictInv ==
  /\ TrackingInv
  /\ reqStatus \in {"completed", "blocked"} => AllComplete /\ run = "down"
  /\ run = "gate" => AllComplete

(* Handed out, tracked, or in its pipeline.                                *)
Engaged(s) ==
  \/ status[s] \in {"assigned", "in_progress", "review", "qa"}
  \/ stage[s] # "idle"
  \/ \E sl \in Slot : active[sl] = s

(* Complete with no pipeline that could undo it: a failed merge puts a     *)
(* story whose status already counts as complete back to draft.            *)
DepsSettled(s) ==
  \A d \in Deps[s] : IsStoryComplete(status[d]) /\ stage[d] = "idle"

(* Inductive without manager, vxd retry and vxd reject.                    *)
OrderInv ==
  /\ ApprovingInv
  /\ queue = {}
  /\ run = "dispatch" => done \subseteq CompleteStories
  /\ \A s \in Story : Engaged(s) => DepsSettled(s)
  /\ \A s \in Story : status[s] = "in_progress" => s \in worktree

(* What is looked at before a wave is there, no started agent's work is    *)
(* lost, and no approval leaves a story where nothing takes it up again:   *)
(* inductive where ApprovingInv is, whoever intercepts.                    *)
WorkIsKept ==
  /\ ApprovingInv
  /\ \A s \in queue : status[s] # "none"
  /\ \A s \in Story : /\ status[s] = "in_progress" => s \in worktree
                      /\ status[s] # "approved"

(* --- the refinement ------------------------------------------------------ *)

PhaseOf(s) ==
  CASE status[s] = "none" -> "absent"
    [] status[s] = "draft" -> "waiting"
    [] IsStoryComplete(status[s]) /\ stage[s] = "idle" -> "done"
    [] OTHER -> "working"

Promise == INSTANCE WaveDelivery WITH
  Planned <- {s \in Story : IsPlanned(s)},
  phase   <- [s \in Story |-> PhaseOf(s)],
  verdict <- IF reqStatus \in {"completed", "blocked"} THEN reqStatus ELSE "open"

(* The pipeline keeps the promise of WaveDelivery.                         *)
KeepsPromise == Promise!Spec

(* The same promise but for the order of the stories, which the            *)
(* interception gives up: the stories that wait for one it has handled are *)
(* begun before that one is delivered.                                     *)
Unordered == INSTANCE WaveDelivery WITH
  Deps    <- [s \in Story |-> {}],
  Planned <- {s \in Story : IsPlanned(s)},
  phase   <- [s \in Story |-> PhaseOf(s)],
  verdict <- IF reqStatus \in {"completed", "blocked"} THEN reqStatus ELSE "open"

KeepsPromiseButOrder == Unordered!Spec
=============================================================================
