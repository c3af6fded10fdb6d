-------------------------- MODULE StoryProjection --------------------------
(***************************************************************************)
(* The stories table of the SQLite projection, as far as the scheduler     *)
(* reads it: the status a story may have, which statuses the dependency    *)
(* graph counts as done, and the status each event of the log leaves       *)
(* behind.  Everything here is a constant-level operator: the modules that *)
(* model who appends which event apply it to their own `status' variable.  *)
(***************************************************************************)

(* "none" is a story no STORY_CREATED has been projected for.  "estimated" *)
(* is dispatched exactly as "draft" is, so the two are one status here.    *)
StoryStatus ==
  {"none", "draft", "assigned", "in_progress", "review", "qa",
   "pr_submitted", "awaiting_approval", "approved", "merged", "split"}

(* Done, as far as the dependency graph is concerned.                      *)
IsStoryComplete(st) ==
  st \in {"merged", "pr_submitted", "split", "awaiting_approval"}

(* The narrower reading: the work is on the mainline, or was split.        *)
GateOnlyReady(st) == st \in {"merged", "split"}

(* Stalled after the agent was started: resume may finish these.           *)
IsRecoverableStalledStatus(st) == st \in {"in_progress", "review", "qa"}

StoryEvent ==
  {"STORY_CREATED", "STORY_ASSIGNED", "STORY_STARTED", "STORY_COMPLETED",
   "STORY_REVIEW_PASSED", "STORY_REVIEW_FAILED", "STORY_QA_STARTED",
   "STORY_QA_PASSED", "STORY_QA_FAILED", "STORY_PR_CREATED",
   "STORY_AWAITING_APPROVAL", "STORY_APPROVED", "STORY_REJECTED",
   "STORY_MERGED", "STORY_RESET", "STORY_REWRITTEN", "STORY_SPLIT",
   "STORY_ESCALATED"}

(* Mistake: a split leaves the parent open.                                *)
ProjectSplitAsDraft(evt, st) ==
  CASE evt = "STORY_CREATED"  -> IF st = "none" THEN "draft" ELSE st
    [] evt = "STORY_ASSIGNED" -> "assigned"
    [] evt = "STORY_STARTED"  -> "in_progress"
    [] evt = "STORY_COMPLETED" -> "review"
    [] evt = "STORY_REVIEW_PASSED" -> "qa"
    [] evt \in {"STORY_QA_PASSED", "STORY_PR_CREATED"} -> "pr_submitted"
    [] OTHER -> "draft"

(* The status column after `evt' is projected on a story in status `st'.   *)
(* Only STORY_STARTED and STORY_APPROVED look at the status they replace.  *)
Project(evt, st) ==
  CASE evt = "STORY_CREATED"  -> IF st = "none" THEN "draft" ELSE st
    [] evt = "STORY_ASSIGNED" -> "assigned"
    [] evt = "STORY_STARTED"  -> IF IsStoryComplete(st) THEN st ELSE "in_progress"
    [] evt = "STORY_COMPLETED" -> "review"
    [] evt \in {"STORY_REVIEW_PASSED", "STORY_QA_STARTED"} -> "qa"
    [] evt \in {"STORY_QA_PASSED", "STORY_PR_CREATED"} -> "pr_submitted"
    [] evt = "STORY_AWAITING_APPROVAL" -> "awaiting_approval"
    [] evt = "STORY_APPROVED" -> IF st = "merged" THEN st ELSE "approved"
    [] evt = "STORY_MERGED"   -> "merged"
    [] evt = "STORY_SPLIT"    -> "split"
    [] evt \in {"STORY_REVIEW_FAILED", "STORY_QA_FAILED", "STORY_REJECTED",
                "STORY_RESET", "STORY_REWRITTEN"} -> "draft"
    [] evt = "STORY_ESCALATED" -> st
=============================================================================
