-------------------------- MODULE ProjectionTables --------------------------
(***************************************************************************)
(* What SQLiteStore.Project does to all of its tables: requirements,       *)
(* stories with their cached tier and dependencies, escalations, costs,    *)
(* agents and story databases.  Titles, prices and times are left out; a   *)
(* row that the code keys on the event's own ULID is that ULID here.       *)
(***************************************************************************)
EXTENDS StoryProjection, Naturals, FiniteSets, SequencesExt

CONSTANT StoryId

(* An event: its ULID, its type, its story, and the one payload field the  *)
(* projector turns into control: the tier of an escalation, the database   *)
(* of a devdb event, the dependencies of a story.                          *)
Event(id, type, s, arg) == [id |-> id, type |-> type, story |-> s, arg |-> arg]

ReqEvents ==
  [REQ_SUBMITTED |-> "pending", REQ_ANALYZED |-> "analyzed",
   REQ_PLANNED |-> "planned", REQ_PAUSED |-> "paused",
   REQ_RESUMED |-> "planned", REQ_COMPLETED |-> "completed",
   REQ_BLOCKED |-> "blocked", PLAN_REJECTED |-> "plan_rejected"]

NoTables ==
  [req    |-> "none",
   status |-> [s \in StoryId |-> "none"],
   tier   |-> [s \in StoryId |-> 0],
   deps   |-> {},
   escalations |-> {}, costs |-> {},
   agents |-> [s \in StoryId |-> "none"],
   dbs    |-> {}]

(* REQ_SUBMITTED is INSERT OR IGNORE, the others UPDATE: a requirement     *)
(* that was never submitted stays absent.                                  *)
ProjectRequirement(t, e) ==
  IF (e.type = "REQ_SUBMITTED") = (t.req = "none")
  THEN [t EXCEPT !.req = ReqEvents[e.type]] ELSE t

(* The insert of a story that exists fails on its primary key, before its  *)
(* dependencies are written.                                               *)
Rejects(t, e) == e.type = "STORY_CREATED" /\ t.status[e.story] # "none"

ProjectStory(t, e) ==
  LET s == e.story IN
  CASE e.type = "STORY_CREATED" ->
         IF Rejects(t, e) THEN t
         ELSE [t EXCEPT !.status[s] = "draft",
                        !.deps = @ \cup {<<s, d>> : d \in e.arg}]
    [] e.type = "STORY_ESCALATED" ->
         [t EXCEPT !.tier[s] = IF t.status[s] = "none" THEN @ ELSE e.arg,
                   !.escalations = @ \cup {e.id}]
    [] OTHER ->
         IF t.status[s] = "none" THEN t
         ELSE [t EXCEPT !.status[s] = Project(e.type, @),
                        !.tier[s] = IF e.type \in {"STORY_RESET", "STORY_REWRITTEN"}
                                    THEN 0 ELSE @]

ProjectAgent(t, e) ==
  IF e.type = "AGENT_SPAWNED" THEN [t EXCEPT !.agents[e.story] = "active"]
  ELSE [t EXCEPT !.agents[e.story] = IF @ = "none" THEN @ ELSE "terminated"]

(* Created and failed replace the row of that database, deleted updates it *)
(* (with no story, in logs of older versions, every row of the database).  *)
ProjectStoryDB(t, e) ==
  LET same == {r \in t.dbs : r.db = e.arg /\ e.story \in {r.story, "none"}} IN
  [t EXCEPT !.dbs =
     IF e.type = "STORY_DB_DELETED"
     THEN (t.dbs \ same) \cup {[r EXCEPT !.status = "deleted"] : r \in same}
     ELSE (t.dbs \ same) \cup
            {[story |-> e.story, db |-> e.arg,
              status |-> IF e.type = "STORY_DB_CREATED" THEN "created" ELSE "failed"]}]

(* SQLiteStore.Project.  "ARCHIVE" is not an event of the log: it is the   *)
(* pair ArchiveRequirement and ArchiveStoriesByReq, which write directly.  *)
ProjectEvent(t, e) ==
  CASE e.type \in DOMAIN ReqEvents -> ProjectRequirement(t, e)
    [] e.type \in {"AGENT_SPAWNED", "AGENT_TERMINATED"} -> ProjectAgent(t, e)
    [] e.type \in {"STORY_DB_CREATED", "STORY_DB_FAILED", "STORY_DB_DELETED"} ->
         ProjectStoryDB(t, e)
    [] e.type = "STORY_COST_RECORDED" -> [t EXCEPT !.costs = @ \cup {e.id}]
    [] e.type \in StoryEvent -> ProjectStory(t, e)
    [] e.type = "ARCHIVE" ->
         [t EXCEPT !.req = IF @ = "none" THEN @ ELSE "archived"]
    [] OTHER -> t          \* informational

(* The tables after a sequence of events, projected in that order on an    *)
(* empty database.                                                         *)
Tables(events) == FoldLeft(ProjectEvent, NoTables, events)

(* A database that was built from `events' refuses none of them.           *)
Replayable(events) ==
  \A i \in 1..Len(events) : ~Rejects(Tables(SubSeq(events, 1, i - 1)), events[i])
=============================================================================
