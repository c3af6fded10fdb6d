------------------------------ MODULE PlanGraph ------------------------------
(***************************************************************************)
(* The dependency graph of a requirement over its life: Planner.plan makes *)
(* it from what the tech lead's LLM answers, `vxd resume' rebuilds it from *)
(* the tables, splits of the manager and the tech lead rewire it in        *)
(* memory, and DispatchWave takes waves from it.  What a split adds to the *)
(* graph is nowhere on disk; what an agent does outlives the process.      *)
(***************************************************************************)
EXTENDS Naturals, FiniteSets, Sequences

CONSTANTS
  RawPlans,      \* answers of the LLM: sequences of [id, deps, files, seq, big]
  Integration, Scribe,  \* ids of the two stories the planner appends, if on
  Appended,             \* which of the two the configuration asks for
  SplitIds,      \* ids a split may give its children
  FilesOf,       \* what a child of a split may own
  RePlanIds,     \* ids the tech lead's LLM may give them
  RawEdges,      \* dependency edges the manager's LLM may answer with
  WaveCap,       \* routing.max_concurrent_agents, 0 for none
  MaxRuns,       \* bound: `vxd resume' runs
  MaxSplits      \* bound: splits

Ids(raw) == {raw[i].id : i \in DOMAIN raw}

(* The shape of an answer, whatever it says.                                *)
RawStory(raw) ==
  [id : Ids(raw), deps : SUBSET UNION {raw[i].deps : i \in DOMAIN raw},
   files : SUBSET UNION {raw[i].files : i \in DOMAIN raw}, seq : BOOLEAN, big : BOOLEAN]

ASSUME PlanGraphAssumption ==
  /\ Integration # Scribe /\ Appended \subseteq {Integration, Scribe}
  /\ \A raw \in RawPlans : raw \in Seq(RawStory(raw))
  /\ WaveCap \in Nat /\ MaxRuns \in Nat /\ MaxSplits \in Nat

VARIABLES
  planPhase,  \* where the planner, then the resume process, is
  toCreate,   \* planned stories whose STORY_CREATED is still to be appended
  stories,    \* tables stories and story_deps: id -> record
  graph,      \* RunContext.DAG of the process: [nodes, edges]
  waveDone,   \* the completed set of the wave
  intercept,  \* ready stories at tier 2 or 3, still to be handled
  tracked,    \* stories this process has an active agent for
  agents,     \* stories with a live session, whoever started it
  runs, splits,
  planCut,    \* history: the plan was not written to its end
  rawUsed,    \* history: this process took edges or ids no one validated
  early       \* history: stories started before their dependencies were done

planVars == <<planPhase, toCreate, stories, graph, waveDone, intercept, tracked,
              agents, runs, splits, planCut, rawUsed, early>>

maxSplitDepth == 2

(* --- planning ----------------------------------------------------------- *)

ReadyIn(nodes, deps, completed) ==
  {n \in nodes \ completed : deps[n] \subseteq completed}

(* TopologicalSort succeeds: of any nodes that are left, one can come first. *)
Acyclic(nodes, deps) ==
  \A left \in SUBSET nodes : left # {} => \E n \in left : deps[n] \cap left = {}

(* A story depends on the last earlier owner of each of its files.          *)
AutoSequence(raw) ==
  [i \in DOMAIN raw |->
     [raw[i] EXCEPT !.deps = @ \cup
        {raw[j].id : j \in {k \in 1..i - 1 :
           \E f \in raw[i].files \cap raw[k].files :
              \A l \in k + 1..i - 1 : f \notin raw[l].files}}]]

(* Mistake: the appended story depends on nothing.                          *)
AppendStoryFree(plan, id) ==
  IF id \notin Appended THEN plan
  ELSE Append(plan, [id |-> id, deps |-> {}, files |-> {}, seq |-> TRUE, big |-> FALSE])

(* buildIntegrationStory and buildScribeStory: after everything before them. *)
AppendStory(plan, id) ==
  IF id \notin Appended THEN plan
  ELSE Append(plan, [id |-> id, deps |-> Ids(plan), files |-> {},
                     seq |-> TRUE, big |-> FALSE])

Planned(raw) == AppendStory(AppendStory(AutoSequence(raw), Integration), Scribe)

DepsIn(plan, id) == UNION {plan[i].deps : i \in {k \in DOMAIN plan : plan[k].id = id}}

AcceptsAnything(raw) == Len(raw) > 0 /\ Cardinality(Ids(raw)) = Len(raw)

Accepts(raw) ==
  /\ Len(raw) > 0
  /\ \A i, j \in DOMAIN raw : i # j => raw[i].id # raw[j].id
  /\ \A i \in DOMAIN raw : raw[i].deps \subseteq Ids(raw) /\ ~raw[i].big
  /\ LET plan == Planned(raw) IN
       Acyclic(Ids(plan), [id \in Ids(plan) |-> DepsIn(plan, id)])

Idle == <<graph, waveDone, intercept, tracked, agents, runs, splits, rawUsed, early>>

NoGraph == [nodes |-> {}, edges |-> {}]

PlanInit ==
  /\ planPhase = "unplanned" /\ toCreate = <<>> /\ stories = <<>>
  /\ graph = NoGraph /\ waveDone = {} /\ intercept = {}
  /\ tracked = {} /\ agents = {} /\ runs = 0 /\ splits = 0
  /\ planCut = FALSE /\ rawUsed = FALSE /\ early = {}

Plan ==
  /\ planPhase = "unplanned"
  /\ \E raw \in RawPlans :
       IF Accepts(raw) THEN planPhase' = "creating" /\ toCreate' = Planned(raw)
       ELSE planPhase' = "refused" /\ UNCHANGED toCreate
  /\ UNCHANGED <<stories, planCut, Idle>>

NewStory(deps, files, seq, depth) ==
  [status |-> "draft", deps |-> deps, files |-> files, seq |-> seq,
   depth |-> depth, kids |-> {}]

(* INSERT: a row that exists stays as it is.                                *)
WithStory(st, id, row) ==
  [x \in DOMAIN st \cup {id} |-> IF x \in DOMAIN st THEN st[x] ELSE row]

CreateStory ==
  /\ planPhase = "creating"
  /\ LET s == Head(toCreate) IN
       stories' = WithStory(stories, s.id, NewStory(s.deps, s.files, s.seq, 0))
  /\ toCreate' = Tail(toCreate)
  /\ planPhase' = IF Len(toCreate) = 1 THEN "down" ELSE "creating"
  /\ UNCHANGED <<planCut, Idle>>

(* A store error, or the end of the process.                                *)
PlanFails ==
  /\ planPhase = "creating"
  /\ planPhase' = "down" /\ toCreate' = <<>> /\ planCut' = TRUE
  /\ UNCHANGED <<stories, Idle>>

(* --- vxd resume ----------------------------------------------------------- *)

Complete == {s \in DOMAIN stories : stories[s].status \in {"merged", "split"}}

(* rebuildDAG: the tables' edges only, and planned stories that carry no    *)
(* dependencies.  A story whose agent has gone is picked up as an orphan.   *)
ResumeRun ==
  /\ planPhase = "down" /\ runs < MaxRuns /\ stories # <<>>
  /\ planPhase' = "up" /\ runs' = runs + 1
  /\ graph' = [nodes |-> DOMAIN stories,
               edges |-> UNION {{s} \X stories[s].deps : s \in DOMAIN stories}]
  /\ tracked' = {s \in DOMAIN stories \ agents : stories[s].status = "working"}
  /\ UNCHANGED <<toCreate, stories, waveDone, intercept, agents, splits, planCut,
                 rawUsed, early>>

DependsOn ==
  [s \in graph.nodes |-> {e[2] : e \in {x \in graph.edges : x[1] = s}}]
ReadyStories(completed) == ReadyIn(graph.nodes, DependsOn, completed)

(* dispatchNextWave, once no agent is tracked.                              *)
EnterWave ==
  /\ planPhase = "up" /\ tracked = {}
  /\ waveDone' = Complete
  /\ IF DOMAIN stories = Complete
     THEN planPhase' = "delivered" /\ intercept' = {}
     ELSE /\ planPhase' = "wave"
          /\ intercept' \in SUBSET ReadyStories(Complete)
  /\ UNCHANGED <<toCreate, stories, graph, tracked, agents, runs, splits,
                 planCut, rawUsed, early>>

(* Whatever the manager or the tech lead decides, the story counts as       *)
(* completed for the rest of the wave.                                      *)
Handled(s) ==
  /\ s \in intercept
  /\ intercept' = intercept \ {s} /\ waveDone' = waveDone \cup {s}
  /\ UNCHANGED <<planPhase, toCreate, tracked, agents, runs, planCut, early>>

(* Retried, rewritten, or escalated and left as it is.                      *)
HandleOtherwise(s) ==
  /\ Handled(s)
  /\ \/ stories' = [stories EXCEPT ![s].status = "draft"]
     \/ UNCHANGED stories
  /\ UNCHANGED <<graph, splits, rawUsed>>

(* STORY_CREATED for every child, STORY_SPLIT for the parent, ApplySplit on *)
(* the graph.  Planned stories carry no dependencies, so ApplySplit has no  *)
(* edge to inherit and finds no dependent of the parent.                    *)
ApplySplit(s, kids, files, edges) ==
  LET row(k) == NewStory({}, files[k], FALSE, stories[s].depth + 1)
      created == [x \in DOMAIN stories \cup kids |->
                    IF x \in DOMAIN stories THEN stories[x] ELSE row(x)]
  IN /\ stories' = [created EXCEPT ![s].status = "split", ![s].kids = kids]
     /\ graph' = [nodes |-> graph.nodes \cup kids, edges |-> graph.edges \cup edges]
     /\ splits' = splits + 1

CanSplit(s) == s \in intercept /\ splits < MaxSplits /\ stories[s].depth < maxSplitDepth

(* executeSplitAction: children named after the parent, so new; they may    *)
(* not share a file.  The edges are applied as the LLM gave them.           *)
ManagerSplit(s) ==
  /\ CanSplit(s) /\ Handled(s)
  /\ \E kids \in SUBSET (SplitIds \ DOMAIN stories) : \E files \in [kids -> FilesOf] :
       \E edges \in RawEdges :
         /\ kids # {}
         /\ \A k, l \in kids : k # l => files[k] \cap files[l] = {}
         /\ ApplySplit(s, kids, files, edges)
         /\ rawUsed' = (rawUsed \/ edges # {})

(* Each child after the one before it.                                      *)
Chain(kids) == {<<kids[i], kids[i - 1]>> : i \in 2..Len(kids)}

(* handleTechLeadEscalation: children are chained, so they may share files; *)
(* their ids are the LLM's, and may be those of stories that exist.         *)
TechLeadSplit(s) ==
  /\ CanSplit(s) /\ Handled(s)
  /\ \E k1, k2 \in RePlanIds : \E files \in [{k1, k2} -> FilesOf] :
       /\ k1 # k2
       /\ ApplySplit(s, {k1, k2}, files, Chain(<<k1, k2>>))
       /\ rawUsed' = (rawUsed \/ {k1, k2} \cap DOMAIN stories # {})

(* --- DispatchWave ---------------------------------------------------------- *)

Conflict(s, t) == stories[s].files \cap stories[t].files # {}

(* Mistake: only the hint is looked at.                                     *)
SelectAll(ready, wave) ==
  LET first == {s \in ready : stories[s].seq} IN
  IF first # {} THEN wave \in {{s} : s \in first} ELSE wave = ready

(* selectDispatchable and the cap: one story that has to run alone, or as   *)
(* many as fit of stories no two of which own a common file.                *)
SelectDispatchable(ready, wave) ==
  LET first == {s \in ready : stories[s].seq} IN
  IF first # {} THEN wave \in {{s} : s \in first}
  ELSE /\ wave \subseteq ready
       /\ \A s, t \in wave : s # t => ~Conflict(s, t)
       /\ WaveCap = 0 \/ Cardinality(wave) <= WaveCap
       /\ \/ WaveCap > 0 /\ Cardinality(wave) = WaveCap
          \/ \A s \in ready \ wave : \E t \in wave : Conflict(s, t)

Dispatchable == {s \in ReadyStories(waveDone) : stories[s].status = "draft"}

EndProcess == planPhase' = "down" /\ graph' = NoGraph /\ rawUsed' = FALSE

DispatchWave ==
  /\ planPhase = "wave" /\ intercept = {}
  /\ \E wave \in SUBSET Dispatchable :
       /\ SelectDispatchable(Dispatchable, wave)
       /\ stories' = [s \in DOMAIN stories |->
             IF s \in wave THEN [stories[s] EXCEPT !.status = "working"] ELSE stories[s]]
       /\ tracked' = wave /\ agents' = agents \cup wave
       /\ early' = early \cup {s \in wave : ~(stories[s].deps \subseteq Complete)}
       /\ IF wave = {} THEN EndProcess
          ELSE planPhase' = "up" /\ UNCHANGED <<graph, rawUsed>>
  /\ waveDone' = {}
  /\ UNCHANGED <<toCreate, intercept, runs, splits, planCut>>

(* --- agents and the process -------------------------------------------------- *)

(* The pipeline of a tracked story: its work is merged, or it failed.       *)
FinishStory(s) ==
  /\ s \in tracked
  /\ tracked' = tracked \ {s} /\ agents' = agents \ {s}
  /\ \E st \in {"merged", "draft"} : stories' = [stories EXCEPT ![s].status = st]
  /\ UNCHANGED <<planPhase, toCreate, graph, waveDone, intercept, runs, splits,
                 planCut, rawUsed, early>>

SessionEnds(s) ==
  /\ s \in agents \ tracked
  /\ agents' = agents \ {s}
  /\ UNCHANGED <<planPhase, toCreate, stories, graph, waveDone, intercept, tracked,
                 runs, splits, planCut, rawUsed, early>>

(* The process is killed or detaches; the sessions go on.                   *)
ProcessEnds ==
  /\ planPhase \in {"up", "wave"}
  /\ EndProcess /\ tracked' = {} /\ intercept' = {} /\ waveDone' = {}
  /\ UNCHANGED <<toCreate, stories, agents, runs, splits, planCut, early>>

PlanNext ==
  \/ Plan \/ CreateStory \/ PlanFails \/ ResumeRun \/ EnterWave \/ DispatchWave
  \/ ProcessEnds
  \/ \E s \in DOMAIN stories :
       \/ HandleOtherwise(s) \/ ManagerSplit(s) \/ TechLeadSplit(s)
       \/ FinishStory(s) \/ SessionEnds(s)

PlanSpec == PlanInit /\ [][PlanNext]_planVars

(* --- properties ---------------------------------------------------------------- *)

PlanTypeOK ==
  /\ planPhase \in {"unplanned", "refused", "creating", "down", "up", "wave", "delivered"}
  /\ \A s \in DOMAIN stories :
       /\ stories[s].status \in {"draft", "working", "merged", "split"}
       /\ stories[s].depth \in 0..maxSplitDepth
  /\ tracked \cup agents \subseteq DOMAIN stories
  /\ intercept \subseteq DOMAIN stories /\ early \subseteq DOMAIN stories

(* A wave that has to stop with unfinished stories none of which can ever   *)
(* start was given its edges by no one who checked them: the plan was cut   *)
(* short before a story others depend on was written, or an LLM supplied    *)
(* edges or ids of a split in this very process.  What the planner accepts, *)
(* and what splits add to it, never deadlocks by itself.                    *)
Stranded ==
  /\ planPhase = "wave" /\ agents = {} /\ DOMAIN stories # Complete
  /\ ReadyStories(Complete) = {}
StrandedOnlyByUnchecked == Stranded => planCut \/ rawUsed

(* Two agents never work on stories that own a common file, as long as one  *)
(* process runs: planning orders the owners of a file, the dispatcher keeps *)
(* them out of one wave.  Across a restart only the stored dependencies     *)
(* protect, which a child of a split has not, which chain the owners of a   *)
(* file only as long as none of them was started before its dependencies,   *)
(* and which do not bind a story that was handed to the manager while an    *)
(* agent of the old process had it.                                         *)
SharedFileNeverParallel ==
  \A s, t \in agents :
    s # t /\ Conflict(s, t) =>
      /\ runs > 1
      /\ \/ \E x \in {s, t} : stories[x].depth > 0
         \/ \A f \in stories[s].files \cap stories[t].files :
              \E x \in early : stories[x].depth = 0 /\ f \in stories[x].files
         \/ \E x \in {s, t} : stories[x].status # "working"

(* The README of the scribe, and the integration, come last: when either    *)
(* has an agent every story of the plan is merged or split, unless someone  *)
(* let it start early.  (A child of a split may have the id, if the plan    *)
(* was cut short.)                                                          *)
ComposedLast ==
  \A s \in agents \cap Appended :
    s \in early \/ stories[s].depth > 0 \/ \A t \in DOMAIN stories :
      stories[t].depth = 0 /\ t \notin Appended => t \in Complete

(* A dependent of a split story waits for all of its children.              *)
Descendants(s) ==
  LET kids == stories[s].kids
  IN kids \cup UNION {stories[k].kids : k \in kids}
SplitKeepsOrder ==
  \A s \in agents : \A d \in stories[s].deps :
    d \in DOMAIN stories => Descendants(d) \subseteq Complete
=============================================================================
