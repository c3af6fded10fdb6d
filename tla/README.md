# A verification project for VXD (vortex-dispatch)

VXD turns a requirement into stories, hands the stories to coding agents in tmux
sessions, and takes each result through review, QA, a security gate and a merge.
This directory models that machinery in TLA+, checks the models with TLC and
proves the most important invariants with TLAPS. Paths are relative to the
repository root.

## 1. Inventory

| Component | Code | State it keeps | Operations | Hard because |
|---|---|---|---|---|
| Monitor | `internal/engine/monitor*.go` | map of tracked agents, `mergeMu`, a WaitGroup of pipelines | poll, post-execution pipeline, next wave, interception, SLA check | one goroutine per finished agent, one shared checkout, many early returns |
| Dispatcher, executor | `engine/dispatcher.go`, `executor.go`, `graph/graph.go` | none of their own | compute a wave, assign, create worktree, start session | session names repeat from wave to wave, spawns fail one by one |
| Escalation | `engine/escalation.go`, `monitor_escalation.go` | none: everything is read off the event log | tier, retry count, manager and tech-lead actions, splits | counts depend on order and time of events appended elsewhere |
| Reviewer, QA, merger | `engine/reviewer.go`, `qa.go`, `premerge.go`, `merger.go` | pull requests on the forge | one verdict or one merge per story | they append events of their own; the forge acts before the log knows |
| Resume, recovery | `cli/resume.go`, `resume_gate.go`, `engine/recovery.go` | run lock, `checkpoint.json` | lock, unpause, consistency check, orphan recovery, first wave | decides from what a dead process left behind |
| Operator commands | `cli/pause.go`, `approve.go`, `reject.go`, `retry.go`, web handlers | none | append events | they take no lock and race the monitor |
| Stores | `state/filestore.go`, `sqlite.go` | JSONL event log, SQLite projection | append, then project | two writes, not one |
| Agents | tmux, `runtime/registry.go` | sessions | start, go idle, end | outlive the process that started them |
| Completion gate | `engine/completion_gate.go`, `integration_fix.go` | fix cycles | verify the mainline, fix, verdict | may be cancelled; fixes land on the mainline |
| Run lock | `engine/lockfile.go` | `vxd.lock` | acquire, force, release | check-then-write on a file, and the write truncates first |
| Planner, graph | `engine/planner.go`, `graph/`, `engine/split_validation.go`, manager and tech lead splits | tables of stories and edges; the graph of the process | plan, rebuild, split, re-plan, wave | edges come from a model, and those of a split are nowhere on disk |
| Conflict resolver, branch | `engine/conflict_resolver.go`, `premerge.go`, `monitor_git_hygiene.go`, `git/` | worktree, HEAD, rebase in progress | commit, strip, rebase, resolve, base check, push | the worktree outlives the attempt and the process |
| Security | `internal/security`, `engine/security_gate.go`, `cli/security.go` | `knowledge.json` | scan, review, judge, learn | parallel pipelines read, wait minutes, write back |
| LLM clients | `internal/llm`, `engine/monitor_post_execution.go` | quota, `story_costs` | retry, cool down, fall back, meter, classify | the type of an error must survive five wrappers |
| Ephemeral databases | `internal/devdb`, `cli/db.go` | databases, `STORY_DB_*` events, one container for all projects | provision, release, recover, gc, refresh | recovery knows a database by parsing a name that does not say whose it is |
| Web dashboard | `internal/web`, `internal/dashstart`, `cli/dashboard.go` | port, token, nonce, pidfile, bootstrap file; clients, last count | start, join, stop, connect, tick, command | several processes race for one port; events come while tabs connect |
| Autoresearch | `internal/autoresearch`, `cli/autoresearch.go` | experiment log, winning branch | wave, measure, judge, gate, evolve | experiments side by side over one repository |
| Self-improvement | `internal/improve`, `cmd/vxd-improve` | branches, changelog, summary of the day | audit, heal, implement, record, mail | is killed and starts over on the same names |
| Opportunities | `improve/opportunities.go`, `discovery.go`, `cli/opportunity.go` | pipeline and sources files | append, rewrite, book | commands and the nightly run share files without a lock |
| The rest | terminal dashboard, repolearn, codegraph, memory, config, preflight, agent prompts, documents, helpers | profiles and pages for prompts | | input, output and formatting: no part in scheduling |

How they interact: the CLI process takes the lock, rebuilds the graph from the
projection, finds orphans or dispatches a first wave, and gives the agents to
the monitor. The monitor polls sessions; each finished agent gets a pipeline
goroutine that appends events and, under `mergeMu`, changes the shared
checkout and the forge. When no agent is tracked and no pipeline runs, the
monitor computes the next wave, intercepts stories of tier 2 and 3, and
dispatches, or hands over to the completion gate. Operator commands write to
the same stores at any moment. `vxd req` makes sure that a dashboard daemon runs,
whose handlers append commands of their own. The nightly programs
(self-improvement, opportunities, autoresearch) share no state with a run.

What makes them correct:

- shared checkout: one pipeline at a time in it, and the lock always comes back;
- tracking: a story under one session at a time, never beside its own pipeline;
- worktrees: an agent at work is alone in its worktree;
- dependencies: nothing starts before what it depends on is complete;
- merged work: never undone or redone, whatever crashes;
- verdict: only on all stories, children of a split included;
- recovery: stalled work is taken up again; runs end;
- lock and stores: one process holds the directory; the projection is the log's,
  and a replay repairs it;
- graph: no wave is stuck on an edge, files have one owner at work at a time,
  what depends on a split waits for its children;
- tiers: whatever the order of appends, a story climbs one rung per used-up tier;
- branch: what is pushed was reviewed, and a green base stays green;
- providers: an outage costs a story no attempt;
- databases: a clean-up that knows an agent's story leaves its database alone, and what the
  log calls deleted is gone;
- dashboard: the printed URL lets the browser in, and a tab gets every event once.

`PROJECT.json` lists the hazards line by line, each with its properties or the
reason why it has none yet.

## 2. Modules

| Module | Models | Notes |
|---|---|---|
| `StoryProjection` | `state/story_status.go`, `SQLiteStore.Project` | statuses, "complete", and the status after each event |
| `DeliveryPipeline` | monitor, dispatcher, executor, escalation, resume, commands | the detailed specification, one action per step |
| `WaveDelivery` | nothing in particular | what a run promises: begin, return, split, deliver, judge |
| `DeliveryProperties` | | the properties, the inductive invariant, the refinement mapping |
| `MCDelivery` | | dependency graphs and splits of the TLC instances |
| `DeliveryProofs`, `DeliveryOrderProofs` | | theorems on the above (section 4) |
| `RunLock` | `engine/lockfile.go` | look, decide, truncate, write and remove are steps of several processes |
| `ProjectionTables` | `SQLiteStore.Project` on all tables but metrics | a function from log to rows |
| `StateDirectory` | `filestore.go`, `sqlite.go`, `cli/replay.go`, `archive.go` | composes the lock, the log, the database files and the processes that use them |
| `MCStateDirectory` | | instance of the above |
| `StateDirectoryProofs` | | theorems on `RunLock` and `StateDirectory` |
| `PlanGraph` | planner, `graph.go`, splits, re-plans, `DispatchWave` | the graph in memory beside the one in the tables |
| `EscalationLog` | `escalation.go`, `routeStory`, adaptive routing, cached tier | four readers of one log of stamped events |
| `TierLadder` | nothing in particular | what the escalation chain promises; `EscalationLog` implements it |
| `CompletionGate` | `completion_gate.go`, `integration_fix.go`, `resume_gate.go`, `pullBase` | checkout, origin, gaps file, verdict and exit code |
| `DevDB` | `internal/devdb`, `cli/db.go`, first wave of `resume.go` | Docker and ghost providers |
| `StoryBranch` | hygiene, `conflict_resolver.go`, `premerge.go`, `git/` | one story's worktree, branch, base and push |
| `ModelCalls` | `internal/llm` clients, `pauseIfCapacity`, the budget | which error reaches which caller |
| `SecurityGate` | `internal/security`, `security_gate.go`, `cli/security.go` | reviews side by side over one knowledge base |
| `Autoresearch` | coordinator, runner, gate, bank | experiments side by side |
| `ImproveRun` | `cmd/vxd-improve`, `implementer.go`, self-audit, self-heal | the runs of one day |
| `Opportunities` | `opportunities.go`, `discovery.go`, `cli/opportunity.go` | files, the run and the shells |
| `DashboardDaemon` | `dashstart`, `web/server.go`, `auth.go`, `cli/dashboard.go` | daemons, `vxd req` runs, one browser, the operator |
| `DashboardHub` | `web/ws.go`, `data.go`, `handlers.go` | tabs, tick, snapshots and commands |
| `RequirementProofs` | | theorems on `PlanGraph`, `EscalationLog` (with `TierLadder`), `CompletionGate` |
| `StoryWorkProofs` | | theorems on `SecurityGate`, `ModelCalls`, `StoryBranch` |
| `BackgroundProofs` | | theorems on `ImproveRun`, `Autoresearch`, `DevDB`, `Opportunities` |
| `DashboardProofs` | | theorems on `DashboardDaemon`, `DashboardHub` |
| `MCComponents` | | one instance of `PlanGraph` ... `DashboardHub` |
| `ComponentsProofs` | | theorems on that composition |

### How `DeliveryPipeline` corresponds to the code

State that survives a crash: `reqStatus` and `status` (projection), `tier` and
`fails` (what `CurrentTier` and `RetryCountAtCurrentTier` read off the log),
`pr` (forge), `worktree`, `session`/`idleAt` (tmux), `slotOf` (agents table).
State of the process, lost by `Crash`: `run` (where `vxd resume` is: tracking,
computing a wave, spawning, in the gate), `done` (the `completed` map of
`dispatchNextWave`), `queue` (ready stories not intercepted yet), `toSpawn`,
`active` (the monitor's map), `stage` (each story's pipeline), `mergeMu`.

- `Resume*`: the branches of `runResume`. Orphans (stalled, worktree there,
  recorded session gone) are tracked first; otherwise a first wave is
  dispatched, without interception; a requirement all of whose stories are on
  the mainline goes to the gate alone.
- `PollFinished`, `SLABreach`: `pollOnce` for one agent.
- `StageFails`, `WorkRejected`, `StagePauses`, `ReviewPasses` ... `FinishPipeline`:
  `postExecutionPipeline`, one action per point where events are appended or
  another actor may be seen. `ResetStoryToDraft` is the whole of
  `resetStoryToDraft`, with its escalation and its pause; its parameter says
  whether the reviewer or QA has already appended a failure event, which counts
  as well.
- `LockMerge`, `EndPipeline`: `mergeMu.Lock()` and the deferred unlock.
- `NextWave*`, `Intercept`, `DispatchWave`, `Spawn`, `SpawnFails`, `SpawnDone`:
  `dispatchNextWave`, `DispatchWave`, `SpawnAll`. The wave is any nonempty set
  of dispatchable ready stories up to the cap (wave hints and owned files
  choose among them). A handled story is added to `done`, as in the code.
- `ManagerRetries`: the escalation event with a lower tier; `CurrentTier` is a
  maximum, so the tier does not fall.
- `*Command`: the operator, at any moment.

Abstractions, each with its reason:

- Store writes succeed, and append and projection are one step; `StateDirectory`
  takes them apart. Panics do not happen; `recover` in `pollOnce` would be
  `StageFails`.
- Reviewer, QA and merger are wired, as `runResume` wires them. A failure event
  of the reviewer or QA and the reset that follows are one step: nothing is
  dispatched in between, because the pipeline is still running.
- Tiers and failures are counters here; `EscalationLog` is the log they are read
  off. The gate is one verdict here; `CompletionGate` has its cycles.
- All agents have one role, so the n-th session name of every wave is the same
  name: a *slot*. With several roles fewer names clash.
- `MergeMode` is constant in an instance. `"pr_only"` is a mode other than
  manual with `merge.auto_merge` off; `plan_only` merges as `auto` does.
- `estimated` is dispatched as `draft` is, and is `draft` here.
- A split creates its children without edges: `DependsOn` is empty after
  `rebuildDAG`. The chain a tech-lead split puts between children in memory is
  left to `PlanGraph`; the instances split into one child.
- The forge refuses a second open pull request for one branch (outside the
  repository; `gh` reports an error and `CreatePR` returns it).
- approve is a process beside the run, and one per story at a time: it asks for the
  status, merges on the forge, records the merge and records the approval
  (`ApproveChecks`, `ApproveMerges`, `ApproveRecords`, `ApproveEnds`), and may fail or be
  killed between any two of them.
- A worktree disappears only by a merge's cleanup or a manager's reset, so
  `WorkLost` needs the latter or somebody else's hand.

### How the other modules correspond to the code

- `RunLock`: a process looks at the file (`AcquireLock`, with the liveness test
  of the owner), truncates it (`TruncateLock`), writes it (`WriteLock`; into a file
  unlinked meanwhile, `WriteUnlinked`), and removes it unconditionally
  (`ReleaseLock`). `Die` is a kill at any step. PIDs are not reused.
- `StateDirectory`: append and projection are two steps with failures; a machine
  crash, or a `Write` that fails half way on a full disk (`ShortWrite`), tears the last
  line and the next append continues it; `vxd replay` moves
  the database aside and fills a new one while others keep the old file open.
  A table is a function of what was projected (`ProjectionTables`). Left out: the pool of
  `database/sql` may open a dropped connection again, by path; `vxd archive`'s own append
  does not fail.
- `PlanGraph`: plans, files and edges a model answers with are inputs; the
  planner's rejections, edges between owners of a file, and the appended
  integration and scribe stories are the code's. A kill keeps the tables and the
  agents and forgets the graph.
- `EscalationLog`: an event is [kind, tier, stamp]; `CurrentTier`,
  `RetryCountAtCurrentTier`, `routeStory` and the cached column each read it by
  their own rule. The monitor decides first and appends afterwards; a reset of
  another process may be stamped and appended in between.
- `CompletionGate`: trees are "green" or not, of origin and of the checkout; the
  pull that deletes the gaps file, each fix cycle, Ctrl-C and kills between any
  two steps; what decides whether a later `vxd resume` runs the gate alone.
- `DevDB`: names are sequences of segments, because recovery parses them, and hold the
  story's id in lower case (`FormatDBName`), while `FindOrphans` compares with the ids as
  they are. The machine has several projects: each requirement is in one
  (`settings.home`), runs of one project exclude each other, and all share the container
  (or the ghost space); a `vxd resume` cleans up knowing the stories of its requirement, a
  `vxd db gc` those of its project (`OrphanRecovery`). `dbLog` is what the `STORY_DB_*` events
  come to, the rows a `vxd replay` gives `story_databases`: no run projects these events, so
  the table itself lags. What is one step here: creating a database with the append of
  its event (a kill or a failed append in between is an outcome, `cut`, `mute`), a
  release, and a clean-up, which reads the stories and deletes at once. All
  projects have the same settings, and ids are unique on the machine.
- `StoryBranch`: a tree is the set of attempts whose work is in it, the kinds of
  file in conflict, lost files and leftover markers. The rounds of a rebase,
  the resolver's rule per kind of file, and what each error leaves behind.
- `ModelCalls`: a stack of clients per route, with retries, quota cooldown,
  fallback and metering; an answer is ok, limited, down or another error, and
  whether its class survives the wrappers is what the model tells apart.
- `SecurityGate`: a worktree is its defects, each with the scanner that sees it.
  Load, scan, review, learn, save and judge are steps of several reviews.
- `Autoresearch`, `ImproveRun`, `Opportunities`: steps as in the code, with kills
  between them; what a model writes or a site answers is an input.
- `DashboardDaemon`: `Startup` is the order of the code (listen, token, bootstrap
  file, pidfile, serve). A `vxd req` probes, spawns or waits, and then reads the
  file of its own project. `VXD_DASHBOARD_TOKEN` is not set. Removing one's own
  pidfile is one step, and files that cannot be written fail together.
- `DashboardHub`: a tick lists the log, copies the clients, pushes and counts;
  the handshake and commands are steps in between. The story's status, which no
  handler reads, is left out.

## 3. Runs

The delivery instances use at most three stories and two sessions;
`CHECK_DEADLOCK` is off because a finished requirement nobody resumes really
stops, as do the other components when their bounds are used up. Retry limits of
0 or 1 bring every tier within reach; `FailCap` merges counts no limit tells
apart (`FailCapAssumption`). `MaxCrashes` bounds crashes and detaches.

| Run | Instance | Checks |
|---|---|---|
| `delivery_auto` | a, b unrelated; two sessions; auto merge; one crash | `TypeOK`, `MergeExclusive`, `WorkerIsolation`, `TrackedOnce`, `MergedIsFinal`, `KeepsPromise` |
| `delivery_manual` | b after a; one session; manual mode; all commands; cleanup off | `AwaitingIsMergeable`, `TrackedOnce` |
| `delivery_escalation` | a may split into c; all tiers; SLA escalation; pr_only | `VerdictCoversAllStories`, `RunTerminates`, `KeepsPromise` |
| `delivery_recovery` | b after a; one session; two crashes; patient operator | `DependenciesFirst`, `StalledIsPickedUp` |
| `state_directory` | a resume, a command, two replays, any three of them; two log lines | `DirTypeOK`, `ExclusiveUnlessContended`, `NoDoubleProjection`, `ProjectedIsLogged`, `PartialOnlyIfInterrupted`, `ReplayRepairs` |
| `components` | twelve components, one per behaviour | the properties below |

Two stories and two sessions are the least for two pipelines to meet in the
checkout and for a detached agent's name to be reused; one more crash in
`delivery_recovery` lets recovery itself be interrupted; the third story is the
child of a split. Longer chains add no new kind of step: a wave depends on the
readiness of each story separately.

`state_directory`: two processes are the least for a race on the lock, the third
is the one that finds what they left. The constraint `ThreeRun` drops behaviours
with all four, so every set of three is checked. Symmetry swaps the two replays,
which no property tells apart.

`components` composes modules that share no variable. `part` says which of them a
behaviour is about and the others keep their initial state, so the state spaces
add up instead of multiplying, and nothing is lost: no action of one reads a
variable of another. Symmetry swaps k1 and k2, the ids a split may give.

| Component | Bounds | Properties |
|---|---|---|
| `PlanGraph` | two planned stories with appended integration, one split, two processes | `StrandedOnlyByUnchecked`, `SharedFileNeverParallel`, `ComposedLast` |
| `EscalationLog` | nine events: through all tiers and over a reset | `TierColumnAgrees`, `EscalatedStaysSenior`, `ClimbsTheLadder` (refinement of `TierLadder`) |
| `CompletionGate` | one requirement and a foreign run, one fix cycle, two resumes | `BlockedHasGaps`, `CompletionIsEarned` |
| `DevDB` | two stories of two requirements in one project, one id with a capital letter, and a third requirement that is done, for Docker in a project of its own; Docker without and ghost with `on_failure.keep_db`; one port, two runs, two databases | `AgentKeepsDatabase`, `DeletedIsGone` |
| `StoryBranch` | two attempts, two rounds, the base moves once | `PushedIsReviewed`, `ConflictKeepsStory`, `GreenStaysGreen` |
| `Autoresearch` | two experiments at once, a tie and one outside its scope, all gates | `KeptIsJudged` |
| `ModelCalls` | four stacks, one retry, quota and budget of 1 | `OutageCostsNothing` |
| `ImproveRun` | one finding and a heal, one pull request per run, two runs | `OpenPRsAccountedFor` |
| `Opportunities` | two runs, one shell, one command | `SavedIsKept` |
| `SecurityGate` | one story beside a scan, one defect per worktree | `MergedIsScanned` |
| `DashboardDaemon` | two daemons, two `vxd req` in one project, two tokens, one stop | `PrintedUrlLetsIn` |
| `DashboardHub` | one tab, three events, tiers 0 and 1 | `NoEventMissedOrTwice` |

and `ComponentsTypeOK` for all of them; all are also proved for every value of the
constants (section 4). Daemons and runs are numbered in the
order they start, which loses nothing as they are alike. Each bound is the least
at which the case its property is about happens twice or beside another: the
mutants of `PROJECT.json`, one per property, show that each of them can fail.
Several of these properties have an excuse, a history variable that names when
the code gives no guarantee (`contended`, `rawUsed`, `early`, `apart`, `mishaps`,
`strayed`, `exposed`, `kbRaced`, `uncounted`, `robbed`, and `logged` of a database); each
excuse is in the comment of its property, and the defects behind them are `findings`. An
excuse also bounds what its property catches: `contended` (two processes past a stale or
forced lock), `exposed` (two processes in one opportunities file) and `kbRaced` (reviews side
by side over the knowledge base) name the very races of three hazards, which those
properties therefore do not catch; the hazards say so.

Six runs end in a counterexample, because the code does not do what its
documents, comments or tests say (details under `findings` in `PROJECT.json`):

- `pause_respected`: the pause flag is read before the interception that may
  set it, and the wave goes out.
- `handled_story_blocks`: a story the manager handled is complete for the rest
  of the wave, so its dependents start.
- `awaiting_survives_cleanup`: with default settings and manual review the
  final cleanup closes pull requests that wait for approval.
- `merge_resumed`: after QA passed nothing ever resumes an interrupted merge.
- `archived_survives_replay`: archiving writes the tables directly, and the event
  it appends projects to another status, so a replay brings the requirement back.
- `split_order`: dependents of a split story start before its children, because
  the stories a resume plans with carry no dependencies to rewire.

The other findings were met while modelling and have no run; `PROJECT.json`
quotes code and text for each.

Properties and what they are not claimed for. `DependenciesFirst` is not
claimed with a manager (the finding above) or with reject and retry, which
undo a dependency after its dependents started. `MergedIsFinal` and `WorkerIsolation`
are not claimed with approve and reject together: a reject that comes between the
status approve has read and its merge puts the story in draft, and the merge is then recorded
over whatever has become of it (a finding). `WorkerIsolation` is not claimed either with
`retry`, with SLA escalation or with a manager: each may put a story whose agent
is alive back in draft (the manager after a restart, because the interception
looks at the tier of a ready story and not at its status). `VerdictCoversAllStories` is not claimed with `retry`. `StalledIsPickedUp`
is claimed for one session: two orphans recorded under one name can starve each
other, for only one of them is tracked.
`AgentKeepsDatabase` is claimed for ids that `ParseStoryID` gives back (two segments in lower
case, the shape the comment of `FormatDBName` shows) and against the clean-ups that know the
story. It is not claimed for the ids of three segments the planner makes, whose databases
every clean-up takes for orphans, nor against a clean-up of another requirement or another
project, an SLA that passes, or an archived requirement: each takes the database of a live
agent (findings). `DeletedIsGone` speaks of the rows a replay gives, not of the table
between replays (a finding). `EscalatedStaysSenior` leaves out stories a tier sends to
senior by their complexity. `OutageCostsNothing` speaks of outages the code can tell: a
network error whose text is not on the list of signatures is an error like any other.
The properties of `EscalationLog` count failures by events: one failed review that is
recorded twice climbs one rung all the same (a finding; no property catches it).

### Fairness

`FairSpec` assumes what the process does by itself while it is up: the poll
finds a finished session, every stage of a pipeline returns (each is bounded by
`pipeline_timeout_s`, and a Go mutex is handed on), interception, dispatch and
gate go on. It assumes that agents end, as `claude -p` does. It assumes nothing
about crashes, resumes or commands. `PatientSpec` adds an operator who resumes
whenever nothing runs; it is used where a property speaks of later runs.

## 4. Proofs

`DeliveryProofs` proves, for every number of stories, sessions, retries and
crashes, every dependency graph, split and configuration, from the constants'
assumptions only:

- `Typed`: `Spec => []TypeOK`. The one non-obvious point is that a tier never
  passes 3: `resetStoryToDraft` pauses there.
- `Exclusive`: `Spec => []MergeExclusive`, as an equivalence: a pipeline is in
  the shared checkout exactly while it holds the lock. The equivalence is
  inductive where the implication alone is not: the unlock needs to know the
  lock is the pipeline's own.
- `OncePerStory`: `Spec => []TrackedOnce`. It is not inductive by itself. Two
  facts are missing: a story waiting to be spawned has a session of its own and
  is not tracked yet (`SpawnPending`), and no pipeline runs outside tracking
  (`PipelinesOnlyInTrack`), which is what `pipelineWG.Wait` is for. Together they
  are `TrackingInv`.

Each action has its lemma for types and its lemma for `TrackingInv`; actions
that leave the process's memory alone share `TrackingQuiet`.

`DeliveryProofs` also proves three properties that hold in some configurations
only; each theorem assumes just the settings it needs and leaves everything else
open, the number of crashes included.

- `Approvable` (cleanup of dangling branches off): `[]AwaitingIsMergeable`. Such
  a story has a pull request that is open, or merged and about to be recorded. The invariant
  `ApprovalInv` adds that a story with a pipeline is not awaiting_approval, and that
  the merge stage has an open or merged pull request.
- `MergedFinal` (no `vxd retry`, not both approve and reject): `MergedIsFinal`. `MergedInv` adds to
  `TrackingInv` that the stage of a pipeline fixes the status of its story
  (`StageFits`), that a merged pull request is at worst not recorded yet
  (`MergedIsBehind`), and that whatever is tracked, assigned or queued for
  interception is unfinished (`HandedOutIsUnfinished`); `ApprovingInv` adds that what
  approve has read of its story stays true while it works from it (`ApprovalFits`), which is
  what reject would break. The action property then follows from the invariant before and
  after the step.
- `Isolated` (no manager, no SLA escalation, no `vxd retry`, not both approve and
  reject): `[]WorkerIsolation`.
  `IsolationInv` adds that an agent at work sits in the session recorded for its
  story (`AgentsAreKnown`), that what is to be spawned is still assigned, and
  that an agent is tracked under the recorded name. Reuse of a name by a later
  wave is safe because the spawn replaces the old session and only stories in
  draft are dispatched.

The settings are not decoration: each property fails in the model as soon as one
of the excluded ones comes into play.

`DeliveryOrderProofs` proves four more.

- `VerdictCovers` (no `vxd retry`, no `vxd reject`): `[]VerdictCoversAllStories`.
  `VerdictInv` adds that once the run is in the gate every story is complete: a
  split cannot happen there, and after a verdict only a resume moves.
- `InOrder` (no manager, retry or reject): `[]DependenciesFirst`. A failed
  merge makes a complete story incomplete again, so "its dependencies are complete
  now" is not inductive for a story that is only queued: `OrderInv` says that every
  story handed out, to be spawned, tracked or in its pipeline (`Engaged`) has
  dependencies that are complete and out of their pipelines (`DepsSettled`), and
  that the completed set of a wave holds only such stories. It contains
  `ApprovingInv`, from which it follows that no pipeline of a complete story starts again.

- `PromiseKept` (no retry or reject, and a manager only where no story depends on
  another): `DeliveryPipeline` implements `WaveDelivery` under the refinement mapping of
  `DeliveryProperties`. Initial states map to initial states, and each action has a
  lemma that names the step of `WaveDelivery` it is, or that it stutters. `WorkIsKept`
  (what was started has its worktree, and no story is left in approved), `VerdictInv` and, for the
  order, `OrderInv` supply the guards of the abstract steps.
- `PromiseKeptButOrder` (no retry or reject, any manager, splits and dependencies): it
  implements `WaveDelivery` but for the order of the stories (`KeepsPromiseButOrder`). The
  finding `handled_story_blocks` shows that the manager's interception gives up the
  order; the rest of what a run promises is kept beside it.

`StateDirectoryProofs`, for any number of resumes, commands, replays, log lines
and databases:

- `LockExcludes` (for `RunLock` alone) and `DirectoryExcludes` (composed with the
  stores): `[]ExclusiveUnlessContended`. `LockInv`: as long as nobody contended, at
  most one live process is between its look and its release (`OneEngaged`), and
  the file names it or is its own truncation (`FileTells`). The steps of
  `StateDirectory` are steps of `RunLock` or leave it alone.
- `DirectoryTyped`, `NoPartialProjection`, `LogIsTheSource`, `ProjectedOnce`,
  `ReplayIsRepair` share `DirInv`, which is `LockInv` and `StoreInv`. The heart of it is
  `AloneBuilds`: without contention the ids in a database differ, what a process
  has still to project is in no database it can reach, and a replay that holds
  the lock is `Building`: its database has nothing of what it still has to project,
  no process with that file open is about to project a line the replay has read, and
  if the log has not grown the database is a prefix of it that the remaining lines
  complete. A log torn while a replay works has grown since the replay read it
  (`OpenFiles`), and what it read stays as it was (`ReadUntouched`). None of the five
  follows from itself: that a line is not projected twice depends on what the replay has read, and that on the order of append and projection
  in every other process.

`RequirementProofs`:

- `SeniorKept`, `TierCached`, `LadderClimbed` (`EscalationLog`, for any limits).
  `EscInv` adds to the cached tier that what the monitor is about to append is still right
  unless a reset was appended since (`DecisionStands`: one rung up with the attempts used
  up, or the manager's retry below its own tier) and what a reset on its way will clear (`ResetWillClear`). With it
  every step of the log is a step of `TierLadder` or a stutter.
- `BlockedExplained`, `CompletionEarned` (`CompletionGate`, for any requirements and
  numbers of cycles and runs). `GateInv`: a verification tells the truth of the tree
  it ran on (`FoundIsTrue`), the requirement whose gate runs has pulled last and is not
  blocked, and a red verdict about to be recorded has its gaps on file (`GateRuns`).
- `NeverStranded`, `FilesNeverShared`, `ComposedComesLast` (`PlanGraph`, for every answer of
  the model, split and re-plan). `PlanInv`: the tables are a prefix of an accepted
  plan and its children (`FollowsPlan`), the graph in memory has every stored dependency
  and no cycle as long as nobody gave it unchecked edges (`GraphHolds`), who was not
  started early was started after its dependencies (`StartedInOrder`), and in the first
  process the agents are of one wave (`FirstRunAgrees`). That the owners of a file are
  started in turn is an induction along the chain of owners (`OwnersAreChained`).

`StoryWorkProofs`:

- `MergesAreScanned` (`SecurityGate`, any stories, reviews side by side, defects).
  `SecInv`: what a scanner can see of a worktree is among the findings until the verdict
  (`FindingsStay`), and without a race one review at most has the knowledge base in hand,
  with all that was learned in what it is going to write (`LessonsStay`).
- `OutagesAreFree` (`ModelCalls`, any stack, retries, quotas): what a call returns was
  heard, or is a denial that lost its class on the way (`ResultWasHeard`).
- `PushesAreReviewed`, `StoryIsKept`, `BaseStaysGreen` (`StoryBranch`, any attempts,
  rounds and moves of the base). `BranchInv` relates HEAD, the branch and the base at
  each point of the pipeline: HEAD shows the branch, or an abort of the rebase returns to
  it (`TipIsHead`); markers live only in a rebase that was left open (`MarkersStayOut`);
  from review to merge the work is the checked one (`WorkStands`); and a red story
  goes on only over a red base (`RedIsRed`).

`BackgroundProofs`:

- `PullRequestsAccounted` (`ImproveRun`): the changelog and the forge agree but for the
  entry that is written next (`Accounted`), and a branch past the gates fits them
  (`PastGates`).
- `KeptWasJudged` (`Autoresearch`): what was released stays in its state
  (`ReleasedStands`), every win is one of it (`WinsStand`), and each step of an experiment
  has what the step before established (`OnItsWay`).
- `AgentKeepsIt`, `DeletedStaysGone` (`DevDB`, any projects, stories, settings): `DbInv` adds to
  both properties that nothing runs before `vxd.yaml` is written (`Configured`), that every
  database carries the name of its story, whatever its project is called (`DbNamed`), and that
  recorded numbers are of databases already made (`RowsNumbered`), so that a new ghost
  database has no row yet and a Docker name that is used again has its row written over.
  `ParsesBack` says when `ParseStoryID` inverts `FormatDBName`: on two segments that
  lower-casing leaves alone. It is where the exclusions of `AgentKeepsDatabase` come from.
- `SavedStaysKept` (`Opportunities`): until processes meet in a file, one command
  rewrites it at a time, what that one read is what it holds, what it emptied is empty
  (`Alone`), and what was saved is in the file or with the one about to write it
  (`SavedIsStored`).

`DashboardProofs`:

- `UrlLetsIn`: `DashSpec => []PrintedUrlLetsIn` for any number of daemons, runs and
  projects. `DashInv` says that a daemon past its listener has the port, so only it
  writes files and its own project's bootstrap file stays its own while it runs
  (`DaemonOwns`); that a nonce is spent only on the daemon that serves and hands out that
  daemon's token (`NonceGivesToken`); and that the daemon that answered a run has left
  start-up and will not write again, so that what the run printed is its nonce
  (`HandleKnows`). Each action has a lemma; those of one daemon share `DaemonFrame`.
- `NothingMissed`: `HubSpec => []NoEventMissedOrTwice` for any number of tabs and events.
  The property speaks of the last count, which a tick sets after it pushed; `HubInv`
  therefore says it of `Done`, up to where every tick has pushed or passed over events
  (`Told`), with where the count can be at each step of a tick (`Counts`) and which clients
  a tick's copy of the set lacks (`Registered`: a tab that came in later has a later
  snapshot).

The types of each component are a theorem of its module (`PlanIsTyped`, `GateTyped`,
`SecIsTyped`, `McIsTyped`, `BranchIsTyped`, `IrIsTyped`, `ArIsTyped`, `OppIsTyped`, `DbIsTyped`,
`DaemonsTyped`, `HubIsTyped`; `EscalationLog` has its own in `EscInv`). Several need more
than types, because every step has to keep a bound: the depth of a split (`DepthBounded`), the
call that is at a client its stack has (`McTyped`), the pull requests of a night
(`IrCounts`), the width of a wave (`ArCounts`), the lowest free port, which exists by the
well-founded order of the numbers (`AcquireTyped`), and the runs an opportunity can come from
(`OppBounded`).

`ComponentsProofs` carries them to the instance TLC checks. `WholeIsItsParts`: a behaviour of
the composition, in which one component moves and the others stand still, is a behaviour of
each of the twelve specifications; so every theorem on a component is one on the whole.
`ComponentsTyped` is `[]ComponentsTypeOK`.

With this every invariant of every passing run is a theorem.

### Assumptions

All theorems use only the named assumptions on constants of the modules:

- `ProcessAssumption` (`StateDirectory`): a process has one role, and `MaxLog`, `MaxFiles` are
  numbers.
- `PlanGraphAssumption`: a plan is a sequence of records with an id, dependencies, files
  and two flags; dependencies may name anything, as only `Accepts` checks them.
- `DevDBAssumption`: ids of stories and names of projects are sequences of segments, a story
  has a requirement, `vxd.yaml` names a provider, and the bounds are numbers.
- `ModelCallsAssumption`: the stacks are among those the code builds.
- `AutoresearchAssumption`: a diff's score is measured from the baseline in units of the tie
  epsilon, and three units stand for any larger distance.
- The other assumptions say that a bound is a number, or one is positive, or that the
  id nobody has is nobody's.

### What a proof attempt changed

- `SharedFileNeverParallel` was true of two owners of a file and false of three: with a,
  b and c owning it in turn, b started early is no dependency a restart keeps for a
  and c. Its exception now is that some planned owner of each common file was started
  early. The run checks it for two owners, `FilesNeverShared` proves it for any chain.
- `ComposedLast` needs an exception for a child of a split that has the id of an appended
  story, which a plan that was cut short lets it have.
- `Accepts` and `Acyclic` were computed by counting; they are stated by quantifiers now,
  which mean the same and can be reasoned about. `Ranked` is the set of scores above the
  threshold, as only its size matters.
- `AgentKeepsDatabase` held of every id of two segments while names kept the id as it is.
  With the lower-casing of `FormatDBName` in the model `ParsesBack` needs the hypothesis that
  lower-casing leaves the id alone, and with more than one project the invariant needs
  `robbed`; both are findings now.
- With approve as one step `MergedIsFinal` and `WorkerIsolation` were provable beside reject.
  Taken apart, approve leaves the window above open: the theorems say so.
- The manager used to be excluded from the refinement altogether. Doing without that
  hypothesis showed which part of the promise it breaks: the order alone.

### What TLC alone checks

- Liveness: `RunTerminates`, `StalledIsPickedUp`. The prover has no rule that derives
  a leads-to from fairness, and none for ENABLED.
- The six violations: a counterexample is a run, not a theorem.
- The contents of tables (`ProjectionTables`) are a function of the log, and what that
  function computes for every log is an induction over data; no theorem is about it.
  `ReplayIsRepair` needs only that equal logs have equal tables. Inductions over a finite
  set are possible, by the well-founded order of its subsets
  (`FS_StrictSubsetOrderingWellFounded`, as in `BoundedHasMax` and `NatHasMin`).

## 5. Not modelled

- Terminal dashboard: reads the stores on a tick and writes nothing.
- Repository learning, code graph, memory, design imports, generated documents,
  prompts, diagnostics: one pass of text processing for prompts; no later step relies on state
  they keep.
- Configuration, preflight: what they decide enters the models as constants.
- Estimates, classification of requirements, watchdog fingerprints, checkpoint.json (written
  and never acted on), wave context, notifications, metrics and reputation
  tables.
- Helpers (sanitising, secrets, SQL and shell safety, criteria): pure functions.
- Panics; store writes that fail inside a pipeline; two requirements in one
  run of `DeliveryPipeline` (the code runs one per process).

## 6. What is left

- Failing appends inside the pipeline: `DeliveryPipeline` over `StateDirectory`.
- Proofs of the two liveness properties, once the prover has rules for fairness.
- What is left of `WorkerIsolation` with SLA escalation or a manager: a weaker property that
  says which agents may then meet.
