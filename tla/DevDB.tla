-------------------------------- MODULE DevDB --------------------------------
(***************************************************************************)
(* The ephemeral database of a story: provisioned when its agent is        *)
(* spawned, released when its pipeline ends or its SLA passes, and looked  *)
(* for by its name when a later command cleans up after runs that were     *)
(* killed.  Two providers: Postgres in one Docker container, where the     *)
(* name is the identity, and the ghost service, where every database has   *)
(* an id of its own.  Every project on the machine has its own stories and *)
(* its own run lock, and all of them share the container (or the space).   *)
(***************************************************************************)
EXTENDS Naturals, Sequences, FiniteSets

CONSTANTS
  DbStories,    \* story ids, each a sequence of the segments between hyphens
  LowerCase,    \* strings.ToLower on segments
  DbReqs,       \* requirements, of all projects
  ReqOf,        \* the requirement of a story
  DbSettings,   \* what vxd.yaml can say, see settings
  LastPort,     \* the port range is 1..LastPort
  MaxDbRuns,    \* bound: runs of `vxd resume'
  MaxDatabases  \* bound: databases created

ASSUME DevDBAssumption ==
  /\ LastPort \in Nat \ {0} /\ MaxDbRuns \in Nat /\ MaxDatabases \in Nat
  /\ DbStories \subseteq Seq(STRING) /\ ReqOf \in [DbStories -> DbReqs]
  /\ DbSettings \subseteq [provider : {"docker", "ghost"}, keep : BOOLEAN,
                      home : [DbReqs -> Seq(STRING)]]

DbPrefix == "vxd"

VARIABLES
  settings,   \* vxd.yaml, the same in every project, and the project each
              \* requirement is in: [provider, keep, home]
  databases,  \* what exists: [id, name, story, logged], whose story and whether the
              \* event of its creation was appended are history
  dbLog,      \* what the STORY_DB_* events of the logs come to: status per
              \* <<story, db_id>>, the rows a `vxd replay' gives story_databases
  phase,      \* of a story: "draft", "assigned", "in_progress", "closed" (merged or
              \* archived)
  agent,      \* of a story: [works, db], the database it can count on
  dbRun,      \* the resume process of a requirement: [on, first, todo, held, dsn,
              \* port, taken], of which todo is what is left to spawn in this wave,
              \* held the databases the monitor knows
  container,  \* [exists, running, port]
  made, dbRuns,
  robbed      \* history: stories at work whose database the operator, or a clean-up
              \* on behalf of other stories, deleted

dbVars == <<settings, databases, dbLog, phase, agent, dbRun, container, made, dbRuns, robbed>>

NoAgent == [works |-> FALSE, db |-> 0]
NoDbRun == [on |-> FALSE, first |-> TRUE, todo |-> {}, held |-> [s \in DbStories |-> 0],
            dsn |-> FALSE, port |-> 0, taken |-> {}]
StoriesOf(r) == {s \in DbStories : ReqOf[s] = r}
Drafts(r) == {s \in StoriesOf(r) : phase[s] = "draft"}

DbInit ==
  /\ settings = [provider |-> "none", keep |-> FALSE, home |-> [r \in DbReqs |-> <<>>]]
  /\ databases = {} /\ dbLog = <<>> /\ made = 0 /\ dbRuns = 0 /\ robbed = {}
  /\ dbRun = [r \in DbReqs |-> NoDbRun]
  /\ phase = [s \in DbStories |-> "draft"] /\ agent = [s \in DbStories |-> NoAgent]
  /\ container = [exists |-> FALSE, running |-> FALSE, port |-> 0]

(* The operator writes the devdb section before the first run.              *)
Configure ==
  /\ settings.provider = "none" /\ settings' \in DbSettings
  /\ UNCHANGED <<databases, dbLog, phase, agent, dbRun, container, made, dbRuns, robbed>>

(* --- names -------------------------------------------------------------------- *)

ToLower(s) == [i \in DOMAIN s |-> LowerCase[s[i]]]
FormatDBName(project, story) == <<DbPrefix>> \o project \o ToLower(story)
NameOf(s) == FormatDBName(settings.home[ReqOf[s]], s)

(* Mistake: the story is what follows the project's first segment.          *)
ParseAfterProject(name) ==
  IF Len(name) < 3 THEN <<>> ELSE SubSeq(name, 3, Len(name))

(* ParseStoryID: the last two segments, whatever the id looks like.         *)
ParseStoryID(name) ==
  IF Len(name) < 3 \/ Head(name) # DbPrefix THEN <<>>
  ELSE SubSeq(name, Len(name) - 1, Len(name))

(* --- the Docker provider: container, port, connection ------------------------- *)

(* EnsureContainer: the port of a container that is already there is not    *)
(* asked for, the lowest free one of this process is assumed.               *)
Acquire(run) ==
  LET free == 1..LastPort \ run.taken IN
  IF free = {} THEN run
  ELSE LET p == CHOOSE q \in free : \A o \in free : q <= o
       IN [run EXCEPT !.port = p, !.taken = @ \cup {p}]
Container == [exists : BOOLEAN, running : BOOLEAN, port : 0..LastPort]
Up(p) == [exists |-> TRUE, running |-> TRUE, port |-> p]
EnsureContainer(run, c) ==
  LET acquired == Acquire(run)
      settled  == IF run.port = 0 THEN acquired ELSE run
      full     == 1..LastPort \subseteq run.taken IN
  {[run |-> run, c |-> c]}                                        \* the daemon is down
  \cup (IF c.exists
        THEN {[run |-> [settled EXCEPT !.dsn = TRUE], c |-> Up(c.port)]}
        ELSE IF full THEN {}
        ELSE {[run |-> acquired, c |-> c],                        \* no image
              [run |-> acquired, c |-> [exists |-> TRUE, running |-> FALSE,
                                        port |-> acquired.port]],
              [run |-> [acquired EXCEPT !.dsn = TRUE], c |-> Up(acquired.port)]})

AdminConn(run, c) ==
  IF settings.provider = "ghost" THEN {[run |-> run, c |-> c, up |-> b] : b \in BOOLEAN}
  ELSE LET tries == IF run.dsn THEN {[run |-> run, c |-> c]} ELSE EnsureContainer(run, c)
       IN {[run |-> t.run, c |-> t.c,
            up |-> t.run.dsn /\ t.c.running /\ t.run.port = t.c.port] : t \in tries}

(* --- events, and the rows they come to -------------------------------------------- *)

DbRow(s, id) == <<s, id>>
PutRow(r, s, id, status) ==
  [k \in DOMAIN r \cup {DbRow(s, id)} |-> IF k = DbRow(s, id) THEN status ELSE r[k]]
(* projectStoryDBDeleted is an UPDATE: without a row nothing is recorded.   *)
CloseRow(r, s, id, status) == IF DbRow(s, id) \in DOMAIN r THEN PutRow(r, s, id, status) ELSE r
(* Ids are numbers, 0 is none.  For Docker, and in a STORY_DB_FAILED event, *)
(* the id of a story's database is its name.                                *)
ByName == MaxDatabases + 1
IdOf(n) == IF settings.provider = "docker" THEN ByName ELSE n
Database(s, id, logged) == [id |-> id, name |-> NameOf(s), story |-> s, logged |-> logged]
Existing(s) == {d \in databases : d.name = NameOf(s)}

(* --- Lifecycle.Provision and the spawn around it --------------------------------- *)

(* The ghost client repeats a POST whose answer was lost or 5xx, though it  *)
(* may have been served: two databases of one name, and one handed out.     *)
ServedTwice(s) ==
  IF settings.provider = "docker" \/ made + 1 >= MaxDatabases THEN {}
  ELSE {[result |-> "ok", new |-> {Database(s, made + 1, TRUE), Database(s, made + 2, TRUE)},
         id |-> made + 2]}

(* What Create or Fork, the env files and the event can come to.  ok: the   *)
(* new database is recorded and handed out; mute: handed out, but the       *)
(* Append failed, which no one looks at; leak: it exists and the event says *)
(* it does not (the service's answer came too late, the env file could not  *)
(* be written); cut: the run is killed before it records anything.          *)
Provisioned(s, up) ==
  LET id == IdOf(made + 1)
      nameTaken == settings.provider = "docker" /\ Existing(s) # {} IN
  {[result |-> "failed", new |-> {}, id |-> 0]}
  \cup (IF ~up \/ nameTaken \/ made >= MaxDatabases THEN {}
        ELSE {[result |-> r, new |-> {Database(s, id, r \in {"ok", "leak"})}, id |-> id] :
                r \in {"ok", "mute", "leak", "cut"}})
  \cup (IF up THEN ServedTwice(s) ELSE {})

(* No caller projects the event: the table story_databases stays as the     *)
(* last `vxd replay' left it.                                               *)
RecordProvision(s, p) ==
  dbLog' = CASE p.result = "ok"              -> PutRow(dbLog, s, p.id, "created")
             [] p.result \in {"cut", "mute"} -> dbLog
             [] OTHER                        -> PutRow(dbLog, s, ByName, "failed")

(* Executor.spawn in a wave of this run; the database of the first wave is  *)
(* not passed to the monitor.  After a kill, or when the runtime does not   *)
(* start, the story stays assigned, and a database created for it is left.  *)
SpawnStory(s) ==
  LET r == ReqOf[s] IN
  /\ s \in dbRun[r].todo
  /\ \E conn \in AdminConn(dbRun[r], container) :
     \E p \in Provisioned(s, conn.up) : \E starts \in {FALSE, p.result # "cut"} :
       LET given == IF p.result \in {"ok", "mute"} THEN p.id ELSE 0
           known == IF starts /\ ~dbRun[r].first THEN given ELSE 0 IN
       /\ databases' = databases \cup p.new /\ made' = made + Cardinality(p.new)
       /\ RecordProvision(s, p) /\ container' = conn.c
       /\ dbRun' = [dbRun EXCEPT ![r] =
            IF p.result = "cut" THEN NoDbRun
            ELSE [conn.run EXCEPT !.todo = @ \ {s}, !.held = [@ EXCEPT ![s] = known]]]
       /\ phase' = [phase EXCEPT ![s] = IF starts THEN "in_progress" ELSE "assigned"]
       /\ agent' = IF starts THEN [agent EXCEPT ![s] = [works |-> TRUE, db |-> given]] ELSE agent
       /\ robbed' = IF starts THEN robbed \ {s} ELSE robbed
  /\ UNCHANGED <<settings, dbRuns>>

(* --- Lifecycle.Release, at the end of a pipeline or when the SLA passes --------------- *)

(* By id for ghost, by name for Docker.                                     *)
DeleteOf(s, id) == {x \in databases : ~(x.id = id /\ x.name = NameOf(s))}

(* Mistake: the error of the provider's delete is dropped.                  *)
DeleteResultUnread(s, id, done) == CloseRow(dbLog, s, id, "deleted")
(* A delete that failed, or whose answer was lost, is recorded as a failure. *)
DeleteResult(s, id, done) ==
  IF done THEN CloseRow(dbLog, s, id, "deleted") ELSE PutRow(dbLog, s, ByName, "failed")

Held(s) == dbRun[ReqOf[s]].held[s]
ReleaseDB(s, outcome) ==
  LET r == ReqOf[s]
      id == Held(s) IN
  IF id = 0 THEN UNCHANGED <<databases, dbLog, dbRun, container>>
  ELSE IF outcome # "success" /\ settings.keep
  THEN /\ dbLog' = CloseRow(dbLog, s, id, "retained")
       /\ UNCHANGED <<databases, dbRun, container>>
  ELSE \E conn \in AdminConn(dbRun[r], container) : \E gone \in {FALSE, conn.up} :
         \E done \in {FALSE, gone} : \E killed \in BOOLEAN :
           /\ container' = conn.c
           /\ dbRun' = [dbRun EXCEPT ![r] = IF killed THEN NoDbRun ELSE conn.run]
           /\ databases' = IF gone THEN DeleteOf(s, id) ELSE databases
           /\ dbLog' = IF killed THEN dbLog ELSE DeleteResult(s, id, done)

Monitored(s) == dbRun[ReqOf[s]].on /\ agent[s].works /\ s \notin dbRun[ReqOf[s]].todo

(* postExecutionPipeline of a story whose agent's session has ended; after  *)
(* the last one the monitor dispatches the next wave.                       *)
EndPipeline(s) ==
  /\ Monitored(s)
  /\ \E outcome \in {"success", "failed", "paused"} :
       /\ ReleaseDB(s, outcome)
       /\ phase' = [phase EXCEPT ![s] = IF outcome = "success" THEN "closed" ELSE "draft"]
  /\ agent' = [agent EXCEPT ![s] = NoAgent] /\ robbed' = robbed \ {s}
  /\ UNCHANGED <<settings, made, dbRuns>>

(* checkSLABreach with sla.auto_escalate: the database of an agent that     *)
(* goes on working is released, once, and its story put back to draft       *)
(* unless it is past the last tier.                                         *)
SLABreach(s) ==
  /\ Monitored(s) /\ phase[s] = "in_progress" /\ (Held(s) # 0 => agent[s].db # 0)
  /\ ReleaseDB(s, "failed")
  /\ agent' = IF Held(s) # 0 /\ ~settings.keep THEN [agent EXCEPT ![s].db = 0] ELSE agent
  /\ phase' \in {phase} \cup (IF dbRun'[ReqOf[s]].on THEN {[phase EXCEPT ![s] = "draft"]} ELSE {})
  /\ UNCHANGED <<settings, made, dbRuns, robbed>>

NextDbWave(r) ==
  /\ dbRun[r].on /\ dbRun[r].todo = {} /\ Drafts(r) # {}
  /\ \A s \in StoriesOf(r) : ~agent[s].works
  /\ dbRun' = [dbRun EXCEPT ![r].first = FALSE, ![r].todo = Drafts(r)]
  /\ UNCHANGED <<settings, databases, dbLog, phase, agent, container, made, dbRuns, robbed>>

(* --- runDevDBOrphanRecovery, of vxd resume and vxd db gc -------------------------------- *)

ActiveIds(stories) == {s \in stories : phase[s] # "closed"}
(* The ids are compared as they are, the names hold them in lower case.     *)
FindOrphans(stories) == {d \in databases : ParseStoryID(d.name) \notin ActiveIds(stories)}
(* List gives Docker's databases no age and ghost's the age of the call, so *)
(* the first are always old enough and the second never.                    *)
Aged(d) == settings.provider = "docker"
ReleaseOrphans(stories) == {d \in FindOrphans(stories) : Aged(d)}

(* All it knows is the stories it is given; it has a provider, and a port,  *)
(* of its own.                                                              *)
OrphanRecovery(stories) ==
  \E conn \in AdminConn(NoDbRun, container) :
    \E gone \in SUBSET (IF conn.up THEN ReleaseOrphans(stories) ELSE {}) :
      /\ container' = conn.c /\ databases' = databases \ gone
      /\ robbed' = robbed \cup {s \in {d.story : d \in gone} \ stories : agent[s].works}

(* A story left without an agent goes back to draft, agents that are still  *)
(* at work are taken over without their databases.  One run per project.    *)
ResumeDb(r) ==
  /\ settings.provider # "none" /\ dbRuns < MaxDbRuns /\ dbRuns' = dbRuns + 1
  /\ \A q \in DbReqs : settings.home[q] = settings.home[r] => ~dbRun[q].on
  /\ OrphanRecovery(StoriesOf(r))
  /\ phase' = [s \in DbStories |->
                 IF ReqOf[s] = r /\ phase[s] \in {"assigned", "in_progress"} /\ ~agent[s].works
                 THEN "draft" ELSE phase[s]]
  /\ dbRun' = [dbRun EXCEPT ![r] =
                 [NoDbRun EXCEPT !.on = TRUE, !.todo = {s \in StoriesOf(r) : phase'[s] = "draft"}]]
  /\ UNCHANGED <<settings, dbLog, agent, made>>

(* Ctrl-C or a kill: the agents go on in tmux.                              *)
LeaveDbRun(r) ==
  /\ dbRun[r].on /\ dbRun' = [dbRun EXCEPT ![r] = NoDbRun]
  /\ UNCHANGED <<settings, databases, dbLog, phase, agent, container, made, dbRuns, robbed>>

(* vxd archive, which stops nothing: runs and agents go on.                 *)
ArchiveReq(r) ==
  /\ phase' = [s \in DbStories |-> IF ReqOf[s] = r THEN "closed" ELSE phase[s]]
  /\ UNCHANGED <<settings, databases, dbLog, agent, dbRun, container, made, dbRuns, robbed>>

(* vxd db delete.                                                           *)
DeleteDB(d) ==
  /\ databases' = databases \ {d} /\ robbed' = robbed \cup {s \in {d.story} : agent[s].works}
  /\ UNCHANGED <<settings, dbLog, phase, agent, dbRun, container, made, dbRuns>>

(* vxd db gc in a project: the stories are those of that project's store,   *)
(* the databases those of all projects.                                     *)
CollectDBs(project) ==
  /\ settings.provider # "none"
  /\ OrphanRecovery({s \in DbStories : settings.home[ReqOf[s]] = project})
  /\ UNCHANGED <<settings, dbLog, phase, agent, dbRun, made, dbRuns>>

DbNext ==
  \/ Configure
  \/ \E r \in DbReqs :
       ResumeDb(r) \/ NextDbWave(r) \/ LeaveDbRun(r) \/ ArchiveReq(r)
  \/ \E project \in {settings.home[r] : r \in DbReqs} : CollectDBs(project)
  \/ \E s \in DbStories : SpawnStory(s) \/ EndPipeline(s) \/ SLABreach(s)
  \/ \E d \in databases : DeleteDB(d)

DbSpec == DbInit /\ [][DbNext]_dbVars

(* --- properties ------------------------------------------------------------------ *)

Phases == {"draft", "assigned", "in_progress", "closed"}
DbStatus == {"created", "failed", "deleted", "retained"}
DbRunState ==
  [on : BOOLEAN, first : BOOLEAN, todo : SUBSET DbStories,
   held : [DbStories -> 0..MaxDatabases + 1], dsn : BOOLEAN, port : 0..LastPort,
   taken : SUBSET (1..LastPort)]
DbTypeOK ==
  /\ settings.provider \in {"none", "docker", "ghost"}
  /\ \A d \in databases : d.story \in DbStories /\ d.name = NameOf(d.story)
  /\ \A k \in DOMAIN dbLog : k[1] \in DbStories /\ dbLog[k] \in DbStatus
  /\ phase \in [DbStories -> Phases] /\ dbRun \in [DbReqs -> DbRunState]
  /\ container \in Container /\ made \in 0..MaxDatabases
  /\ robbed \subseteq DbStories

Working(s) == agent[s].works /\ phase[s] = "in_progress"
(* An id ParseStoryID finds in a name, and FindOrphans among the active:    *)
(* the shape naming.go:24 gives, "a8cbef1f-3a".  The planner's other ids,   *)
(* of three segments or with a capital letter, are not of it.               *)
TwoLowerSegments(s) == Len(s) = 2 /\ ToLower(s) = s
OwnName(s) == \A t \in DbStories \ {s} : NameOf(t) # NameOf(s)

(* An agent at work keeps the database it was told of: neither the end of   *)
(* another attempt's pipeline, nor an archived neighbour, nor the clean-up  *)
(* of a later run of its requirement, nor `vxd db gc' in its own project    *)
(* takes it away.  What does take it away in this code is left out: the     *)
(* operator deleting it by name; a clean-up that does not know the story,   *)
(* which is that of a run of another requirement and of `vxd db gc' or a    *)
(* run in another project; an SLA that passes with auto_escalate on, which  *)
(* releases the database under the agent; archiving its requirement; and    *)
(* any clean-up when the id is not one ParseStoryID gives back, which is    *)
(* so for most ids of the planner.                                          *)
AgentKeepsDatabase ==
  \A s \in DbStories :
    Working(s) /\ agent[s].db # 0 /\ TwoLowerSegments(s) /\ OwnName(s) /\ s \notin robbed =>
      \E d \in databases : d.id = agent[s].db /\ d.name = NameOf(s)

(* A database the log calls deleted does not exist, so that story_databases *)
(* and the costs can be believed after a `vxd replay' (between replays the  *)
(* table lags: no run writes it).  The exception is a database whose own    *)
(* event was never appended, because the run was killed before it or the    *)
(* append failed; creating and appending are one step here, so the moment   *)
(* between them is left out.                                                *)
DeletedIsGone ==
  \A d \in databases :
    d.logged /\ DbRow(d.story, d.id) \in DOMAIN dbLog =>
      dbLog[DbRow(d.story, d.id)] # "deleted"
==============================================================================
