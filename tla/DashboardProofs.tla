---------------------------- MODULE DashboardProofs ----------------------------
(***************************************************************************)
(* The web dashboard, for any number of daemons, runs, projects and tabs:  *)
(* the URL that `vxd req' prints lets the browser in, and a connected tab  *)
(* is sent every event of the log in order and once.                       *)
(***************************************************************************)
EXTENDS DashboardDaemon, DashboardHub, TLAPS

(* --- the daemon --------------------------------------------------------------- *)

ProjectOrNone == DashProjects \cup {"none"}

DaemonState ==
  [pc : {"off", "starting", "serving", "removing", "gone"}, step : 1..5,
   project : ProjectOrNone, files : BOOLEAN, filed : BOOLEAN,
   token : 0..MaxToken, nonce : {"fresh", "spent", "rotated"}, term : BOOLEAN]

HandleState ==
  [pc : {"idle", "waiting", "reading", "printed", "unavailable"},
   by : Dashboards \cup {NoDash}, nonce : Dashboards \cup {NoDash}]

DaemonTypes ==
  /\ dash \in [Dashboards -> DaemonState]
  /\ handle \in [Reqs -> HandleState]
  /\ port \in Dashboards \cup {NoDash}
  /\ pidFile \in [DashProjects -> Dashboards \cup {NoDash}]
  /\ bootFile \in [DashProjects -> Dashboards \cup {NoDash}]
  /\ dashToken \in 0..MaxToken

(* Past the listener, up to the end of serving.                            *)
Bound(d) == dash[d].pc = "serving" \/ (dash[d].pc = "starting" /\ dash[d].step > 1)

(* Only the daemon that has the port writes files, and as long as it has   *)
(* the port nobody else does.                                              *)
DaemonOwns(d) ==
  /\ Bound(d) => port = d
  /\ dash[d].filed /\ dash[d].pc \in {"starting", "serving"}
       => Bound(d) /\ bootFile[dash[d].project] = d
  /\ dash[d].pc \in {"starting", "serving"} => dash[d].project \in DashProjects
  /\ dash[d].pc = "off" => dash[d].step = 1 /\ ~dash[d].filed

(* A nonce is spent on the daemon that serves, and gives its token.        *)
NonceGivesToken(d) ==
  /\ dash[d].pc \in {"off", "starting"} => dash[d].nonce = "fresh"
  /\ dash[d].pc = "serving" /\ dash[d].nonce = "spent" => cookie = dash[d].token

(* Who answered a `vxd req' does not start again.                          *)
HandleKnows(r) ==
  handle[r].pc \in {"reading", "printed"} =>
    LET d == handle[r].by IN
    /\ d \in Dashboards /\ dash[d].pc \notin {"off", "starting"}
    /\ (/\ handle[r].pc = "printed" /\ dash[d].pc = "serving"
        /\ dash[d].project = ReqProject[r] /\ dash[d].filed)
         => handle[r].nonce = d

DashInv ==
  /\ DaemonTypes
  /\ \A d \in Dashboards : DaemonOwns(d) /\ NonceGivesToken(d)
  /\ \A r \in Reqs : HandleKnows(r)

LEMMA StepNumbers ==
  ASSUME DaemonTypes, NEW d \in Dashboards
  PROVE  /\ AtStep(d, "listen") => dash[d].pc = "starting" /\ dash[d].step = 1
         /\ AtStep(d, "token") => dash[d].pc = "starting" /\ dash[d].step = 2
         /\ AtStep(d, "bootstrap") => dash[d].pc = "starting" /\ dash[d].step = 3
         /\ AtStep(d, "pidfile") => dash[d].pc = "starting" /\ dash[d].step = 4
         /\ AtStep(d, "serve") => dash[d].pc = "starting" /\ dash[d].step = 5
<1>1. dash[d].step \in {1, 2, 3, 4, 5}
  BY DEF DaemonTypes, DaemonState
<1>2. /\ Startup[1] = "listen" /\ Startup[2] = "token" /\ Startup[3] = "bootstrap"
      /\ Startup[4] = "pidfile" /\ Startup[5] = "serve"
  BY DEF Startup
<1> QED BY <1>1, <1>2 DEF AtStep

LEMMA NoProject == "none" \in ProjectOrNone
BY DEF ProjectOrNone

LEMMA FreshDaemons ==
  \A s \in {"off", "gone"} : NoDaemon(s) \in DaemonState /\ NoDaemon(s).pc = s
BY DaemonAssumption, NoProject DEF DaemonState, NoDaemon

LEMMA DashInitially == DashInit => DashInv
<1> SUFFICES ASSUME DashInit PROVE DashInv
  OBVIOUS
<1>1. \A d \in Dashboards : dash[d] = NoDaemon("off")
  BY DEF DashInit
<1>2. \A r \in Reqs : handle[r] = [pc |-> "idle", by |-> NoDash, nonce |-> NoDash]
  BY DEF DashInit
<1>3. DaemonTypes
  <2>1. dash \in [Dashboards -> DaemonState]
    BY FreshDaemons DEF DashInit
  <2>2. handle \in [Reqs -> HandleState]
    <3>1. handle = [r \in Reqs |-> [pc |-> "idle", by |-> NoDash, nonce |-> NoDash]]
      BY DEF DashInit
    <3> QED BY <3>1 DEF HandleState
  <2>3. dashToken \in 0..MaxToken
    BY DaemonAssumption DEF DashInit
  <2> QED BY <2>1, <2>2, <2>3 DEF DashInit, DaemonTypes
<1>4. \A d \in Dashboards : DaemonOwns(d) /\ NonceGivesToken(d)
  <2> SUFFICES ASSUME NEW d \in Dashboards PROVE DaemonOwns(d) /\ NonceGivesToken(d)
    OBVIOUS
  <2>1. /\ dash[d].pc = "off" /\ dash[d].step = 1
        /\ dash[d].filed = FALSE /\ dash[d].nonce = "fresh"
    BY <1>1 DEF NoDaemon
  <2> QED BY <2>1 DEF DaemonOwns, Bound, NonceGivesToken
<1>5. \A r \in Reqs : HandleKnows(r)
  BY <1>2 DEF HandleKnows
<1> QED BY <1>3, <1>4, <1>5 DEF DashInv

(* A step of one daemon that keeps the promises of that daemon, and takes  *)
(* from the others neither the port nor a file, keeps the invariant.       *)
LEMMA DaemonFrame ==
  ASSUME DashInv, DaemonTypes', NEW d \in Dashboards, UNCHANGED handle,
         \A e \in Dashboards : e # d =>
           /\ dash'[e] = dash[e]
           /\ port = e => port' = e
           /\ \A p \in DashProjects : bootFile[p] = e /\ port = e => bootFile'[p] = e
           /\ cookie' = cookie \/ dash[e].pc # "serving",
         DaemonOwns(d)', NonceGivesToken(d)',
         dash[d].pc \notin {"off", "starting"} => dash'[d].pc \notin {"off", "starting"},
         dash'[d].pc = "serving" /\ dash[d].pc # "starting" =>
           /\ dash[d].pc = "serving" /\ dash'[d].filed = dash[d].filed
           /\ dash'[d].project = dash[d].project
  PROVE  DashInv'
<1>1. ASSUME NEW e \in Dashboards, e # d PROVE (DaemonOwns(e) /\ NonceGivesToken(e))'
  BY <1>1 DEF DashInv, DaemonOwns, NonceGivesToken, Bound
<1>2. ASSUME NEW r \in Reqs PROVE HandleKnows(r)'
  BY <1>2 DEF DashInv, HandleKnows
<1> QED BY <1>1, <1>2 DEF DashInv

LEMMA AdvanceOne ==
  ASSUME DaemonTypes, NEW d \in Dashboards, dash[d].step < 5, dash' = Advance(d)
  PROVE  /\ dash' \in [Dashboards -> DaemonState]
         /\ dash'[d].pc = dash[d].pc /\ dash'[d].step = dash[d].step + 1
         /\ dash'[d].project = dash[d].project /\ dash'[d].nonce = dash[d].nonce
         /\ dash'[d].filed = dash[d].filed
         /\ \A e \in Dashboards : e # d => dash'[e] = dash[e]
BY DEF DaemonTypes, DaemonState, Advance

(* A second field, after the step.                                         *)
LEMMA SecondField ==
  ASSUME NEW n \in [Dashboards -> DaemonState], NEW d \in Dashboards
  PROVE  /\ [n EXCEPT ![d].filed = TRUE] \in [Dashboards -> DaemonState]
         /\ \A t \in 0..MaxToken :
              [n EXCEPT ![d].token = t] \in [Dashboards -> DaemonState]
         /\ \A p \in ProjectOrNone :
              [n EXCEPT ![d].project = p] \in [Dashboards -> DaemonState]
         /\ \A b \in BOOLEAN :
              /\ [n EXCEPT ![d].files = b] \in [Dashboards -> DaemonState]
              /\ [n EXCEPT ![d].term = b] \in [Dashboards -> DaemonState]
         /\ \A v \in {"spent", "rotated"} :
              [n EXCEPT ![d].nonce = v] \in [Dashboards -> DaemonState]
         /\ [n EXCEPT ![d].pc = "starting"] \in [Dashboards -> DaemonState]
<1>1. [n EXCEPT ![d].filed = TRUE] \in [Dashboards -> DaemonState]
  BY DEF DaemonState
<1>2. ASSUME NEW t \in 0..MaxToken PROVE [n EXCEPT ![d].token = t] \in [Dashboards -> DaemonState]
  BY DEF DaemonState
<1>3. ASSUME NEW p \in ProjectOrNone
      PROVE  [n EXCEPT ![d].project = p] \in [Dashboards -> DaemonState]
  BY DEF DaemonState
<1>4. ASSUME NEW b \in BOOLEAN
      PROVE  [n EXCEPT ![d].files = b] \in [Dashboards -> DaemonState]
  BY DEF DaemonState
<1>5. ASSUME NEW b \in BOOLEAN
      PROVE  [n EXCEPT ![d].term = b] \in [Dashboards -> DaemonState]
  BY DEF DaemonState
<1>6. ASSUME NEW v \in {"spent", "rotated"}
      PROVE  [n EXCEPT ![d].nonce = v] \in [Dashboards -> DaemonState]
  BY DEF DaemonState
<1>7. [n EXCEPT ![d].pc = "starting"] \in [Dashboards -> DaemonState]
  BY DEF DaemonState
<1> QED BY <1>1, <1>2, <1>3, <1>4, <1>5, <1>6, <1>7

LEMMA AdvancedType ==
  ASSUME DaemonTypes, NEW d \in Dashboards, dash[d].step < 5, NEW n, n = Advance(d)
  PROVE  n \in [Dashboards -> DaemonState]
BY DEF DaemonTypes, DaemonState, Advance

LEMMA ExitOne ==
  ASSUME DaemonTypes, NEW d \in Dashboards, dash' = Exited(d)
  PROVE  /\ dash' \in [Dashboards -> DaemonState]
         /\ dash'[d].pc = "gone"
         /\ \A e \in Dashboards : e # d => dash'[e] = dash[e]
<1>1. NoDaemon("gone") \in DaemonState /\ NoDaemon("gone").pc = "gone"
  BY FreshDaemons
<1> QED BY <1>1 DEF DaemonTypes, Exited

LEMMA ListenKeeps == \A d \in Dashboards : DashInv /\ Listen(d) => DashInv'
<1> SUFFICES ASSUME NEW d \in Dashboards, DashInv, Listen(d) PROVE DashInv'
  OBVIOUS
<1>1. DaemonTypes /\ DaemonOwns(d) /\ NonceGivesToken(d)
  BY DEF DashInv
<1>2. dash[d].pc = "starting" /\ dash[d].step = 1
  BY <1>1, StepNumbers DEF Listen
<1>3. CASE port = NoDash /\ port' = d /\ dash' = Advance(d)
  <2>1. /\ dash' \in [Dashboards -> DaemonState]
        /\ dash'[d].pc = dash[d].pc /\ dash'[d].step = dash[d].step + 1
        /\ dash'[d].project = dash[d].project /\ dash'[d].nonce = dash[d].nonce
        /\ dash'[d].filed = dash[d].filed
        /\ \A e \in Dashboards : e # d => dash'[e] = dash[e]
    BY <1>1, <1>2, <1>3, AdvanceOne
  <2>2. dash[d] \in DaemonState
    BY <1>1 DEF DaemonTypes
  <2>3. DaemonTypes'
    BY <1>1, <1>3, <2>1 DEF DaemonTypes, Listen
  <2>4. DaemonOwns(d)' /\ NonceGivesToken(d)'
    BY <1>1, <1>2, <1>3, <2>1, <2>2
    DEF DaemonOwns, NonceGivesToken, Bound, DaemonState
  <2> QED BY <1>2, <1>3, <2>1, <2>2, <2>3, <2>4, DaemonFrame, DaemonAssumption
          DEF Listen, DaemonState
<1>4. CASE port # NoDash /\ dash' = Exited(d) /\ UNCHANGED port
  <2>1. /\ dash' \in [Dashboards -> DaemonState] /\ dash'[d].pc = "gone"
        /\ \A e \in Dashboards : e # d => dash'[e] = dash[e]
    BY <1>1, <1>4, ExitOne
  <2>2. DaemonTypes' /\ DaemonOwns(d)' /\ NonceGivesToken(d)'
    BY <1>1, <1>4, <2>1 DEF DaemonTypes, DaemonOwns, NonceGivesToken, Bound, Listen
  <2> QED BY <1>2, <1>4, <2>1, <2>2, DaemonFrame DEF Listen
<1> QED BY <1>3, <1>4 DEF Listen

LEMMA LoadTokenKeeps == \A d \in Dashboards : DashInv /\ LoadToken(d) => DashInv'
<1> SUFFICES ASSUME NEW d \in Dashboards, DashInv, LoadToken(d) PROVE DashInv'
  OBVIOUS
<1>1. DaemonTypes /\ DaemonOwns(d) /\ NonceGivesToken(d) /\ dash[d] \in DaemonState
  BY DEF DashInv, DaemonTypes
<1>2. dash[d].pc = "starting" /\ dash[d].step = 2
  BY <1>1, StepNumbers DEF LoadToken
<1>3. PICK t \in 1..MaxToken :
        dashToken' = t /\ dash' = [dash EXCEPT ![d].step = @ + 1, ![d].token = t]
  BY DEF LoadToken
<1>4. /\ dash' \in [Dashboards -> DaemonState]
      /\ dash'[d].pc = "starting" /\ dash'[d].step = 3
      /\ dash'[d].project = dash[d].project /\ dash'[d].nonce = dash[d].nonce
      /\ dash'[d].filed = dash[d].filed
      /\ \A e \in Dashboards : e # d => dash'[e] = dash[e]
  <2>1. dash' = [Advance(d) EXCEPT ![d].token = t]
    BY <1>1, <1>3 DEF Advance, DaemonTypes
  <2>2. dash' \in [Dashboards -> DaemonState]
    <3>1. Advance(d) \in [Dashboards -> DaemonState] /\ t \in 0..MaxToken
      BY <1>1, <1>2, AdvancedType, DaemonAssumption
    <3> QED BY <2>1, <3>1, SecondField
  <2> QED BY <1>1, <1>2, <1>3, <2>2 DEF DaemonTypes, DaemonState
<1>5. DaemonTypes'
  BY <1>1, <1>3, <1>4, DaemonAssumption DEF DaemonTypes, LoadToken
<1>6. DaemonOwns(d)' /\ NonceGivesToken(d)'
  BY <1>1, <1>2, <1>4 DEF DaemonOwns, NonceGivesToken, Bound, DaemonState, LoadToken
<1> QED BY <1>1, <1>2, <1>4, <1>5, <1>6, DaemonFrame DEF LoadToken, DaemonState

(* The writer has the port, so no other daemon counts on the file.         *)
LEMMA WriteBootstrapKeeps == \A d \in Dashboards : DashInv /\ WriteBootstrap(d) => DashInv'
<1> SUFFICES ASSUME NEW d \in Dashboards, DashInv, WriteBootstrap(d) PROVE DashInv'
  OBVIOUS
<1>1. DaemonTypes /\ DaemonOwns(d) /\ NonceGivesToken(d) /\ dash[d] \in DaemonState
  BY DEF DashInv, DaemonTypes
<1>2. dash[d].pc = "starting" /\ dash[d].step = 3 /\ port = d
  BY <1>1, StepNumbers DEF WriteBootstrap, DaemonOwns, Bound
<1>3. dash[d].project \in DashProjects
  BY <1>1, <1>2 DEF DaemonOwns
<1>4. CASE /\ dash' = [dash EXCEPT ![d].step = @ + 1, ![d].filed = TRUE]
           /\ bootFile' = [bootFile EXCEPT ![dash[d].project] = d]
  <2>1. /\ dash' \in [Dashboards -> DaemonState]
        /\ dash'[d].pc = "starting" /\ dash'[d].step = 4
        /\ dash'[d].project = dash[d].project /\ dash'[d].nonce = dash[d].nonce
        /\ dash'[d].filed
        /\ \A e \in Dashboards : e # d => dash'[e] = dash[e]
    <3>1. dash' = [Advance(d) EXCEPT ![d].filed = TRUE]
      BY <1>1, <1>4 DEF Advance, DaemonTypes
    <3>2. dash' \in [Dashboards -> DaemonState]
      <4>1. Advance(d) \in [Dashboards -> DaemonState]
        BY <1>1, <1>2, AdvancedType
      <4> QED BY <3>1, <4>1, SecondField
    <3> QED BY <1>1, <1>2, <1>4, <3>2 DEF DaemonTypes, DaemonState
  <2>2. /\ bootFile' \in [DashProjects -> Dashboards \cup {NoDash}]
        /\ bootFile'[dash[d].project] = d
    BY <1>1, <1>3, <1>4 DEF DaemonTypes
  <2>3. DaemonTypes'
    BY <1>1, <2>1, <2>2 DEF DaemonTypes, WriteBootstrap
  <2>4. DaemonOwns(d)' /\ NonceGivesToken(d)'
    BY <1>1, <1>2, <1>3, <2>1, <2>2
    DEF DaemonOwns, NonceGivesToken, Bound, WriteBootstrap, DaemonState
  <2> QED BY <1>1, <1>2, <2>1, <2>3, <2>4, DaemonFrame DEF WriteBootstrap, DaemonState
<1>5. CASE dash' = Advance(d) /\ UNCHANGED bootFile
  <2>1. /\ dash' \in [Dashboards -> DaemonState]
        /\ dash'[d].pc = dash[d].pc /\ dash'[d].step = dash[d].step + 1
        /\ dash'[d].project = dash[d].project /\ dash'[d].nonce = dash[d].nonce
        /\ dash'[d].filed = dash[d].filed
        /\ \A e \in Dashboards : e # d => dash'[e] = dash[e]
    BY <1>1, <1>2, <1>5, AdvanceOne
  <2>2. DaemonTypes'
    BY <1>1, <1>5, <2>1 DEF DaemonTypes, WriteBootstrap
  <2>3. DaemonOwns(d)' /\ NonceGivesToken(d)'
    BY <1>1, <1>2, <1>3, <1>5, <2>1
    DEF DaemonOwns, NonceGivesToken, Bound, WriteBootstrap, DaemonState
  <2> QED BY <1>1, <1>2, <1>5, <2>1, <2>2, <2>3, DaemonFrame DEF WriteBootstrap, DaemonState
<1> QED BY <1>4, <1>5 DEF WriteBootstrap

LEMMA PidfileAndServeKeep ==
  \A d \in Dashboards : DashInv /\ (WritePidfile(d) \/ Serve(d)) => DashInv'
<1> SUFFICES ASSUME NEW d \in Dashboards, DashInv, WritePidfile(d) \/ Serve(d)
             PROVE  DashInv'
  OBVIOUS
<1>1. DaemonTypes /\ DaemonOwns(d) /\ NonceGivesToken(d) /\ dash[d] \in DaemonState
  BY DEF DashInv, DaemonTypes
<1>2. dash[d].pc = "starting" /\ dash[d].step \in {4, 5} /\ Bound(d)
      /\ (WritePidfile(d) => dash[d].step = 4)
  BY <1>1, StepNumbers DEF WritePidfile, Serve, Bound
<1>3. /\ dash' \in [Dashboards -> DaemonState]
      /\ \A e \in Dashboards : e # d => dash'[e] = dash[e]
      /\ dash'[d].pc \in {"starting", "serving"} /\ dash'[d].step > 1
      /\ dash'[d].project = dash[d].project /\ dash'[d].nonce = dash[d].nonce
      /\ dash'[d].filed = dash[d].filed
  <2>1. CASE WritePidfile(d)
    <3>1. /\ dash' \in [Dashboards -> DaemonState]
          /\ dash'[d].pc = dash[d].pc /\ dash'[d].step = dash[d].step + 1
          /\ dash'[d].project = dash[d].project /\ dash'[d].nonce = dash[d].nonce
          /\ dash'[d].filed = dash[d].filed
          /\ \A e \in Dashboards : e # d => dash'[e] = dash[e]
      BY <1>1, <1>2, <2>1, AdvanceOne DEF WritePidfile
    <3> QED BY <1>1, <1>2, <2>1, <3>1 DEF DaemonState
  <2>2. CASE Serve(d)
    <3>1. /\ dash' \in [Dashboards -> DaemonState]
          /\ dash'[d] = [dash[d] EXCEPT !.pc = "serving"]
          /\ \A e \in Dashboards : e # d => dash'[e] = dash[e]
      BY <1>1, <2>2 DEF Serve, DaemonTypes, DaemonState
    <3> QED BY <1>1, <1>2, <3>1 DEF DaemonState
  <2> QED BY <2>1, <2>2
<1>4. DaemonTypes'
  BY <1>1, <1>3 DEF DaemonTypes, WritePidfile, Serve
<1>5. DaemonOwns(d)' /\ NonceGivesToken(d)'
  BY <1>1, <1>2, <1>3 DEF DaemonOwns, NonceGivesToken, Bound, WritePidfile, Serve
<1> QED BY <1>2, <1>3, <1>4, <1>5, DaemonFrame DEF WritePidfile, Serve

(* A daemon on its way out owes nothing any more.                          *)
LEMMA LeavingKeeps ==
  \A d \in Dashboards :
    DashInv /\ (Shutdown(d) \/ RemovePidfile(d) \/ KillDashboard(d)) => DashInv'
<1> SUFFICES ASSUME NEW d \in Dashboards, DashInv,
                    Shutdown(d) \/ RemovePidfile(d) \/ KillDashboard(d)
             PROVE  DashInv'
  OBVIOUS
<1>1. DaemonTypes /\ DaemonOwns(d) /\ NonceGivesToken(d) /\ dash[d] \in DaemonState
  BY DEF DashInv, DaemonTypes
<1>2. /\ dash' \in [Dashboards -> DaemonState]
      /\ \A e \in Dashboards : e # d => dash'[e] = dash[e]
      /\ dash'[d].pc \in {"removing", "gone"}
  <2>1. CASE dash' = Exited(d)
    BY <1>1, <2>1, ExitOne
  <2>2. CASE dash' = [dash EXCEPT ![d].pc = "removing"]
    BY <1>1, <2>2 DEF DaemonTypes, DaemonState
  <2> QED BY <2>1, <2>2 DEF Shutdown, RemovePidfile, KillDashboard
<1>3. port' \in {port, NoDash} /\ (port # d => port' = port)
  BY DEF Shutdown, RemovePidfile, KillDashboard, Release
<1>4. DaemonTypes'
  BY <1>1, <1>2, <1>3 DEF DaemonTypes, Shutdown, RemovePidfile, KillDashboard
<1>5. DaemonOwns(d)' /\ NonceGivesToken(d)'
  BY <1>2 DEF DaemonOwns, NonceGivesToken, Bound
<1> QED BY <1>2, <1>3, <1>4, <1>5, DaemonFrame
        DEF Shutdown, RemovePidfile, KillDashboard

(* Who answered a run is not started again, so a spawn concerns no run     *)
(* that has an answer.                                                     *)
LEMMA SpawnKeeps ==
  ASSUME DashInv, NEW d \in Dashboards, NEW p \in DashProjects, NEW b \in BOOLEAN,
         SpawnDashboard(d, p, b),
         UNCHANGED <<port, pidFile, bootFile, dashToken, cookie>>,
         handle' \in [Reqs -> HandleState],
         \A r \in Reqs : handle'[r] = handle[r] \/ handle'[r].pc = "waiting"
  PROVE  DashInv'
<1>1. /\ DaemonTypes /\ DaemonOwns(d) /\ NonceGivesToken(d) /\ dash[d] \in DaemonState
      /\ dash[d].pc = "off"
  BY DEF DashInv, DaemonTypes, SpawnDashboard
<1>2. dash' \in [Dashboards -> DaemonState]
  <2>1. [dash EXCEPT ![d].pc = "starting"] \in [Dashboards -> DaemonState]
    BY <1>1, SecondField DEF DaemonTypes
  <2>2. [[dash EXCEPT ![d].pc = "starting"] EXCEPT ![d].project = p]
          \in [Dashboards -> DaemonState]
    <3>1. p \in ProjectOrNone
      BY DEF ProjectOrNone
    <3> QED BY <2>1, <3>1, SecondField
  <2>3. dash' = [[[dash EXCEPT ![d].pc = "starting"] EXCEPT ![d].project = p]
                   EXCEPT ![d].files = b]
    BY <1>1 DEF SpawnDashboard, DaemonTypes
  <2> QED BY <2>2, <2>3, SecondField
<1>3. /\ dash'[d].pc = "starting" /\ dash'[d].project = p
      /\ dash'[d].step = dash[d].step /\ dash'[d].filed = dash[d].filed
      /\ dash'[d].nonce = dash[d].nonce
      /\ \A e \in Dashboards : e # d => dash'[e] = dash[e]
  BY <1>1 DEF SpawnDashboard, DaemonTypes, DaemonState
<1>4. DaemonTypes'
  BY <1>1, <1>2 DEF DaemonTypes
<1>5. ASSUME NEW e \in Dashboards PROVE (DaemonOwns(e) /\ NonceGivesToken(e))'
  BY <1>1, <1>3 DEF DashInv, DaemonOwns, NonceGivesToken, Bound
<1>6. ASSUME NEW r \in Reqs PROVE HandleKnows(r)'
  BY <1>1, <1>3 DEF DashInv, HandleKnows
<1> QED BY <1>4, <1>5, <1>6 DEF DashInv

LEMMA AnsweredType ==
  ASSUME NEW h \in [Reqs -> HandleState], NEW r \in Reqs, NEW d \in Dashboards
  PROVE  [h EXCEPT ![r].pc = "reading", ![r].by = d] \in [Reqs -> HandleState]
<1>1. ASSUME NEW g \in [Reqs -> HandleState]
      PROVE  /\ [g EXCEPT ![r].pc = "reading"] \in [Reqs -> HandleState]
             /\ [g EXCEPT ![r].by = d] \in [Reqs -> HandleState]
  BY DEF HandleState
<1>2. [h EXCEPT ![r].pc = "reading", ![r].by = d]
        = [[h EXCEPT ![r].pc = "reading"] EXCEPT ![r].by = d]
  OBVIOUS
<1> QED BY <1>1, <1>2

LEMMA PrintedType ==
  ASSUME NEW h \in [Reqs -> HandleState], NEW r \in Reqs,
         NEW n \in Dashboards \cup {NoDash}
  PROVE  [h EXCEPT ![r].pc = "printed", ![r].nonce = n] \in [Reqs -> HandleState]
<1>1. ASSUME NEW g \in [Reqs -> HandleState]
      PROVE  /\ [g EXCEPT ![r].pc = "printed"] \in [Reqs -> HandleState]
             /\ [g EXCEPT ![r].nonce = n] \in [Reqs -> HandleState]
  BY DEF HandleState
<1>2. [h EXCEPT ![r].pc = "printed", ![r].nonce = n]
        = [[h EXCEPT ![r].pc = "printed"] EXCEPT ![r].nonce = n]
  OBVIOUS
<1> QED BY <1>1, <1>2

(* The file of the daemon's own project holds its nonce when it is read.   *)
LEMMA RunKeeps ==
  ASSUME DashInv, NEW r \in Reqs,
         Reuse(r) \/ WaitHealthy(r) \/ Unavailable(r) \/ ReadBootstrap(r)
  PROVE  DashInv'
<1>1. /\ DaemonTypes /\ HandleKnows(r)
      /\ UNCHANGED <<dash, port, pidFile, bootFile, dashToken, cookie>>
  BY DEF DashInv, Reuse, WaitHealthy, Answered, Unavailable, ReadBootstrap
<1>2. \A q \in Reqs : q # r => handle'[q] = handle[q]
  BY <1>1 DEF DaemonTypes, Reuse, WaitHealthy, Answered, Unavailable, ReadBootstrap
<1>3. handle' \in [Reqs -> HandleState] /\ HandleKnows(r)'
  <2>1. CASE Reuse(r) \/ WaitHealthy(r)
    <3>1. /\ handle' = [handle EXCEPT ![r].pc = "reading", ![r].by = port]
          /\ port \in Dashboards /\ dash[port].pc = "serving"
      BY <1>1, <2>1 DEF Reuse, WaitHealthy, Answered, Healthy, DaemonTypes
    <3>2. handle'[r].pc = "reading" /\ handle'[r].by = port
      BY <1>1, <3>1 DEF DaemonTypes, HandleState
    <3>3. handle' \in [Reqs -> HandleState]
      BY <1>1, <3>1, AnsweredType DEF DaemonTypes
    <3> QED BY <1>1, <3>1, <3>2, <3>3 DEF HandleKnows
  <2>2. CASE Unavailable(r)
    <3>1. handle' \in [Reqs -> HandleState] /\ handle'[r].pc = "unavailable"
      BY <1>1, <2>2 DEF DaemonTypes, Unavailable, HandleState
    <3> QED BY <3>1 DEF HandleKnows
  <2>3. CASE ReadBootstrap(r)
    <3> DEFINE n == bootFile[ReqProject[r]]
    <3>1. /\ handle' = [handle EXCEPT ![r].pc = "printed", ![r].nonce = n]
          /\ n \in Dashboards \cup {NoDash} /\ handle[r].pc = "reading"
      BY <1>1, <2>3 DEF ReadBootstrap, DaemonTypes, DashProjects
    <3>2. /\ handle'[r].pc = "printed" /\ handle'[r].by = handle[r].by
          /\ handle'[r].nonce = n
      BY <1>1, <3>1 DEF DaemonTypes, HandleState
    <3>3. handle' \in [Reqs -> HandleState]
      BY <1>1, <3>1, PrintedType DEF DaemonTypes
    <3>4. DaemonOwns(handle[r].by)
      BY <1>1, <3>1 DEF HandleKnows, DashInv
    <3> QED BY <1>1, <3>1, <3>2, <3>3, <3>4 DEF HandleKnows, DaemonOwns
  <2> QED BY <2>1, <2>2, <2>3
<1>4. ASSUME NEW q \in Reqs PROVE HandleKnows(q)'
  BY <1>1, <1>2, <1>3 DEF DashInv, HandleKnows
<1> QED BY <1>1, <1>3, <1>4 DEF DashInv, DaemonTypes, DaemonOwns, NonceGivesToken, Bound

(* The nonce of the daemon that serves, and no other's, is spent.          *)
LEMMA NonceKeeps ==
  DashInv /\ (RotateNonce \/ \E r \in Reqs : OpenUrl(r)) => DashInv'
<1> SUFFICES ASSUME DashInv, RotateNonce \/ \E r \in Reqs : OpenUrl(r) PROVE DashInv'
  OBVIOUS
<1>0. PICK d \in Dashboards : d = port
  BY DEF DashInv, DaemonTypes, RotateNonce, OpenUrl, Healthy
<1>1. /\ DaemonTypes /\ dash[d].pc = "serving"
      /\ UNCHANGED <<port, pidFile, bootFile, dashToken, handle>>
  BY <1>0 DEF DashInv, RotateNonce, OpenUrl, Healthy
<1>2. PICK v \in {"spent", "rotated"} :
        /\ dash' = [dash EXCEPT ![d].nonce = v]
        /\ v = "spent" => cookie' = dash[d].token
        /\ v = "rotated" => cookie' = cookie
  BY <1>0 DEF RotateNonce, OpenUrl
<1>3. dash' \in [Dashboards -> DaemonState]
  BY <1>1, <1>2, SecondField DEF DaemonTypes
<1>4. /\ dash'[d].pc = "serving" /\ dash'[d].nonce = v /\ dash'[d].step = dash[d].step
      /\ dash'[d].project = dash[d].project /\ dash'[d].filed = dash[d].filed
      /\ dash'[d].token = dash[d].token
      /\ \A e \in Dashboards : e # d => dash'[e] = dash[e]
  BY <1>1, <1>2 DEF DaemonTypes, DaemonState
<1>5. DaemonTypes'
  BY <1>1, <1>3 DEF DaemonTypes
<1>6. \A e \in Dashboards : e # d => dash[e].pc # "serving"
  BY <1>0, <1>1 DEF DashInv, DaemonOwns, Bound
<1>7. DaemonOwns(d)' /\ NonceGivesToken(d)'
  BY <1>0, <1>1, <1>2, <1>4 DEF DashInv, DaemonOwns, Bound, NonceGivesToken
<1>8. ASSUME NEW e \in Dashboards, e # d PROVE (DaemonOwns(e) /\ NonceGivesToken(e))'
  BY <1>1, <1>4, <1>6, <1>8 DEF DashInv, DaemonOwns, Bound, NonceGivesToken
<1>9. ASSUME NEW r \in Reqs PROVE HandleKnows(r)'
  BY <1>1, <1>4 DEF DashInv, HandleKnows
<1> QED BY <1>5, <1>7, <1>8, <1>9 DEF DashInv

(* The operator changes no file that a run reads.                          *)
LEMMA OperatorKeeps ==
  DashInv /\ (RotateTokenFile \/ StopReturns \/ \E p \in DashProjects : StopDashboard(p))
    => DashInv'
<1> SUFFICES ASSUME DashInv, \/ RotateTokenFile \/ StopReturns
                             \/ \E p \in DashProjects : StopDashboard(p)
             PROVE  DashInv'
  OBVIOUS
<1>1. DaemonTypes /\ UNCHANGED <<port, bootFile, cookie, handle>>
  BY DEF DashInv, RotateTokenFile, StopReturns, StopDashboard
<1>2. /\ pidFile' \in [DashProjects -> Dashboards \cup {NoDash}]
      /\ dashToken' \in 0..MaxToken
  <2>1. CASE RotateTokenFile
    BY <1>1, <2>1, DaemonAssumption DEF DaemonTypes, RotateTokenFile
  <2>2. CASE StopReturns
    BY <1>1, <2>2 DEF DaemonTypes, StopReturns
  <2>3. CASE \E p \in DashProjects : StopDashboard(p)
    BY <1>1, <2>3 DEF DaemonTypes, StopDashboard
  <2> QED BY <2>1, <2>2, <2>3
<1>3. /\ dash' \in [Dashboards -> DaemonState]
      /\ \A e \in Dashboards :
           /\ dash'[e].pc = dash[e].pc /\ dash'[e].step = dash[e].step
           /\ dash'[e].project = dash[e].project /\ dash'[e].filed = dash[e].filed
           /\ dash'[e].nonce = dash[e].nonce /\ dash'[e].token = dash[e].token
  <2>1. CASE UNCHANGED dash
    BY <1>1, <2>1 DEF DaemonTypes
  <2>2. CASE \E d \in Dashboards : dash' = [dash EXCEPT ![d].term = TRUE]
    <3>1. PICK d \in Dashboards : dash' = [dash EXCEPT ![d].term = TRUE]
      BY <2>2
    <3>2. dash' \in [Dashboards -> DaemonState]
      BY <1>1, <3>1, SecondField DEF DaemonTypes
    <3> QED BY <1>1, <3>1, <3>2 DEF DaemonTypes, DaemonState
  <2>3. UNCHANGED dash \/ \E d \in Dashboards : dash' = [dash EXCEPT ![d].term = TRUE]
    BY <1>1 DEF DaemonTypes, RotateTokenFile, StopReturns, StopDashboard
  <2> QED BY <2>1, <2>2, <2>3
<1>4. DaemonTypes'
  BY <1>1, <1>2, <1>3 DEF DaemonTypes
<1>5. ASSUME NEW e \in Dashboards PROVE (DaemonOwns(e) /\ NonceGivesToken(e))'
  BY <1>1, <1>3 DEF DashInv, DaemonOwns, NonceGivesToken, Bound
<1>6. ASSUME NEW r \in Reqs PROVE HandleKnows(r)'
  BY <1>1, <1>3 DEF DashInv, HandleKnows
<1> QED BY <1>4, <1>5, <1>6 DEF DashInv

LEMMA DashStep == DashInv /\ [DashNext]_dashVars => DashInv'
<1> SUFFICES ASSUME DashInv, [DashNext]_dashVars PROVE DashInv'
  OBVIOUS
<1>1. ASSUME NEW d \in Dashboards,
             \/ Listen(d) \/ LoadToken(d) \/ WriteBootstrap(d) \/ WritePidfile(d) \/ Serve(d)
             \/ Shutdown(d) \/ RemovePidfile(d) \/ KillDashboard(d)
      PROVE  DashInv'
  BY <1>1, ListenKeeps, LoadTokenKeeps, WriteBootstrapKeeps, PidfileAndServeKeep, LeavingKeeps
<1>2. ASSUME NEW r \in Reqs, SpawnForReq(r) PROVE DashInv'
  <2>1. PICK d \in Dashboards : SpawnDashboard(d, ReqProject[r], TRUE)
    BY <1>2 DEF SpawnForReq
  <2>2. /\ handle' \in [Reqs -> HandleState]
        /\ \A q \in Reqs : handle'[q] = handle[q] \/ handle'[q].pc = "waiting"
    BY <1>2 DEF DashInv, DaemonTypes, SpawnForReq, HandleState
  <2>3. ReqProject[r] \in DashProjects
    BY DEF DashProjects
  <2> QED BY <1>2, <2>1, <2>2, <2>3, SpawnKeeps DEF SpawnForReq
<1>3. ASSUME NEW p \in DashProjects, StartByHand(p) PROVE DashInv'
  <2>1. PICK d \in Dashboards : SpawnDashboard(d, p, FALSE)
    BY <1>3 DEF StartByHand
  <2> QED BY <1>3, <2>1, SpawnKeeps DEF StartByHand, DashInv, DaemonTypes
<1>4. CASE UNCHANGED dashVars
  BY <1>4 DEF dashVars, DashInv, DaemonTypes, DaemonOwns, NonceGivesToken, HandleKnows, Bound
<1> QED BY <1>1, <1>2, <1>3, <1>4, RunKeeps, NonceKeeps, OperatorKeeps DEF DashNext

(* Start: "any caller that probed /health and got 200 is guaranteed to find  *)
(* the artifacts already in place": the URL printed by a run that was        *)
(* answered by a daemon of its own project lets the browser in, for any      *)
(* number of daemons, runs and projects.                                     *)
THEOREM UrlLetsIn == DashSpec => []PrintedUrlLetsIn
<1>1. DashInv => PrintedUrlLetsIn
  <2> SUFFICES ASSUME DashInv, NEW r \in Reqs, handle[r].pc = "printed",
                      dash[handle[r].by].pc = "serving",
                      dash[handle[r].by].project = ReqProject[r], dash[handle[r].by].filed
               PROVE  LET d == handle[r].by IN
                      /\ handle[r].nonce = d
                      /\ dash[d].nonce \in {"fresh", "rotated"} \/ cookie = dash[d].token
    BY DEF PrintedUrlLetsIn
  <2>1. handle[r].by \in Dashboards /\ handle[r].nonce = handle[r].by
    BY DEF DashInv, HandleKnows
  <2>2. dash[handle[r].by].nonce \in {"fresh", "spent", "rotated"}
    BY <2>1 DEF DashInv, DaemonTypes, DaemonState
  <2> QED BY <2>1, <2>2 DEF DashInv, NonceGivesToken
<1> QED BY DashInitially, DashStep, <1>1, PTL DEF DashSpec

(* Where everybody is, and every token is one that was minted: the cookie  *)
(* of the browser too, whatever daemon it came from.                       *)
THEOREM DaemonsTyped == DashSpec => []DashTypeOK
<1>1. DashInit => DashTypeOK
  BY DashInitially, DaemonAssumption
  DEF DashInit, DashInv, DaemonTypes, DaemonState, DashTypeOK
<1>2. DashInv /\ DashTypeOK /\ [DashNext]_dashVars => DashTypeOK'
  <2> SUFFICES ASSUME DashInv, DashTypeOK, [DashNext]_dashVars PROVE DashTypeOK'
    OBVIOUS
  <2>1. DaemonTypes /\ DaemonTypes'
    BY DashStep DEF DashInv
  <2>2. cookie' \in 0..MaxToken
    <3>1. ASSUME NEW r \in Reqs, OpenUrl(r) PROVE cookie' \in 0..MaxToken
      BY <2>1, <3>1 DEF OpenUrl, Healthy, DaemonTypes, DaemonState
    <3> QED BY <3>1
            DEF DashTypeOK, DashNext, Listen, LoadToken, WriteBootstrap, WritePidfile, Serve,
                Shutdown, RemovePidfile, KillDashboard, Reuse, SpawnForReq, WaitHealthy,
                Answered, Unavailable, ReadBootstrap, StartByHand, StopDashboard, RotateNonce,
                RotateTokenFile, StopReturns, dashVars
  <2>3. stopper' \in DashProjects \cup {"ready", "done"}
    BY DEF DashTypeOK, DashNext, Listen, LoadToken, WriteBootstrap, WritePidfile, Serve,
           Shutdown, RemovePidfile, KillDashboard, Reuse, SpawnForReq, WaitHealthy, Answered,
           Unavailable, ReadBootstrap, OpenUrl, StartByHand, StopDashboard, RotateNonce,
           RotateTokenFile, StopReturns, dashVars
  <2> QED BY <2>1, <2>2, <2>3 DEF DashTypeOK, DaemonTypes, DaemonState
<1> QED BY <1>1, <1>2, DashInitially, DashStep, PTL DEF DashSpec

(* --- the hub ----------------------------------------------------------------- *)

(* Up to here every tick is done with the events: it pushed or passed over  *)
(* them.  A tick that has listed the log is not done until it has pushed.   *)
Done == IF hub.pc \in {"diff", "push"} THEN counted ELSE reached

IsTab(x) == x = [step |-> x.step, todo |-> x.todo, written |-> x.written, snap |-> x.snap]
IsHub(h) == h = [pc |-> h.pc, upto |-> h.upto, conns |-> h.conns]
HubTyped ==
  /\ logged \in Nat /\ counted \in Nat /\ reached \in Nat /\ hub.upto \in Nat
  /\ IsHub(hub)
  /\ clients \subseteq Tabs
  /\ tab = [c \in Tabs |-> tab[c]] /\ pushes \in [Tabs -> Seq(Nat)]
  /\ \A c \in Tabs : IsTab(tab[c]) /\ tab[c].step \in 0..3 /\ tab[c].snap \in Nat

(* The count is the largest ever, or zero after a log that was not there.   *)
Counts ==
  /\ reached <= logged /\ logged <= LogBound /\ counted <= reached
  /\ hub.pc \in {"idle", "diff", "push", "count", "stopped"}
  /\ hub.pc = "idle" => counted \in {0, reached}
  /\ hub.pc \in {"diff", "push"} => 0 < counted /\ counted < hub.upto /\ hub.upto = reached
  /\ hub.pc = "count" => hub.upto \in {0, reached}

(* A client is past its registration, has no snapshot before the handler's  *)
(* third step, and joined a tick's push late only with a later snapshot.    *)
Registered ==
  \A c \in Tabs :
    /\ tab[c].step < 3 => tab[c].snap = Unsent
    /\ c \in clients => tab[c].step >= 2
    /\ c \notin clients => pushes[c] = <<>>
    /\ c \in clients \ hub.conns /\ hub.pc = "push" => tab[c].snap >= hub.upto

(* What a client has been sent.                                             *)
PushedInOrder(q) ==
  /\ \A i \in 1..Len(q) : q[i] <= Done
  /\ \A i \in 1..Len(q) : \A j \in 1..Len(q) : i < j => q[i] < q[j]
Told(c) ==
  /\ PushedInOrder(pushes[c])
  /\ \A e \in Nat : tab[c].snap < e /\ e <= Done /\ e \notin uncounted =>
                      \E i \in 1..Len(pushes[c]) : pushes[c][i] = e

HubInv == HubTyped /\ Counts /\ Registered /\ \A c \in clients : Told(c)

LEMMA TabMoves ==
  ASSUME NEW x, IsTab(x), NEW v
  PROVE  /\ IsTab([x EXCEPT !.step = v]) /\ [x EXCEPT !.step = v].step = v
         /\ [x EXCEPT !.step = v].snap = x.snap
BY DEF IsTab

LEMMA TabSnapped ==
  ASSUME NEW x, IsTab(x), NEW v
  PROVE  /\ IsTab([x EXCEPT !.snap = v]) /\ [x EXCEPT !.snap = v].step = x.step
         /\ [x EXCEPT !.snap = v].snap = v
BY DEF IsTab

LEMMA TabCommanded ==
  ASSUME NEW x, IsTab(x), NEW v
  PROVE  /\ IsTab([x EXCEPT !.todo = v]) /\ [x EXCEPT !.todo = v].step = x.step
         /\ [x EXCEPT !.todo = v].snap = x.snap
         /\ IsTab([x EXCEPT !.written = v]) /\ [x EXCEPT !.written = v].step = x.step
         /\ [x EXCEPT !.written = v].snap = x.snap
BY DEF IsTab

LEMMA ClosedTab ==
  IsTab(Closed) /\ Closed.step = 0 /\ Closed.snap = Unsent
BY DEF Closed, IsTab

LEMMA HandshakeSteps ==
  ASSUME NEW c
  PROVE  /\ At(c, "add") /\ tab[c].step \in 0..3 => tab[c].step = 1
         /\ At(c, "state") /\ tab[c].step \in 0..3 => tab[c].step = 2
         /\ At(c, "read") /\ tab[c].step \in 0..3 => tab[c].step = 3
BY DEF At, Handshake

LEMMA HubInitial == HubInit => HubInv
<1> SUFFICES ASSUME HubInit PROVE HubInv
  OBVIOUS
<1>1. \A c \in Tabs : tab[c] = Closed /\ pushes[c] = <<>>
  BY DEF HubInit
<1>2. Unsent \in Nat
  BY HubAssumption DEF Unsent
<1>3. HubTyped
  <2>1. pushes \in [Tabs -> Seq(Nat)]
    <3>1. <<>> \in Seq(Nat)
      OBVIOUS
    <3> QED BY <3>1 DEF HubInit
  <2>2. IsHub(hub) /\ hub.upto = 0
    BY DEF HubInit, IsHub
  <2> QED BY <1>1, <1>2, <2>1, <2>2, ClosedTab DEF HubInit, HubTyped
<1>4. Counts
  BY HubAssumption DEF HubInit, Counts
<1>5. Registered /\ clients = {}
  BY <1>1, ClosedTab DEF HubInit, Registered
<1> QED BY <1>3, <1>4, <1>5 DEF HubInv

(* A step of a tab's handler, the hub at rest.                              *)
LEMMA TabStep ==
  ASSUME HubInv, NEW c \in Tabs, NEW x, tab' = [tab EXCEPT ![c] = x],
         UNCHANGED <<hub, counted, uncounted, reached>>, logged' \in logged..LogBound,
         IsTab(x), x.step \in 0..3, x.snap \in Nat, x.step < 3 => x.snap = Unsent,
         clients' = clients \/ clients' = clients \cup {c} \/ clients' = clients \ {c},
         \/ pushes' = pushes /\ clients \subseteq clients'
         \/ pushes' = [pushes EXCEPT ![c] = <<>>] /\ c \notin clients',
         c \in clients' => x.step >= 2,
         c \in clients' =>
           \/ c \in clients /\ x.snap = tab[c].snap
           \/ x.snap >= logged
  PROVE  HubInv'
<1>1. /\ tab'[c] = x /\ \A d \in Tabs : d # c => tab'[d] = tab[d]
      /\ tab' = [d \in Tabs |-> tab'[d]]
  BY DEF HubInv, HubTyped
<1>2. /\ logged \in Nat /\ logged' \in Nat /\ counted \in Nat /\ reached \in Nat
      /\ hub.upto \in Nat /\ LogBound \in Nat /\ logged <= logged' /\ logged' <= LogBound
  BY HubAssumption DEF HubInv, HubTyped
<1>3. /\ clients' \subseteq Tabs /\ pushes' \in [Tabs -> Seq(Nat)]
      /\ \A d \in Tabs : d # c => (d \in clients' <=> d \in clients) /\ pushes'[d] = pushes[d]
      /\ c \in clients' => pushes'[c] = pushes[c]
      /\ c \notin clients' => pushes'[c] = <<>>
  <2>1. /\ <<>> \in Seq(Nat) /\ clients \subseteq Tabs /\ pushes \in [Tabs -> Seq(Nat)]
        /\ c \notin clients => pushes[c] = <<>>
    BY DEF HubInv, HubTyped, Registered
  <2>2. CASE pushes' = pushes /\ clients \subseteq clients'
    BY <2>1, <2>2
  <2>3. CASE pushes' = [pushes EXCEPT ![c] = <<>>] /\ c \notin clients'
    BY <2>1, <2>3
  <2> QED BY <2>2, <2>3
<1>4. HubTyped'
  BY <1>1, <1>2, <1>3 DEF HubInv, HubTyped
<1>5. Counts'
  BY <1>2 DEF HubInv, Counts
<1>6. Done' = Done /\ Done \in Nat /\ Done <= logged
  BY <1>2 DEF HubInv, Counts, Done
<1>7. hub.pc = "push" => hub.upto <= logged
  BY DEF HubInv, Counts
<1>8. Registered'
  <2> SUFFICES ASSUME NEW d \in Tabs
               PROVE  /\ tab'[d].step < 3 => tab'[d].snap = Unsent
                      /\ d \in clients' => tab'[d].step >= 2
                      /\ d \notin clients' => pushes'[d] = <<>>
                      /\ d \in clients' \ hub.conns /\ hub.pc = "push" =>
                           tab'[d].snap >= hub.upto
    BY DEF Registered, Unsent
  <2>1. CASE d = c
    <3>1. c \in clients /\ x.snap = tab[c].snap =>
            (c \in clients \ hub.conns /\ hub.pc = "push" => x.snap >= hub.upto)
      BY DEF HubInv, Registered
    <3>2. x.snap >= logged => (hub.pc = "push" => x.snap >= hub.upto)
      BY <1>2, <1>7
    <3> QED BY <1>1, <1>3, <2>1, <3>1, <3>2
  <2>2. CASE d # c
    BY <1>1, <1>3, <2>2 DEF HubInv, Registered
  <2> QED BY <2>1, <2>2
<1>9. ASSUME NEW d \in clients' PROVE Told(d)'
  <2>1. CASE d \in clients /\ pushes'[d] = pushes[d] /\ tab'[d].snap = tab[d].snap
    <3>1. Told(d)
      BY <2>1 DEF HubInv
    <3> QED BY <1>6, <2>1, <3>1 DEF Told, PushedInOrder
  <2>2. CASE d = c /\ x.snap >= logged
    <3>1. PushedInOrder(pushes[c])
      <4>1. CASE c \in clients
        BY <4>1 DEF HubInv, Told
      <4>2. CASE c \notin clients
        <5>1. pushes[c] = <<>>
          BY <4>2 DEF HubInv, Registered
        <5> QED BY <5>1 DEF PushedInOrder
      <4> QED BY <4>1, <4>2
    <3>2. PushedInOrder(pushes[c])'
      <4>1. pushes'[c] = pushes[c]
        BY <1>3, <2>2
      <4> QED BY <1>6, <3>1, <4>1 DEF PushedInOrder
    <3>3. \A e \in Nat : ~(x.snap < e /\ e <= Done)
      BY <1>2, <1>6, <2>2
    <3> QED BY <1>1, <1>6, <2>2, <3>2, <3>3 DEF Told
  <2> QED BY <1>1, <1>3, <2>1, <2>2
<1> QED BY <1>4, <1>5, <1>8, <1>9 DEF HubInv

LEMMA TabOf ==
  ASSUME HubInv, NEW c \in Tabs
  PROVE  /\ IsTab(tab[c]) /\ tab[c].step \in 0..3 /\ tab[c].snap \in Nat
         /\ tab[c].step < 3 => tab[c].snap = Unsent
         /\ c \in clients => tab[c].step >= 2
         /\ c \notin clients => pushes[c] = <<>>
         /\ clients \subseteq Tabs /\ pushes \in [Tabs -> Seq(Nat)]
         /\ logged \in logged..LogBound /\ logged \in Nat /\ LogBound \in Nat
         /\ Unsent \in Nat /\ Unsent >= logged
<1>1. logged \in Nat /\ logged <= LogBound /\ LogBound \in Nat
  BY HubAssumption DEF HubInv, HubTyped, Counts
<1> QED BY <1>1 DEF HubInv, HubTyped, Registered, Unsent

LEMMA AcceptKeeps ==
  ASSUME HubInv, NEW c \in Tabs, Accept(c)
  PROVE  HubInv'
<1> DEFINE x == [Closed EXCEPT !.step = 1]
<1>1. IsTab(x) /\ x.step = 1 /\ x.snap = Unsent
  BY ClosedTab, TabMoves, Zenon
<1>2. /\ tab[c] = Closed /\ tab' = [tab EXCEPT ![c] = x]
      /\ UNCHANGED <<hub, counted, uncounted, reached, logged, clients, pushes>>
  BY DEF Accept, KeepHub
<1>3. c \notin clients
  BY <1>2, ClosedTab, TabOf
<1> HIDE DEF x
<1>4. logged' \in logged..LogBound /\ x.snap \in Nat /\ x.step \in 0..3 /\ c \notin clients'
  BY <1>1, <1>2, <1>3, TabOf
<1> QED BY <1>1, <1>2, <1>4, TabStep

LEMMA AddClientKeeps ==
  ASSUME HubInv, NEW c \in Tabs, AddClient(c)
  PROVE  HubInv'
<1> DEFINE x == [tab[c] EXCEPT !.step = tab[c].step + 1]
<1>1. tab[c].step = 1 /\ tab[c].snap = Unsent /\ c \notin clients
  BY TabOf, HandshakeSteps DEF AddClient
<1>2. IsTab(x) /\ x.step = 2 /\ x.snap = Unsent
  <2>1. IsTab(tab[c])
    BY TabOf
  <2>2. IsTab(x) /\ x.step = tab[c].step + 1 /\ x.snap = tab[c].snap
    BY <2>1, TabMoves, Zenon
  <2> QED BY <1>1, <2>2
<1>3. /\ tab' = [tab EXCEPT ![c] = x] /\ clients' = clients \cup {c}
      /\ UNCHANGED <<hub, counted, uncounted, reached, logged, pushes>>
  BY DEF AddClient, Next1, KeepHub
<1> HIDE DEF x
<1>4. x.snap >= logged /\ x.step >= 2 /\ x.step \in 0..3 /\ x.snap \in Nat
  BY <1>2, TabOf
<1> QED BY <1>2, <1>3, <1>4, TabOf, TabStep

LEMMA SendStateKeeps ==
  ASSUME HubInv, NEW c \in Tabs, SendState(c)
  PROVE  HubInv'
<1> DEFINE y == [tab[c] EXCEPT !.step = tab[c].step + 1]
<1>1. tab[c].step = 2 /\ tab[c].snap = Unsent
  BY TabOf, HandshakeSteps DEF SendState
<1>2. IsTab(y) /\ y.step = 3
  <2>1. IsTab(tab[c])
    BY TabOf
  <2>2. IsTab(y) /\ y.step = tab[c].step + 1
    BY <2>1, TabMoves, Zenon
  <2> QED BY <1>1, <2>2
<1>3. PICK n \in {logged, Unsent} : tab' = [Next1(c) EXCEPT ![c].snap = n]
  BY DEF SendState
<1>4. UNCHANGED <<hub, counted, uncounted, reached, logged, clients, pushes>>
  BY DEF SendState, KeepHub
<1>5. Next1(c) = [tab EXCEPT ![c] = y]
  BY DEF Next1
<1> DEFINE x == [y EXCEPT !.snap = n]
<1> HIDE DEF y
<1>6. tab' = [tab EXCEPT ![c] = x]
  BY <1>3, <1>5 DEF HubInv, HubTyped
<1>7. IsTab(x) /\ x.step = 3 /\ x.snap = n
  <2>1. IsTab(x) /\ x.step = y.step /\ x.snap = n
    BY <1>2, TabSnapped, Zenon
  <2> QED BY <1>2, <2>1
<1> HIDE DEF x
<1>8. x.snap >= logged /\ x.snap \in Nat
  BY <1>7, TabOf
<1>9. x.step \in 0..3 /\ ~(x.step < 3) /\ x.step >= 2 /\ logged' \in logged..LogBound
  BY <1>4, <1>7, TabOf
<1> QED BY <1>4, <1>6, <1>7, <1>8, <1>9, TabStep

LEMMA DisconnectKeeps ==
  ASSUME HubInv, NEW c \in Tabs, Disconnect(c)
  PROVE  HubInv'
<1>1. /\ clients' = clients \ {c} /\ tab' = [tab EXCEPT ![c] = Closed]
      /\ pushes' = [pushes EXCEPT ![c] = <<>>]
      /\ UNCHANGED <<hub, counted, uncounted, reached, logged>>
  BY DEF Disconnect, KeepHub
<1>2. logged' \in logged..LogBound /\ Closed.snap \in Nat /\ c \notin clients'
  BY <1>1, TabOf, ClosedTab
<1>3. Closed.step \in 0..3
  BY ClosedTab
<1> QED BY <1>1, <1>2, <1>3, ClosedTab, TabStep

(* A command changes neither a tab's place nor its snapshot.                *)
LEMMA CommandStep ==
  ASSUME HubInv, NEW c \in Tabs, NEW x, tab' = [tab EXCEPT ![c] = x], IsTab(x),
         x.step = tab[c].step, x.snap = tab[c].snap, logged' \in logged..LogBound,
         UNCHANGED <<hub, counted, uncounted, reached, clients, pushes>>
  PROVE  HubInv'
BY TabOf, TabStep

LEMMA CommandKeeps ==
  ASSUME HubInv, NEW c \in Tabs, HandleCommand(c) \/ AppendEvent(c) \/ ProjectEvent(c)
  PROVE  HubInv'
<1>1. UNCHANGED <<hub, counted, uncounted, reached, clients, pushes>>
  BY DEF HandleCommand, AppendEvent, ProjectEvent, KeepHub
<1>2. logged' \in logged..LogBound
  <2>1. logged \in Nat /\ logged <= LogBound /\ LogBound \in Nat
    BY TabOf
  <2>2. logged' = logged \/ (logged < LogBound /\ logged' = logged + 1)
    BY DEF HandleCommand, AppendEvent, ProjectEvent
  <2> QED BY <2>1, <2>2
<1> DEFINE ended == [[tab[c] EXCEPT !.todo = <<>>] EXCEPT !.written = FALSE]
           done == [[tab[c] EXCEPT !.todo = Tail(tab[c].todo)] EXCEPT !.written = FALSE]
           noted == [tab[c] EXCEPT !.written = TRUE]
<1>3. IsTab(tab[c])
  BY TabOf
<1>4. /\ IsTab(ended) /\ ended.step = tab[c].step /\ ended.snap = tab[c].snap
  <2> DEFINE y == [tab[c] EXCEPT !.todo = <<>>]
  <2>1. IsTab(y) /\ y.step = tab[c].step /\ y.snap = tab[c].snap
    BY <1>3, TabCommanded
  <2> HIDE DEF y
  <2>2. /\ IsTab([y EXCEPT !.written = FALSE]) /\ [y EXCEPT !.written = FALSE].step = y.step
        /\ [y EXCEPT !.written = FALSE].snap = y.snap
    BY <2>1, TabCommanded, Zenon
  <2> QED BY <2>1, <2>2 DEF y
<1>5. /\ IsTab(done) /\ done.step = tab[c].step /\ done.snap = tab[c].snap
  <2> DEFINE y == [tab[c] EXCEPT !.todo = Tail(tab[c].todo)]
  <2>1. IsTab(y) /\ y.step = tab[c].step /\ y.snap = tab[c].snap
    BY <1>3, TabCommanded
  <2> HIDE DEF y
  <2>2. /\ IsTab([y EXCEPT !.written = FALSE]) /\ [y EXCEPT !.written = FALSE].step = y.step
        /\ [y EXCEPT !.written = FALSE].snap = y.snap
    BY <2>1, TabCommanded, Zenon
  <2> QED BY <2>1, <2>2 DEF y
<1>6. /\ IsTab(noted) /\ noted.step = tab[c].step /\ noted.snap = tab[c].snap
  BY <1>3, TabCommanded, Zenon
<1>7. CASE HandleCommand(c)
  <2>1. \E todo : tab' = [tab EXCEPT ![c].todo = todo]
    BY <1>7, Zenon DEF HandleCommand
  <2>2. PICK todo : tab' = [tab EXCEPT ![c].todo = todo]
    BY <2>1
  <2> DEFINE x == [tab[c] EXCEPT !.todo = todo]
  <2>3. IsTab(x) /\ x.step = tab[c].step /\ x.snap = tab[c].snap
    BY <1>3, TabCommanded
  <2>4. tab' = [tab EXCEPT ![c] = x]
    BY <2>2
  <2> HIDE DEF x
  <2> QED BY <1>1, <1>2, <2>3, <2>4, CommandStep
<1>8. CASE AppendEvent(c) \/ ProjectEvent(c)
  <2>1. \/ tab' = [tab EXCEPT ![c] = ended]
        \/ tab' = [tab EXCEPT ![c] = done]
        \/ tab' = [tab EXCEPT ![c] = noted]
    BY <1>8 DEF AppendEvent, ProjectEvent, FailCommand, HubInv, HubTyped
  <2> HIDE DEF ended, done, noted
  <2> QED BY <1>1, <1>2, <1>4, <1>5, <1>6, <2>1, CommandStep
<1> QED BY <1>7, <1>8

LEMMA EngineKeeps ==
  ASSUME HubInv, EngineRecords \/ UNCHANGED hubVars
  PROVE  HubInv'
<1>1. UNCHANGED <<hub, counted, uncounted, reached, tab, clients, pushes>>
  BY DEF EngineRecords, KeepHub, hubVars
<1>2. logged' = logged \/ (logged < LogBound /\ logged' = logged + 1)
  BY DEF EngineRecords, hubVars
<1>3. HubTyped' /\ Counts'
  BY <1>1, <1>2, HubAssumption DEF HubInv, HubTyped, Counts
<1>4. Registered' /\ \A c \in clients' : Told(c)'
  BY <1>1 DEF HubInv, Registered, Told, PushedInOrder, Done, Unsent
<1> QED BY <1>3, <1>4 DEF HubInv

(* --- the hub's tick ---------------------------------------------------------- *)

LEMMA HubPlaces ==
  ASSUME NEW h, IsHub(h), NEW v
  PROVE  /\ IsHub([h EXCEPT !.pc = v]) /\ [h EXCEPT !.pc = v].pc = v
         /\ [h EXCEPT !.pc = v].upto = h.upto /\ [h EXCEPT !.pc = v].conns = h.conns
BY DEF IsHub

LEMMA HubUpto ==
  ASSUME NEW h, IsHub(h), NEW v
  PROVE  /\ IsHub([h EXCEPT !.upto = v]) /\ [h EXCEPT !.upto = v].pc = h.pc
         /\ [h EXCEPT !.upto = v].upto = v /\ [h EXCEPT !.upto = v].conns = h.conns
BY DEF IsHub

LEMMA HubConns ==
  ASSUME NEW h, IsHub(h), NEW v
  PROVE  /\ IsHub([h EXCEPT !.conns = v]) /\ [h EXCEPT !.conns = v].pc = h.pc
         /\ [h EXCEPT !.conns = v].upto = h.upto /\ [h EXCEPT !.conns = v].conns = v
BY DEF IsHub

LEMMA PositionsAre ==
  ASSUME NEW m \in Nat, NEW n \in Nat, m < n
  PROVE  /\ Positions(m, n) \in Seq(Nat) /\ Len(Positions(m, n)) = n - m
         /\ \A i \in 1..(n - m) : Positions(m, n)[i] = m + i
<1> DEFINE r == [i \in 1..(n - m) |-> m + i]
<1>1. n - m \in Nat /\ \A i \in 1..(n - m) : m + i \in Nat
  OBVIOUS
<1>2. r \in Seq(Nat) /\ Len(r) = n - m /\ \A i \in 1..(n - m) : r[i] = m + i
  BY <1>1
<1> QED BY <1>2 DEF Positions

LEMMA Concatenated ==
  ASSUME NEW q \in Seq(Nat), NEW r \in Seq(Nat)
  PROVE  /\ q \o r \in Seq(Nat) /\ Len(q \o r) = Len(q) + Len(r)
         /\ \A i \in 1..Len(q) : (q \o r)[i] = q[i]
         /\ \A i \in 1..Len(r) : (q \o r)[Len(q) + i] = r[i]
OBVIOUS

(* What is pushed follows what was.                                         *)
LEMMA PushedOn ==
  ASSUME NEW q \in Seq(Nat), NEW m \in Nat, NEW n \in Nat, m < n,
         \A i \in 1..Len(q) : q[i] <= m,
         \A i \in 1..Len(q) : \A j \in 1..Len(q) : i < j => q[i] < q[j]
  PROVE  /\ q \o Positions(m, n) \in Seq(Nat)
         /\ \A i \in 1..Len(q \o Positions(m, n)) : (q \o Positions(m, n))[i] <= n
         /\ \A i, j \in 1..Len(q \o Positions(m, n)) :
              i < j => (q \o Positions(m, n))[i] < (q \o Positions(m, n))[j]
         /\ \A e \in m + 1..n : \E i \in 1..Len(q \o Positions(m, n)) : (q \o Positions(m, n))[i] = e
<1> DEFINE r == Positions(m, n)
           t == q \o r
           k == Len(q)
<1>1. r \in Seq(Nat) /\ Len(r) = n - m /\ \A i \in 1..(n - m) : r[i] = m + i
  BY PositionsAre
<1>2. k \in Nat /\ \A i \in 1..k : q[i] \in Nat
  OBVIOUS
<1> HIDE DEF r
<1>3. /\ t \in Seq(Nat) /\ Len(t) = k + Len(r)
      /\ \A i \in 1..k : t[i] = q[i]
      /\ \A i \in 1..Len(r) : t[k + i] = r[i]
  <2>1. r \in Seq(Nat)
    BY <1>1
  <2> QED BY <2>1, Concatenated
<1> HIDE DEF t, k
<1>4. \A i \in 1..Len(t) : i \in 1..k \/ (i - k \in 1..(n - m) /\ i = k + (i - k))
  BY <1>1, <1>2, <1>3
<1>5. /\ Len(t) = k + (n - m)
      /\ \A i \in 1..k : t[i] = q[i] /\ t[i] <= m /\ t[i] \in Nat
      /\ \A i \in 1..(n - m) : t[k + i] = m + i
  BY <1>1, <1>2, <1>3 DEF k
<1>6. ASSUME NEW i \in 1..Len(t)
      PROVE  t[i] <= n
  <2>1. CASE i \in 1..k
    <3>1. t[i] <= m /\ t[i] \in Nat
      BY <1>5, <2>1
    <3> QED BY <3>1
  <2>2. CASE i - k \in 1..(n - m) /\ i = k + (i - k)
    <3> DEFINE o == i - k
    <3>1. o \in 1..(n - m) /\ t[k + o] = m + o /\ k + o = i
      BY <1>5, <2>2
    <3>2. t[i] = m + o
      BY <3>1
    <3> HIDE DEF o
    <3> QED BY <3>1, <3>2
  <2> QED BY <1>4, <2>1, <2>2
<1>7. ASSUME NEW i \in 1..Len(t), NEW j \in 1..Len(t), i < j
      PROVE  t[i] < t[j]
  <2>1. CASE j \in 1..k
    <3>1. i \in 1..k
      BY <1>2, <1>5, <1>7, <2>1
    <3>2. q[i] < q[j]
      BY <1>7, <2>1, <3>1 DEF k
    <3> QED BY <1>5, <2>1, <3>1, <3>2
  <2>2. CASE j \notin 1..k /\ i \in 1..k
    <3>1. t[j] = m + (j - k) /\ j - k \in 1..(n - m)
      BY <1>4, <1>5, <2>2
    <3> QED BY <1>2, <1>5, <2>2, <3>1
  <2>3. CASE j \notin 1..k /\ i \notin 1..k
    <3>1. /\ t[j] = m + (j - k) /\ j - k \in 1..(n - m)
          /\ t[i] = m + (i - k) /\ i - k \in 1..(n - m)
      BY <1>4, <1>5, <2>3
    <3> QED BY <1>2, <1>5, <1>7, <3>1
  <2> QED BY <2>1, <2>2, <2>3
<1>8. ASSUME NEW e \in m + 1..n
      PROVE  \E i \in 1..Len(t) : t[i] = e
  <2>1. e - m \in 1..(n - m) /\ m + (e - m) = e /\ k + (e - m) \in 1..Len(t)
    BY <1>2, <1>5, <1>8
  <2>2. t[k + (e - m)] = e
    BY <1>5, <2>1
  <2> QED BY <2>1, <2>2
<1> QED BY <1>3, <1>6, <1>7, <1>8 DEF t, r, k

LEMMA ListLogKeeps ==
  ASSUME HubInv, ListLog
  PROVE  HubInv'
<1>1. PICK n \in {logged, 0} :
        /\ hub' = [hub EXCEPT !.pc = IF n > counted /\ counted > 0 THEN "diff" ELSE "count",
                              !.upto = n]
        /\ reached' = IF n > reached THEN n ELSE reached
        /\ uncounted' = IF counted = 0 THEN uncounted \cup ((reached + 1)..n) ELSE uncounted
  BY DEF ListLog
<1>2. hub.pc = "idle" /\ UNCHANGED <<logged, table, tab, clients, counted, pushes>>
  BY DEF ListLog
<1>3. /\ logged \in Nat /\ counted \in Nat /\ reached \in Nat /\ n \in Nat /\ LogBound \in Nat
      /\ reached <= logged /\ logged <= LogBound /\ counted \in {0, reached} /\ IsHub(hub)
      /\ clients \subseteq Tabs
  BY <1>2, HubAssumption DEF HubInv, HubTyped, Counts
<1> DEFINE pc == IF n > counted /\ counted > 0 THEN "diff" ELSE "count"
<1>4. IsHub(hub') /\ hub'.pc = pc /\ hub'.upto = n
  <2> DEFINE y == [hub EXCEPT !.pc = pc]
  <2>1. hub' = [y EXCEPT !.upto = n]
    BY <1>1
  <2> HIDE DEF pc
  <2>2. IsHub(y) /\ y.pc = pc
    BY <1>3, HubPlaces, Zenon
  <2> HIDE DEF y
  <2> QED BY <2>1, <2>2, HubUpto
<1>5. HubTyped'
  BY <1>1, <1>2, <1>3, <1>4 DEF HubInv, HubTyped
<1>6. Counts'
  BY <1>1, <1>2, <1>3, <1>4 DEF Counts
<1>7. Registered'
  BY <1>2, <1>4 DEF HubInv, Registered, Unsent
<1>8. /\ Done = reached /\ Done <= Done' /\ Done' \in Nat
      /\ \A e \in Nat : Done < e /\ e <= Done' => e \in uncounted'
      /\ uncounted \subseteq uncounted'
  BY <1>1, <1>2, <1>3, <1>4 DEF Done
<1>9. ASSUME NEW c \in clients PROVE Told(c)'
  <2>1. /\ pushes[c] \in Seq(Nat) /\ Len(pushes[c]) \in Nat
        /\ \A i \in 1..Len(pushes[c]) : pushes[c][i] \in Nat
    BY <1>3 DEF HubInv, HubTyped
  <2>2. PushedInOrder(pushes[c])'
    BY <1>2, <1>3, <1>8, <1>9, <2>1 DEF HubInv, Told, PushedInOrder
  <2>3. ASSUME NEW e \in Nat, tab[c].snap < e, e <= Done', e \notin uncounted'
        PROVE  \E i \in 1..Len(pushes[c]) : pushes[c][i] = e
    <3>1. e <= Done /\ e \notin uncounted
      BY <1>3, <1>8, <2>3
    <3> QED BY <1>9, <2>3, <3>1 DEF HubInv, Told
  <2> QED BY <1>2, <2>2, <2>3 DEF Told
<1> QED BY <1>2, <1>5, <1>6, <1>7, <1>9 DEF HubInv

LEMMA CopyClientsKeeps ==
  ASSUME HubInv, CopyClients
  PROVE  HubInv'
<1>1. /\ hub.pc = "diff" /\ hub' = [hub EXCEPT !.pc = "push", !.conns = clients]
      /\ UNCHANGED <<logged, table, tab, clients, counted, pushes, uncounted, reached>>
  BY DEF CopyClients
<1>2. IsHub(hub') /\ hub'.pc = "push" /\ hub'.upto = hub.upto /\ hub'.conns = clients
  <2> DEFINE y == [hub EXCEPT !.pc = "push"]
  <2>1. IsHub(y) /\ y.pc = "push" /\ y.upto = hub.upto
    BY HubPlaces, Zenon DEF HubInv, HubTyped
  <2>2. hub' = [y EXCEPT !.conns = clients]
    BY <1>1
  <2> HIDE DEF y
  <2> QED BY <2>1, <2>2, HubConns
<1>3. HubTyped' /\ Counts'
  BY <1>1, <1>2 DEF HubInv, HubTyped, Counts
<1>4. Registered'
  BY <1>1, <1>2 DEF HubInv, Registered, Unsent
<1>5. Done' = Done
  BY <1>1, <1>2 DEF Done
<1>6. \A c \in clients' : Told(c)'
  BY <1>1, <1>5 DEF HubInv, Told, PushedInOrder
<1> QED BY <1>3, <1>4, <1>6 DEF HubInv

LEMMA PushEventsKeeps ==
  ASSUME HubInv, PushEvents
  PROVE  HubInv'
<1>1. PICK dead \in SUBSET hub.conns :
        /\ clients' = clients \ dead
        /\ pushes' = [c \in Tabs |->
             IF c \in dead \/ c \notin clients THEN <<>>
             ELSE IF c \notin hub.conns THEN pushes[c]
             ELSE pushes[c] \o Positions(counted, hub.upto)]
  BY DEF PushEvents
<1>2. /\ hub.pc = "push" /\ hub' = [hub EXCEPT !.pc = "count", !.conns = {}]
      /\ UNCHANGED <<logged, table, tab, counted, uncounted, reached>>
  BY DEF PushEvents
<1>3. IsHub(hub') /\ hub'.pc = "count" /\ hub'.upto = hub.upto
  <2> DEFINE y == [hub EXCEPT !.pc = "count"]
  <2>1. IsHub(y) /\ y.pc = "count" /\ y.upto = hub.upto
    BY HubPlaces, Zenon DEF HubInv, HubTyped
  <2>2. hub' = [y EXCEPT !.conns = {}]
    BY <1>2
  <2> HIDE DEF y
  <2> QED BY <2>1, <2>2, HubConns
<1>4. /\ counted \in Nat /\ hub.upto \in Nat /\ counted < hub.upto /\ hub.upto = reached
      /\ reached \in Nat /\ clients \subseteq Tabs
      /\ \A c \in Tabs : pushes[c] \in Seq(Nat) /\ tab[c].snap \in Nat
  BY <1>2 DEF HubInv, HubTyped, Counts
<1>5. Done = counted /\ Done' = reached /\ Done' = hub.upto
  BY <1>2, <1>3, <1>4 DEF Done
<1>6. \A c \in clients : /\ \A i \in 1..Len(pushes[c]) : pushes[c][i] <= counted
                         /\ \A i \in 1..Len(pushes[c]) : \A j \in 1..Len(pushes[c]) :
                              i < j => pushes[c][i] < pushes[c][j]
  BY <1>5 DEF HubInv, Told, PushedInOrder
<1>7. \A c \in Tabs : /\ c \in dead \/ c \notin clients => pushes'[c] = <<>>
                      /\ c \in clients' /\ c \notin hub.conns => pushes'[c] = pushes[c]
                      /\ c \in clients' /\ c \in hub.conns =>
                           pushes'[c] = pushes[c] \o Positions(counted, hub.upto)
  BY <1>1
<1>8. \A c \in Tabs : pushes'[c] \in Seq(Nat)
  <2> TAKE c \in Tabs
  <2>1. <<>> \in Seq(Nat)
    OBVIOUS
  <2>2. CASE c \in clients' /\ c \in hub.conns
    BY <1>1, <1>4, <1>6, <1>7, <2>2, PushedOn
  <2> QED BY <1>1, <1>4, <1>7, <2>1, <2>2
<1>9. HubTyped'
  <2>1. pushes' \in [Tabs -> Seq(Nat)]
    BY <1>1, <1>8
  <2> QED BY <1>1, <1>2, <1>3, <2>1 DEF HubInv, HubTyped
<1>10. Counts'
  BY <1>2, <1>3, <1>4 DEF HubInv, Counts
<1>11. Registered'
  BY <1>1, <1>2, <1>3, <1>7 DEF HubInv, Registered, Unsent
<1>12. ASSUME NEW c \in clients' PROVE Told(c)'
  <2>1. c \in Tabs /\ c \in clients /\ Told(c)
    BY <1>1, <1>4, <1>12 DEF HubInv
  <2>2. CASE c \notin hub.conns
    <3>1. tab[c].snap >= hub.upto /\ pushes'[c] = pushes[c] /\ tab'[c] = tab[c]
      BY <1>2, <1>7, <1>12, <2>1, <2>2 DEF HubInv, Registered
    <3>2. PushedInOrder(pushes[c])'
      <4>1. \A i \in 1..Len(pushes[c]) : pushes[c][i] \in Nat
        BY <1>4, <2>1
      <4> QED BY <1>4, <1>5, <1>6, <2>1, <3>1, <4>1 DEF PushedInOrder
    <3>3. \A e \in Nat : ~(tab[c].snap < e /\ e <= Done')
      BY <1>4, <1>5, <2>1, <3>1
    <3> QED BY <3>1, <3>2, <3>3 DEF Told
  <2>3. CASE c \in hub.conns
    <3> DEFINE t == pushes[c] \o Positions(counted, hub.upto)
    <3>1. pushes'[c] = t /\ tab'[c] = tab[c]
      BY <1>2, <1>7, <1>12, <2>1, <2>3
    <3>2. /\ \A i \in 1..Len(t) : t[i] <= hub.upto
          /\ \A i, j \in 1..Len(t) : i < j => t[i] < t[j]
          /\ \A e \in counted + 1..hub.upto : \E i \in 1..Len(t) : t[i] = e
          /\ \A j \in 1..Len(pushes[c]) : j \in 1..Len(t) /\ t[j] = pushes[c][j]
      <4>1. /\ pushes[c] \in Seq(Nat) /\ counted \in Nat /\ hub.upto \in Nat /\ counted < hub.upto
            /\ \A i \in 1..Len(pushes[c]) : pushes[c][i] <= counted
            /\ \A i \in 1..Len(pushes[c]) : \A j \in 1..Len(pushes[c]) :
                 i < j => pushes[c][i] < pushes[c][j]
        BY <1>4, <1>6, <2>1, Zenon
      <4>2. \A i \in 1..Len(t) : t[i] <= hub.upto
        BY <4>1, PushedOn
      <4>3. \A i, j \in 1..Len(t) : i < j => t[i] < t[j]
        BY <4>1, PushedOn
      <4>4. \A e \in counted + 1..hub.upto : \E i \in 1..Len(t) : t[i] = e
        BY <4>1, PushedOn
      <4>5. \A j \in 1..Len(pushes[c]) : j \in 1..Len(t) /\ t[j] = pushes[c][j]
        <5> DEFINE r == Positions(counted, hub.upto)
        <5>1. r \in Seq(Nat) /\ Len(r) \in Nat /\ pushes[c] \in Seq(Nat)
          BY <4>1, PositionsAre
        <5>2. Len(pushes[c]) \in Nat
          BY <5>1
        <5> HIDE DEF r
        <5>3. /\ Len(pushes[c] \o r) = Len(pushes[c]) + Len(r)
              /\ \A j \in 1..Len(pushes[c]) : (pushes[c] \o r)[j] = pushes[c][j]
          BY <5>1, Concatenated
        <5>4. t = pushes[c] \o r
          BY DEF r
        <5> HIDE DEF t
        <5> QED BY <5>1, <5>2, <5>3, <5>4
      <4> QED BY <4>2, <4>3, <4>4, <4>5
    <3> HIDE DEF t
    <3>3. PushedInOrder(pushes[c])'
      BY <1>5, <3>1, <3>2 DEF PushedInOrder
    <3>4. ASSUME NEW e \in Nat, tab[c].snap < e, e <= Done', e \notin uncounted
          PROVE  \E i \in 1..Len(t) : t[i] = e
      <4>1. CASE e <= counted
        <5>1. \E i \in 1..Len(pushes[c]) : pushes[c][i] = e
          BY <1>5, <2>1, <3>4, <4>1 DEF Told
        <5> QED BY <3>2, <5>1
      <4>2. CASE ~(e <= counted)
        BY <1>4, <1>5, <3>2, <3>4, <4>2
      <4> QED BY <4>1, <4>2
    <3> QED BY <1>2, <3>1, <3>3, <3>4 DEF Told
  <2> QED BY <2>2, <2>3
<1> QED BY <1>9, <1>10, <1>11, <1>12 DEF HubInv

LEMMA PushStateKeeps ==
  ASSUME HubInv, PushState
  PROVE  HubInv'
<1>1. PICK dead \in SUBSET clients :
        /\ clients' = clients \ dead
        /\ pushes' = [c \in Tabs |-> IF c \in dead THEN <<>> ELSE pushes[c]]
  BY DEF PushState
<1>2. /\ hub.pc = "count" /\ counted' = hub.upto /\ hub' = [hub EXCEPT !.pc = "idle", !.upto = 0]
      /\ UNCHANGED <<logged, table, tab, uncounted, reached>>
  BY DEF PushState
<1>3. IsHub(hub') /\ hub'.pc = "idle" /\ hub'.upto = 0
  <2> DEFINE y == [hub EXCEPT !.pc = "idle"]
  <2>1. IsHub(y) /\ y.pc = "idle"
    BY HubPlaces, Zenon DEF HubInv, HubTyped
  <2>2. hub' = [y EXCEPT !.upto = 0]
    BY <1>2
  <2> HIDE DEF y
  <2> QED BY <2>1, <2>2, HubUpto
<1>4. HubTyped'
  <2>1. <<>> \in Seq(Nat)
    OBVIOUS
  <2> QED BY <1>1, <1>2, <1>3, <2>1 DEF HubInv, HubTyped
<1>5. Counts'
  BY <1>2, <1>3 DEF HubInv, HubTyped, Counts
<1>6. Registered'
  BY <1>1, <1>2, <1>3 DEF HubInv, HubTyped, Registered, Unsent
<1>7. Done' = Done
  BY <1>2, <1>3 DEF Done
<1>8. \A c \in clients' : c \in clients /\ pushes'[c] = pushes[c]
  BY <1>1 DEF HubInv, HubTyped
<1>9. \A c \in clients' : Told(c)'
  BY <1>2, <1>7, <1>8 DEF HubInv, Told, PushedInOrder
<1> QED BY <1>4, <1>5, <1>6, <1>9 DEF HubInv

LEMMA StopHubKeeps ==
  ASSUME HubInv, StopHub
  PROVE  HubInv'
<1>1. /\ hub' = [hub EXCEPT !.pc = "stopped"] /\ clients' = {} /\ logged' = logged
      /\ tab' = [c \in Tabs |-> Closed] /\ pushes' = [c \in Tabs |-> <<>>]
      /\ counted' = 0 /\ reached' = 0
  BY DEF StopHub
<1>2. IsHub(hub') /\ hub'.pc = "stopped" /\ hub'.upto = hub.upto
  BY <1>1, HubPlaces DEF HubInv, HubTyped
<1>3. <<>> \in Seq(Nat) /\ Unsent \in Nat
  BY HubAssumption DEF Unsent
<1>4. HubTyped' /\ Counts'
  BY <1>1, <1>2, <1>3, ClosedTab DEF HubInv, HubTyped, Counts
<1>5. Registered'
  BY <1>1, ClosedTab DEF Registered, Unsent
<1> QED BY <1>1, <1>4, <1>5 DEF HubInv

LEMMA HubStep == HubInv /\ [HubNext]_hubVars => HubInv'
<1> SUFFICES ASSUME HubInv, [HubNext]_hubVars PROVE HubInv'
  OBVIOUS
<1>1. ASSUME NEW c \in Tabs, Accept(c) \/ AddClient(c) \/ SendState(c) \/ Disconnect(c)
      PROVE  HubInv'
  BY <1>1, AcceptKeeps, AddClientKeeps, SendStateKeeps, DisconnectKeeps
<1>2. ASSUME NEW c \in Tabs, HandleCommand(c) \/ AppendEvent(c) \/ ProjectEvent(c)
      PROVE  HubInv'
  BY <1>2, CommandKeeps
<1>3. CASE EngineRecords \/ UNCHANGED hubVars
  BY <1>3, EngineKeeps
<1>4. CASE ListLog \/ CopyClients \/ PushEvents \/ PushState \/ StopHub
  BY <1>4, ListLogKeeps, CopyClientsKeeps, PushEventsKeeps, PushStateKeeps, StopHubKeeps
<1> QED BY <1>1, <1>2, <1>3, <1>4 DEF HubNext

(* A connected tab has been sent every event up to the last count, in the   *)
(* log of its snapshot or after it, in order and once: for any number of    *)
(* tabs, ticks, commands, evictions and handshakes in progress.             *)
THEOREM NothingMissed == HubSpec => []NoEventMissedOrTwice
<1>1. HubInv => NoEventMissedOrTwice
  <2> SUFFICES ASSUME HubInv, NEW c \in clients
               PROVE  /\ \A i \in 1..(Len(pushes[c]) - 1) : pushes[c][i] < pushes[c][i + 1]
                      /\ tab[c].snap # Unsent =>
                           ((tab[c].snap + 1)..counted) \ uncounted \subseteq ToSet(pushes[c])
    BY DEF NoEventMissedOrTwice
  <2>1. /\ c \in Tabs /\ Told(c) /\ pushes[c] \in Seq(Nat) /\ tab[c].snap \in Nat
        /\ counted \in Nat /\ reached \in Nat
    BY DEF HubInv, HubTyped
  <2>2. \A i \in 1..(Len(pushes[c]) - 1) : pushes[c][i] < pushes[c][i + 1]
    <3> TAKE i \in 1..(Len(pushes[c]) - 1)
    <3>1. Len(pushes[c]) \in Nat
      BY <2>1
    <3>2. i \in 1..Len(pushes[c]) /\ i + 1 \in 1..Len(pushes[c]) /\ i < i + 1
      BY <3>1
    <3> QED BY <2>1, <3>2 DEF Told, PushedInOrder
  <2>3. ASSUME NEW e \in (tab[c].snap + 1)..counted, e \notin uncounted
        PROVE  e \in ToSet(pushes[c])
    <3>1. counted <= Done
      BY <2>1 DEF HubInv, Counts, Done
    <3>2. e \in Nat /\ tab[c].snap < e /\ e <= Done
      BY <2>1, <2>3, <3>1 DEF Done
    <3>3. PICK i \in 1..Len(pushes[c]) : pushes[c][i] = e
      BY <2>1, <2>3, <3>2 DEF Told
    <3>4. i \in DOMAIN pushes[c]
      BY <2>1
    <3> QED BY <3>3, <3>4 DEF ToSet
  <2> QED BY <2>2, <2>3
<1>2. HubSpec => []HubInv
  BY HubInitial, HubStep, PTL DEF HubSpec
<1> QED BY <1>1, <1>2, PTL

(* --- the types of the hub ------------------------------------------------------ *)

(* The events of a command, none of them past the last tier.               *)
EventType ==
  {"ESCALATED", "REVIEW_FAILED", "REWRITTEN", "REQ_PAUSED", "REQ_RESUMED", "TERMINATED"}
HubEvent == [type : EventType, tier : 0..MaxTier]

(* What a tab has in hand: once the first of its events is in the log,     *)
(* there is one to project.                                                *)
TabInHand(c) ==
  /\ tab[c].snap <= Unsent
  /\ tab[c].todo \in Seq(HubEvent) /\ (tab[c].written => tab[c].todo # <<>>)

HubMore ==
  /\ hub.conns \subseteq Tabs /\ hub.upto <= LogBound /\ uncounted \subseteq 1..LogBound
  /\ table = [tier |-> table.tier, req |-> table.req, session |-> table.session]
  /\ table.tier \in 0..MaxTier
  /\ \A c \in Tabs : TabInHand(c)

LEMMA HubEvents ==
  /\ \A t \in 0..MaxTier : ToTier(t) \in HubEvent /\ RetryOrReassign(t) \in Seq(HubEvent)
  /\ table.tier \in 0..MaxTier => Escalate \in Seq(HubEvent)
  /\ {Edit, PauseCmd, ResumeCmd, Kill} \subseteq Seq(HubEvent)
<1>1. \A x \in EventType : Evt(x) \in HubEvent
  BY HubAssumption DEF Evt, HubEvent
<1>2. \A t \in 0..MaxTier : ToTier(t) \in HubEvent
  BY HubAssumption DEF ToTier, HubEvent, EventType
<1>3. table.tier \in 0..MaxTier => Lower(table.tier + 1, MaxTier) \in 0..MaxTier
  BY HubAssumption DEF Lower
<1>4. \A e, f \in HubEvent : <<e>> \in Seq(HubEvent) /\ <<e, f>> \in Seq(HubEvent)
  OBVIOUS
<1>5. <<>> \in Seq(HubEvent)
  OBVIOUS
<1>6. \A t \in 0..MaxTier : RetryOrReassign(t) \in Seq(HubEvent)
  <2> SUFFICES ASSUME NEW t \in 0..MaxTier PROVE RetryOrReassign(t) \in Seq(HubEvent)
    OBVIOUS
  <2>1. ToTier(t) \in HubEvent /\ Evt("REVIEW_FAILED") \in HubEvent
    BY <1>1, <1>2 DEF EventType
  <2> QED BY <1>4, <2>1 DEF RetryOrReassign
<1>7. table.tier \in 0..MaxTier => Escalate \in Seq(HubEvent)
  BY <1>2, <1>3, <1>4 DEF Escalate
<1>8. {Edit, PauseCmd, ResumeCmd, Kill} \subseteq Seq(HubEvent)
  <2>1. \A x \in EventType : <<Evt(x)>> \in Seq(HubEvent)
    BY <1>1, <1>4
  <2>2. Edit \in Seq(HubEvent) /\ PauseCmd \in Seq(HubEvent)
    BY <1>5, <2>1 DEF Edit, PauseCmd, EventType
  <2>3. ResumeCmd \in Seq(HubEvent) /\ Kill \in Seq(HubEvent)
    BY <1>5, <2>1 DEF ResumeCmd, Kill, EventType
  <2> QED BY <2>2, <2>3
<1> QED BY <1>2, <1>6, <1>7, <1>8

(* A tab's handler goes on.                                                *)
LEMMA TabInHandStep ==
  ASSUME HubInv, HubMore, NEW c \in Tabs,
         \/ Accept(c) \/ AddClient(c) \/ SendState(c) \/ Disconnect(c)
         \/ HandleCommand(c) \/ AppendEvent(c) \/ ProjectEvent(c)
  PROVE  HubMore'
<1>0. /\ tab = [d \in Tabs |-> tab[d]] /\ \A d \in Tabs : IsTab(tab[d]) /\ TabInHand(d)
      /\ logged \in Nat /\ logged <= LogBound /\ Unsent = LogBound + 1
  BY DEF HubInv, HubTyped, Counts, HubMore, Unsent
<1>1. UNCHANGED <<hub, uncounted>>
  BY DEF Accept, AddClient, SendState, Disconnect, HandleCommand, AppendEvent, ProjectEvent,
         KeepHub
<1>2. \A d \in Tabs : d # c => tab'[d] = tab[d]
  BY <1>0 DEF Accept, AddClient, SendState, Disconnect, HandleCommand, AppendEvent,
              ProjectEvent, FailCommand, Next1
<1>3. TabInHand(c)'
  <2> DEFINE x == tab[c]
  <2>0. IsTab(x) /\ <<>> \in Seq(HubEvent) /\ LogBound \in Nat
    BY <1>0, HubAssumption
  <2>1. CASE Accept(c) \/ AddClient(c)
    <3>1. PICK n : tab'[c] = [x EXCEPT !.step = n]
      BY <1>0, <2>1 DEF Accept, AddClient, Next1
    <3> QED BY <1>0, <2>0, <3>1 DEF IsTab, TabInHand
  <2>2. CASE SendState(c)
    <3>1. PICK n \in {logged, Unsent} :
            tab'[c] = [[x EXCEPT !.step = @ + 1] EXCEPT !.snap = n]
      BY <1>0, <2>2 DEF SendState, Next1
    <3> QED BY <1>0, <2>0, <3>1 DEF IsTab, TabInHand
  <2>3. CASE Disconnect(c)
    <3>1. tab'[c] = Closed
      BY <1>0, <2>3 DEF Disconnect
    <3> QED BY <1>0, <2>0, <3>1 DEF TabInHand, Closed
  <2>4. CASE HandleCommand(c)
    <3>1. PICK todo \in {RetryOrReassign(t) : t \in 0..MaxTier}
                          \cup {Escalate, Edit, PauseCmd, ResumeCmd, Kill} :
            todo # <<>> /\ tab'[c] = [x EXCEPT !.todo = todo]
      BY <1>0, <2>4 DEF HandleCommand
    <3>2. todo \in Seq(HubEvent)
      BY <3>1, HubEvents DEF HubMore
    <3> QED BY <1>0, <2>0, <3>1, <3>2 DEF IsTab, TabInHand
  <2>5. CASE AppendEvent(c)
    <3>1. \/ x.todo # <<>> /\ tab'[c] = [x EXCEPT !.written = TRUE]
          \/ tab'[c] = [x EXCEPT !.todo = <<>>, !.written = FALSE]
      BY <1>0, <2>5 DEF AppendEvent, FailCommand
    <3> QED BY <1>0, <2>0, <3>1 DEF IsTab, TabInHand
  <2>6. CASE ProjectEvent(c)
    <3>1. \/ tab'[c] = [x EXCEPT !.todo = Tail(@), !.written = FALSE]
          \/ tab'[c] = [x EXCEPT !.todo = <<>>, !.written = FALSE]
      BY <1>0, <2>6 DEF ProjectEvent, FailCommand
    <3>2. x.todo \in Seq(HubEvent) /\ x.todo # <<>>
      BY <1>0, <2>6 DEF ProjectEvent, TabInHand
    <3>3. Tail(x.todo) \in Seq(HubEvent)
      BY <3>2
    <3> QED BY <1>0, <2>0, <3>1, <3>3 DEF IsTab, TabInHand
  <2> QED BY <2>1, <2>2, <2>3, <2>4, <2>5, <2>6
<1>4. /\ table' = [tier |-> table'.tier, req |-> table'.req, session |-> table'.session]
      /\ table'.tier \in 0..MaxTier
  <2>1. CASE UNCHANGED table
    BY <2>1 DEF HubMore
  <2>2. CASE tab[c].written /\ table' = Applied(Head(tab[c].todo))
    <3> DEFINE evt == Head(tab[c].todo)
    <3>1. tab[c].todo \in Seq(HubEvent) /\ tab[c].todo # <<>>
      BY <1>0, <2>2 DEF TabInHand
    <3>2. evt \in HubEvent
      BY <3>1
    <3>3. evt.tier \in 0..MaxTier /\ 0 \in 0..MaxTier
      BY <3>2, HubAssumption DEF HubEvent
    <3>4. \/ table' = table
          \/ table' \in {[table EXCEPT !.tier = evt.tier], [table EXCEPT !.tier = 0]}
          \/ \E v : table' = [table EXCEPT !.req = v]
      BY <2>2, Zenon DEF Applied
    <3> HIDE DEF evt
    <3> QED BY <3>3, <3>4 DEF HubMore
  <2> QED BY <2>1, <2>2 DEF Accept, AddClient, SendState, Disconnect, HandleCommand,
                            AppendEvent, ProjectEvent
<1>5. \A d \in Tabs : TabInHand(d)'
  BY <1>0, <1>2, <1>3 DEF TabInHand
<1> QED BY <1>1, <1>4, <1>5 DEF HubMore

(* The hub's own steps.                                                    *)
LEMMA HubMoreStep ==
  ASSUME HubInv, HubMore, [HubNext]_hubVars
  PROVE  HubMore'
<1>0. /\ IsHub(hub) /\ logged \in Nat /\ reached \in Nat /\ logged <= LogBound
      /\ \A c \in Tabs : TabInHand(c)
      /\ LogBound \in Nat /\ Unsent = LogBound + 1 /\ clients \subseteq Tabs
  BY HubAssumption DEF HubInv, HubTyped, Counts, HubMore, Unsent
<1>1. CASE UNCHANGED hubVars
  BY <1>1 DEF hubVars, HubMore, TabInHand
<1>2. CASE EngineRecords
  BY <1>2 DEF EngineRecords, KeepHub, HubMore, TabInHand
<1>3. CASE ListLog
  <2>1. PICK n \in {logged, 0} :
          /\ hub' = [hub EXCEPT !.pc = IF n > counted /\ counted > 0 THEN "diff" ELSE "count",
                                !.upto = n]
          /\ uncounted' = IF counted = 0 THEN uncounted \cup ((reached + 1)..n) ELSE uncounted
    BY <1>3 DEF ListLog
  <2>2. hub'.conns = hub.conns /\ hub'.upto = n
    BY <1>0, <2>1 DEF IsHub
  <2>3. uncounted' \subseteq 1..LogBound
    BY <1>0, <2>1 DEF HubMore
  <2> QED BY <1>0, <1>3, <2>2, <2>3 DEF ListLog, HubMore, TabInHand
<1>4. CASE CopyClients
  <2>1. hub'.conns = clients /\ hub'.upto = hub.upto
    BY <1>0, <1>4 DEF CopyClients, IsHub
  <2> QED BY <1>0, <1>4, <2>1 DEF CopyClients, HubMore, TabInHand
<1>5. CASE PushEvents
  <2>1. hub'.conns = {} /\ hub'.upto = hub.upto
    BY <1>0, <1>5 DEF PushEvents, IsHub
  <2> QED BY <1>5, <2>1 DEF PushEvents, HubMore, TabInHand
<1>6. CASE PushState
  <2>1. hub'.conns = hub.conns /\ hub'.upto = 0
    BY <1>0, <1>6 DEF PushState, IsHub
  <2> QED BY <1>0, <1>6, <2>1 DEF PushState, HubMore, TabInHand
<1>7. CASE StopHub
  <2>1. /\ hub'.conns = hub.conns /\ hub'.upto = hub.upto
        /\ \A c \in Tabs : tab'[c] = Closed
    BY <1>0, <1>7 DEF StopHub, IsHub
  <2>2. \A c \in Tabs : TabInHand(c)'
    <3>1. Closed.snap = Unsent /\ Closed.todo = <<>> /\ ~Closed.written
      BY DEF Closed
    <3>2. <<>> \in Seq(HubEvent)
      OBVIOUS
    <3>3. Unsent' = Unsent
      BY DEF Unsent
    <3>4. \A c \in Tabs : tab'[c].snap <= Unsent'
      BY <1>0, <2>1, <3>1, <3>3
    <3>5. \A c \in Tabs : tab'[c].todo \in Seq(HubEvent)
      BY <1>0, <2>1, <3>1, <3>2
    <3>6. \A c \in Tabs : ~tab'[c].written
      BY <1>0, <2>1, <3>1
    <3> QED BY <3>4, <3>5, <3>6 DEF TabInHand
  <2> QED BY <1>7, <2>1, <2>2 DEF StopHub, HubMore
<1> QED BY <1>1, <1>2, <1>3, <1>4, <1>5, <1>6, <1>7, TabInHandStep DEF HubNext

(* Counts, positions and snapshots stay within the log, the hub writes to  *)
(* tabs only, and no command takes a story past the last tier.             *)
THEOREM HubIsTyped == HubSpec => []HubTypeOK
<1>1. HubInit => HubMore
  <2> SUFFICES ASSUME HubInit PROVE HubMore
    OBVIOUS
  <2>1. <<>> \in Seq(HubEvent)
    OBVIOUS
  <2>2. \A c \in Tabs : TabInHand(c)
    <3>1. Closed.snap = Unsent /\ Closed.todo = <<>> /\ ~Closed.written
      BY DEF Closed
    <3>2. Unsent \in Nat
      BY HubAssumption DEF Unsent
    <3>3. \A c \in Tabs : tab[c] = Closed
      BY DEF HubInit
    <3>4. \A c \in Tabs : tab[c].snap <= Unsent
      BY <3>1, <3>2, <3>3
    <3>5. \A c \in Tabs : tab[c].todo \in Seq(HubEvent)
      BY <2>1, <3>1, <3>3
    <3>6. \A c \in Tabs : ~tab[c].written
      BY <3>1, <3>3
    <3> QED BY <3>4, <3>5, <3>6 DEF TabInHand
  <2> QED BY <2>2, HubAssumption DEF HubInit, HubMore
<1>2. HubInv /\ HubMore /\ [HubNext]_hubVars => HubMore'
  BY HubMoreStep
<1>3. HubInv /\ HubMore => HubTypeOK
  <2> SUFFICES ASSUME HubInv, HubMore PROVE HubTypeOK
    OBVIOUS
  <2>1. Len(Handshake) = 3
    BY DEF Handshake
  <2>2. hub.pc \in {"idle", "diff", "push", "count", "stopped"}
    BY DEF HubInv, Counts
  <2>3. /\ logged \in 0..LogBound /\ counted \in 0..LogBound /\ reached \in 0..LogBound
        /\ clients \subseteq Tabs
    BY HubAssumption DEF HubInv, HubTyped, Counts
  <2>4. hub.upto \in 0..LogBound
    BY HubAssumption DEF HubInv, HubTyped, HubMore
  <2>5. \A c \in Tabs : tab[c].step \in 0..Len(Handshake) /\ tab[c].snap \in 0..Unsent
    BY <2>1, HubAssumption DEF HubInv, HubTyped, HubMore, TabInHand, Unsent
  <2> QED BY <2>2, <2>3, <2>4, <2>5 DEF HubMore, HubTypeOK
<1> QED BY <1>1, <1>2, <1>3, HubInitial, HubStep, PTL DEF HubSpec
================================================================================
