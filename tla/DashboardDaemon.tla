--------------------------- MODULE DashboardDaemon ---------------------------
(***************************************************************************)
(* The always-on dashboard: `vxd req` probes the port, joins the daemon    *)
(* that answers or spawns one, and prints a URL with the single-use nonce  *)
(* of its project's bootstrap file. A daemon binds the port, loads the     *)
(* token, writes its files, then serves; it is stopped, killed, or loses   *)
(* the port to another. All projects share a port, a token file and the    *)
(* cookie of one browser. VXD_DASHBOARD_TOKEN is not set. A nonce is named *)
(* by the daemon that minted it.                                           *)
(***************************************************************************)
EXTENDS Naturals, Sequences

CONSTANTS
  Dashboards, \* daemon processes, numbered in the order they start
  Reqs,       \* `vxd req` processes, likewise
  ReqProject, \* the project (state directory) each of them runs in
  MaxToken,   \* bound on the tokens minted
  NoDash      \* no process, no file

ASSUME DaemonAssumption ==
  /\ Dashboards \subseteq Nat /\ Reqs \subseteq Nat
  /\ MaxToken \in Nat /\ NoDash \in Nat \ Dashboards

VARIABLES
  dash,      \* [pc, step, project, files, filed, token, nonce, term] of a daemon
  port,      \* the daemon that holds the listener
  pidFile,   \* per project: dashboard.pid
  bootFile,  \* per project: dashboard.bootstrap
  dashToken, \* ~/.vxd/dashboard.token; 0: no file
  cookie,    \* token in the browser's cookie; 0: none
  handle,    \* [pc, by, nonce] of a `vxd req`: Ensure's local state
  stopper    \* one `vxd dashboard stop`: "ready", the project it stops, "done"

dashVars == <<dash, port, pidFile, bootFile, dashToken, cookie, handle, stopper>>

DashProjects == {ReqProject[r] : r \in Reqs}
NoDaemon(pc) == [pc |-> pc, step |-> 1, project |-> "none", files |-> FALSE,
                 filed |-> FALSE, token |-> 0, nonce |-> "fresh", term |-> FALSE]

DashInit ==
  /\ dash = [d \in Dashboards |-> NoDaemon("off")] /\ port = NoDash
  /\ pidFile = [p \in DashProjects |-> NoDash]
  /\ bootFile = [p \in DashProjects |-> NoDash]
  /\ dashToken = 0 /\ cookie = 0 /\ stopper = "ready"
  /\ handle = [r \in Reqs |-> [pc |-> "idle", by |-> NoDash, nonce |-> NoDash]]

(* --- the daemon ------------------------------------------------------------------- *)

(* Start, in order: the files are in place before a request is answered.     *)
FilesFirst == <<"token", "bootstrap", "pidfile", "listen", "serve">>
Startup == <<"listen", "token", "bootstrap", "pidfile", "serve">>

AtStep(d, s) == dash[d].pc = "starting" /\ Startup[dash[d].step] = s
Advance(d) == [dash EXCEPT ![d].step = @ + 1]
Exited(d) == [dash EXCEPT ![d] = NoDaemon("gone")]
Release(d) == port' = IF port = d THEN NoDash ELSE port

(* BuildCmd passes --pidfile and --bootstrap-file; by hand there is neither. *)
SpawnDashboard(d, p, files) ==
  /\ dash[d].pc = "off" /\ \A e \in Dashboards : e < d => dash[e].pc # "off"
  /\ dash' = [dash EXCEPT ![d].pc = "starting", ![d].project = p, ![d].files = files]

Listen(d) ==
  /\ AtStep(d, "listen")
  /\ \/ port = NoDash /\ port' = d /\ dash' = Advance(d)
     \/ port # NoDash /\ dash' = Exited(d) /\ UNCHANGED port
  /\ UNCHANGED <<pidFile, bootFile, dashToken, cookie, handle, stopper>>

(* LoadOrGenerateTokenWithTTL: the file's, a first one, or a new one for a   *)
(* file older than the TTL.                                                  *)
LoadToken(d) ==
  /\ AtStep(d, "token")
  /\ \E t \in {dashToken, dashToken + 1} :
       /\ t \in 1..MaxToken
       /\ dashToken' = t /\ dash' = [dash EXCEPT ![d].step = @ + 1, ![d].token = t]
  /\ UNCHANGED <<port, pidFile, bootFile, cookie, handle, stopper>>

(* A directory that cannot be written is logged, and the daemon goes on.     *)
WriteBootstrap(d) ==
  /\ AtStep(d, "bootstrap")
  /\ \/ /\ dash[d].files
        /\ dash' = [dash EXCEPT ![d].step = @ + 1, ![d].filed = TRUE]
        /\ bootFile' = [bootFile EXCEPT ![dash[d].project] = d]
     \/ dash' = Advance(d) /\ UNCHANGED bootFile
  /\ UNCHANGED <<port, pidFile, dashToken, cookie, handle, stopper>>

WritePidfile(d) ==
  /\ AtStep(d, "pidfile") /\ dash' = Advance(d)
  /\ pidFile' = IF dash[d].filed THEN [pidFile EXCEPT ![dash[d].project] = d] ELSE pidFile
  /\ UNCHANGED <<port, bootFile, dashToken, cookie, handle, stopper>>

Serve(d) ==
  /\ AtStep(d, "serve") /\ dash' = [dash EXCEPT ![d].pc = "serving"]
  /\ UNCHANGED <<port, pidFile, bootFile, dashToken, cookie, handle, stopper>>

(* ctx.Done: Shutdown closes the listener and Serve returns at once, so the  *)
(* process may be gone before its goroutine reaches the pidfile.             *)
Shutdown(d) ==
  /\ dash[d].term /\ dash[d].pc = "serving" /\ Release(d)
  /\ dash' \in {[dash EXCEPT ![d].pc = "removing"], Exited(d)}
  /\ UNCHANGED <<pidFile, bootFile, dashToken, cookie, handle, stopper>>

(* removePidfileIfMine, in one step.                                         *)
RemovePidfile(d) ==
  /\ dash[d].pc = "removing" /\ dash' = Exited(d)
  /\ pidFile' = [p \in DashProjects |-> IF pidFile[p] = d THEN NoDash ELSE pidFile[p]]
  /\ UNCHANGED <<port, bootFile, dashToken, cookie, handle, stopper>>

KillDashboard(d) ==
  /\ dash[d].pc \notin {"off", "gone"} /\ dash' = Exited(d) /\ Release(d)
  /\ UNCHANGED <<pidFile, bootFile, dashToken, cookie, handle, stopper>>

(* --- vxd req ------------------------------------------------------------------------ *)

Started(r) == handle[r].pc = "idle" /\ \A q \in Reqs : q < r => handle[q].pc # "idle"

(* /health answers 200 without a token.                                      *)
Healthy == port # NoDash /\ dash[port].pc = "serving"

Answered(r) ==
  /\ Healthy /\ handle' = [handle EXCEPT ![r].pc = "reading", ![r].by = port]
  /\ UNCHANGED <<dash, port, pidFile, bootFile, dashToken, cookie, stopper>>
Reuse(r) == Started(r) /\ Answered(r)
WaitHealthy(r) == handle[r].pc = "waiting" /\ Answered(r)

(* No answer in time: nothing listens, it does not serve yet, or it is slow. *)
SpawnForReq(r) ==
  /\ Started(r) /\ handle' = [handle EXCEPT ![r].pc = "waiting"]
  /\ \E d \in Dashboards : SpawnDashboard(d, ReqProject[r], TRUE)
  /\ UNCHANGED <<port, pidFile, bootFile, dashToken, cookie, stopper>>
StartByHand(p) ==
  /\ \E d \in Dashboards : SpawnDashboard(d, p, FALSE)
  /\ UNCHANGED <<port, pidFile, bootFile, dashToken, cookie, handle, stopper>>

(* The spawn or the wait fails: "continuing without it".                     *)
Unavailable(r) ==
  /\ Started(r) \/ handle[r].pc = "waiting"
  /\ handle' = [handle EXCEPT ![r].pc = "unavailable"]
  /\ UNCHANGED <<dash, port, pidFile, bootFile, dashToken, cookie, stopper>>

(* Both paths read the file of the caller's own project; none is "".         *)
ReadBootstrap(r) ==
  /\ handle[r].pc = "reading"
  /\ handle' = [handle EXCEPT ![r].pc = "printed", ![r].nonce = bootFile[ReqProject[r]]]
  /\ UNCHANGED <<dash, port, pidFile, bootFile, dashToken, cookie, stopper>>

(* --- the browser, and the operator -------------------------------------------------- *)

(* tryConsumeNonce: once, and the response carries the cookie. A request     *)
(* without it is let in by its cookie or answered 401: nothing changes.      *)
Consume(d, nonce) == nonce = d /\ dash[d].nonce = "fresh"
OpenUrl(r) ==
  /\ handle[r].pc = "printed" /\ Healthy /\ Consume(port, handle[r].nonce)
  /\ dash' = [dash EXCEPT ![port].nonce = "spent"] /\ cookie' = dash[port].token
  /\ UNCHANGED <<port, pidFile, bootFile, dashToken, handle, stopper>>

(* POST /internal/bootstrap, which only a holder of the token can call; the  *)
(* new nonce takes the place of one that was not used.                       *)
RotateNonce ==
  /\ Healthy /\ dash' = [dash EXCEPT ![port].nonce = "rotated"]
  /\ UNCHANGED <<port, pidFile, bootFile, dashToken, cookie, handle, stopper>>

(* rotate-token: the running daemon keeps the token it loaded.               *)
RotateTokenFile ==
  /\ dashToken < MaxToken /\ dashToken' = dashToken + 1
  /\ UNCHANGED <<dash, port, pidFile, bootFile, cookie, handle, stopper>>

(* `vxd dashboard stop`: a signal, a wait of 5 seconds at most, and a        *)
(* removal that does not look whose pidfile it is by then. A dead pid is     *)
(* removed at once.                                                          *)
StopDashboard(p) ==
  LET d == pidFile[p] IN
  /\ stopper = "ready" /\ d # NoDash
  /\ \/ /\ dash[d].pc # "gone" /\ stopper' = p
        /\ dash' = [dash EXCEPT ![d].term = TRUE] /\ UNCHANGED pidFile
     \/ /\ dash[d].pc = "gone" /\ pidFile' = [pidFile EXCEPT ![p] = NoDash]
        /\ stopper' = "done" /\ UNCHANGED dash
  /\ UNCHANGED <<port, bootFile, dashToken, cookie, handle>>
StopReturns ==
  /\ stopper \in DashProjects /\ stopper' = "done"
  /\ pidFile' = [pidFile EXCEPT ![stopper] = NoDash]
  /\ UNCHANGED <<dash, port, bootFile, dashToken, cookie, handle>>

DashNext ==
  \/ \E d \in Dashboards :
       \/ Listen(d) \/ LoadToken(d) \/ WriteBootstrap(d) \/ WritePidfile(d) \/ Serve(d)
       \/ Shutdown(d) \/ RemovePidfile(d) \/ KillDashboard(d)
  \/ \E r \in Reqs : \/ Reuse(r) \/ SpawnForReq(r) \/ WaitHealthy(r) \/ Unavailable(r)
                     \/ ReadBootstrap(r) \/ OpenUrl(r)
  \/ \E p \in DashProjects : StartByHand(p) \/ StopDashboard(p)
  \/ RotateNonce \/ RotateTokenFile \/ StopReturns

DashSpec == DashInit /\ [][DashNext]_dashVars

(* --- properties ----------------------------------------------------------------------- *)

DashTypeOK ==
  /\ \A d \in Dashboards :
       /\ dash[d].pc \in {"off", "starting", "serving", "removing", "gone"}
       /\ dash[d].nonce \in {"fresh", "spent", "rotated"} /\ dash[d].token \in 0..MaxToken
  /\ port \in Dashboards \cup {NoDash}
  /\ pidFile \in [DashProjects -> Dashboards \cup {NoDash}]
  /\ bootFile \in [DashProjects -> Dashboards \cup {NoDash}]
  /\ dashToken \in 0..MaxToken /\ cookie \in 0..MaxToken
  /\ stopper \in DashProjects \cup {"ready", "done"}

(* Start: "any caller that probed /health and got 200 is guaranteed to find  *)
(* the artifacts already in place". When the daemon that answered a          *)
(* `vxd req` is of the same project and could write its file, then for as    *)
(* long as it runs the printed URL lets the browser in: it carries that      *)
(* daemon's nonce, still unused, or the nonce gave this browser the cookie   *)
(* the daemon accepts, or the operator asked for another nonce. Concurrent   *)
(* runs that each spawn a daemon, restarts, a daemon started by hand, a      *)
(* token rotated meanwhile and a stop do not change this.                    *)
PrintedUrlLetsIn ==
  \A r \in Reqs : LET d == handle[r].by IN
    (/\ handle[r].pc = "printed" /\ dash[d].pc = "serving"
     /\ dash[d].project = ReqProject[r] /\ dash[d].filed)
    => /\ handle[r].nonce = d
       /\ \/ dash[d].nonce \in {"fresh", "rotated"}
          \/ cookie = dash[d].token
=============================================================================
