----------------------------- MODULE DashboardHub -----------------------------
(***************************************************************************)
(* The web dashboard while pipelines run: tabs connect, get a snapshot and *)
(* send commands; the hub's tick lists the log, pushes the events after    *)
(* the last count, then a snapshot. A command is what its handler found in *)
(* the tables and then the events it appends and projects, one at a time.  *)
(* One story, one requirement and one agent; the story's status, which no  *)
(* handler reads, is left out. Of a message, only which events of the log  *)
(* it carries is kept, and pushed snapshots carry no more.                 *)
(***************************************************************************)
EXTENDS Naturals, Sequences, SequencesExt

CONSTANTS
  Tabs,      \* browser tabs
  MaxTier,   \* maxEscalationTier
  LogBound  \* bound on the log

ASSUME HubAssumption == MaxTier \in Nat /\ LogBound \in Nat

VARIABLES
  logged,    \* length of the event log
  table,     \* projection: [tier, req, session]; session: an agent has one
  tab,       \* [step, todo, written, snap] of a tab's handler: its place in
             \* Handshake, its command's events left, whether the first of them is
             \* appended, and the length of the log at the tab's first snapshot
  clients,   \* h.clients
  hub,       \* [pc, upto, conns] of Run and its tick
  counted,   \* lastEventCount
  pushes,    \* per tab: positions of the events pushed to it, in order
  uncounted, \* history: positions a tick passed over because it started from zero
  reached    \* history: the largest count of any tick

hubVars == <<logged, table, tab, clients, hub, counted, pushes, uncounted, reached>>

Unsent == LogBound + 1
Closed == [step |-> 0, todo |-> <<>>, written |-> FALSE, snap |-> Unsent]

HubInit ==
  /\ logged = 0 /\ counted = 0 /\ uncounted = {} /\ reached = 0
  /\ table = [tier |-> 0, req |-> "active", session |-> FALSE]
  /\ tab = [c \in Tabs |-> Closed] /\ clients = {} /\ pushes = [c \in Tabs |-> <<>>]
  /\ hub = [pc |-> "idle", upto |-> 0, conns |-> {}]

(* --- a tab's handler ------------------------------------------------------------------ *)

(* HandleWebSocket: the tab is registered before its snapshot is built. A    *)
(* tab the hub is writing to cannot be another connection yet.               *)
SnapshotFirst == <<"state", "add", "read">>
Handshake == <<"add", "state", "read">>
At(c, s) == tab[c].step > 0 /\ Handshake[tab[c].step] = s
Next1(c) == [tab EXCEPT ![c].step = @ + 1]
KeepHub == UNCHANGED <<hub, counted, uncounted, reached>>

Accept(c) ==
  /\ tab[c] = Closed /\ c \notin hub.conns /\ hub.pc # "stopped"
  /\ tab' = [tab EXCEPT ![c].step = 1]
  /\ KeepHub /\ UNCHANGED <<logged, table, clients, pushes>>

AddClient(c) ==
  /\ At(c, "add") /\ clients' = clients \cup {c} /\ tab' = Next1(c)
  /\ KeepHub /\ UNCHANGED <<logged, table, pushes>>

(* sendState: nothing is sent when the tables cannot be read.                *)
SendState(c) ==
  /\ At(c, "state")
  /\ \E n \in {logged, Unsent} : tab' = [Next1(c) EXCEPT ![c].snap = n]
  /\ KeepHub /\ UNCHANGED <<logged, table, clients, pushes>>

(* A read error: the tab left, or the hub closed its connection.             *)
Disconnect(c) ==
  /\ At(c, "read") /\ tab[c].todo = <<>>
  /\ clients' = clients \ {c} /\ tab' = [tab EXCEPT ![c] = Closed]
  /\ pushes' = [pushes EXCEPT ![c] = <<>>]
  /\ KeepHub /\ UNCHANGED <<logged, table>>

Evt(type) == [type |-> type, tier |-> 0]
ToTier(t) == [type |-> "ESCALATED", tier |-> t]
Lower(x, y) == IF x < y THEN x ELSE y

(* HandleCommand: what the handler makes of the tables as it finds them;     *)
(* other requests are answered without an event. Any status will do.         *)
RetryOrReassign(t) == <<ToTier(t), Evt("REVIEW_FAILED")>>
Escalate == <<ToTier(Lower(table.tier + 1, MaxTier))>>
Edit == <<Evt("REWRITTEN")>>
PauseCmd == IF table.req = "paused" THEN <<>> ELSE <<Evt("REQ_PAUSED")>>
ResumeCmd == IF table.req = "paused" THEN <<Evt("REQ_RESUMED")>> ELSE <<>>
Kill == IF table.session THEN <<Evt("TERMINATED")>> ELSE <<>>
HandleCommand(c) ==
  /\ At(c, "read") /\ tab[c].todo = <<>>
  /\ \E todo \in {RetryOrReassign(t) : t \in 0..MaxTier}
                   \cup {Escalate, Edit, PauseCmd, ResumeCmd, Kill} :
       /\ todo # <<>> /\ tab' = [tab EXCEPT ![c].todo = todo]
  /\ KeepHub /\ UNCHANGED <<logged, table, clients, pushes>>

(* Append, then Project; an error of either ends the command where it is.    *)
FailCommand(c) == tab' = [tab EXCEPT ![c].todo = <<>>, ![c].written = FALSE]
AppendEvent(c) ==
  /\ tab[c].todo # <<>> /\ ~tab[c].written /\ logged < LogBound
  /\ \/ logged' = logged + 1 /\ tab' = [tab EXCEPT ![c].written = TRUE]
     \/ FailCommand(c) /\ UNCHANGED logged
  /\ KeepHub /\ UNCHANGED <<table, clients, pushes>>

Applied(evt) ==
  CASE evt.type = "ESCALATED"     -> [table EXCEPT !.tier = evt.tier]
    [] evt.type = "REWRITTEN"     -> [table EXCEPT !.tier = 0]
    [] evt.type = "REQ_PAUSED"    -> [table EXCEPT !.req = "paused"]
    [] evt.type = "REQ_RESUMED"   -> [table EXCEPT !.req = "active"]
    [] OTHER                      -> table
ProjectEvent(c) ==
  /\ tab[c].written
  /\ \/ /\ table' = Applied(Head(tab[c].todo))
        /\ tab' = [tab EXCEPT ![c].todo = Tail(@), ![c].written = FALSE]
     \/ FailCommand(c) /\ UNCHANGED table
  /\ KeepHub /\ UNCHANGED <<logged, clients, pushes>>

(* Another process records: its dispatcher the agent of the story.           *)
EngineRecords ==
  /\ logged < LogBound /\ logged' = logged + 1
  /\ table' = [table EXCEPT !.session = TRUE]
  /\ KeepHub /\ UNCHANGED <<tab, clients, pushes>>

(* --- the hub ----------------------------------------------------------------------------- *)

Positions(m, n) == [i \in 1..(n - m) |-> m + i]

(* List; a log that cannot be opened counts as an empty one. From zero no    *)
(* event is pushed, only counted.                                            *)
ListLog ==
  /\ hub.pc = "idle"
  /\ \E n \in {logged, 0} :
       /\ hub' = [hub EXCEPT !.pc = IF n > counted /\ counted > 0 THEN "diff" ELSE "count",
                             !.upto = n]
       /\ reached' = IF n > reached THEN n ELSE reached
       /\ uncounted' = IF counted = 0 THEN uncounted \cup ((reached + 1)..n) ELSE uncounted
  /\ UNCHANGED <<logged, table, tab, clients, counted, pushes>>

(* The clients are copied under the lock, and written to outside it.         *)
CopyClients ==
  /\ hub.pc = "diff" /\ hub' = [hub EXCEPT !.pc = "push", !.conns = clients]
  /\ UNCHANGED <<logged, table, tab, clients, counted, pushes, uncounted, reached>>

(* Each event to each connection; one that fails is evicted and closed, and  *)
(* may have been sent some of them.                                          *)
PushEvents ==
  /\ hub.pc = "push"
  /\ \E dead \in SUBSET hub.conns :
       /\ clients' = clients \ dead
       /\ pushes' = [c \in Tabs |->
            IF c \in dead \/ c \notin clients THEN <<>>
            ELSE IF c \notin hub.conns THEN pushes[c]
            ELSE pushes[c] \o Positions(counted, hub.upto)]
  /\ hub' = [hub EXCEPT !.pc = "count", !.conns = {}]
  /\ UNCHANGED <<logged, table, tab, counted, uncounted, reached>>

(* The count, and the snapshot to all when the tables can be read.           *)
PushState ==
  /\ hub.pc = "count" /\ counted' = hub.upto
  /\ \E dead \in SUBSET clients :
       /\ clients' = clients \ dead
       /\ pushes' = [c \in Tabs |-> IF c \in dead THEN <<>> ELSE pushes[c]]
  /\ hub' = [hub EXCEPT !.pc = "idle", !.upto = 0]
  /\ UNCHANGED <<logged, table, tab, uncounted, reached>>

(* ctx.Done: closeAll, and the process ends, in the middle of a command too. *)
StopHub ==
  /\ hub.pc = "idle" /\ hub' = [hub EXCEPT !.pc = "stopped"] /\ clients' = {}
  /\ tab' = [c \in Tabs |-> Closed] /\ pushes' = [c \in Tabs |-> <<>>]
  /\ counted' = 0 /\ uncounted' = {} /\ reached' = 0
  /\ UNCHANGED <<logged, table>>

HubNext ==
  \/ \E c \in Tabs :
       \/ Accept(c) \/ AddClient(c) \/ SendState(c) \/ Disconnect(c)
       \/ HandleCommand(c) \/ AppendEvent(c) \/ ProjectEvent(c)
  \/ EngineRecords \/ ListLog \/ CopyClients \/ PushEvents \/ PushState \/ StopHub

HubSpec == HubInit /\ [][HubNext]_hubVars

(* --- properties ------------------------------------------------------------------------ *)

HubTypeOK ==
  /\ logged \in 0..LogBound /\ counted \in 0..LogBound /\ reached \in 0..LogBound
  /\ clients \subseteq Tabs /\ hub.conns \subseteq Tabs /\ hub.upto \in 0..LogBound
  /\ hub.pc \in {"idle", "diff", "push", "count", "stopped"}
  /\ table.tier \in 0..MaxTier /\ uncounted \subseteq 1..LogBound
  /\ \A c \in Tabs : tab[c].step \in 0..Len(Handshake) /\ tab[c].snap \in 0..Unsent

(* broadcast: "detect and push new events". A connected tab has been sent    *)
(* every event up to the last count: in the log of its first snapshot, or    *)
(* pushed after it, in order and once, whatever the ticks, commands, other   *)
(* processes, evictions and handshakes in progress do. The exceptions are    *)
(* the events a tick passed over because the last count was zero: the first  *)
(* tick, an empty log, or a log that could not be read the tick before.      *)
NoEventMissedOrTwice ==
  \A c \in clients :
    /\ \A i \in 1..(Len(pushes[c]) - 1) : pushes[c][i] < pushes[c][i + 1]
    /\ tab[c].snap # Unsent =>
         ((tab[c].snap + 1)..counted) \ uncounted \subseteq ToSet(pushes[c])
=============================================================================
