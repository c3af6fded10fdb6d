----------------------------- MODULE MCComponents -----------------------------
(* Instances for TLC of the components that share no state: `part' names   *)
(* the one a behaviour is about, so the state spaces add up and do not     *)
(* multiply.                                                               *)
EXTENDS PlanGraph, EscalationLog, CompletionGate, DevDB, StoryBranch,
        Autoresearch, ModelCalls, ImproveRun, Opportunities, SecurityGate,
        DashboardDaemon, DashboardHub, TLC

VARIABLE part
componentVars ==
  <<part, planVars, escVars, gateVars, dbVars, branchVars, arVars, mcVars, irVars,
    oppVars, secVars, dashVars, hubVars>>

Init ==
  /\ part \in {"plan", "escalation", "gate", "devdb", "branch",
              "autoresearch", "modelcalls", "improve", "opportunities",
              "security", "daemon", "hub"}
  /\ PlanInit /\ EscInit /\ GateInit /\ DbInit
  /\ BranchInit /\ ArInit /\ McInit /\ IrInit
  /\ OppInit /\ SecInit /\ DashInit /\ HubInit

Only(p) ==
  /\ part = p /\ UNCHANGED part
  /\ p # "plan" => UNCHANGED planVars
  /\ p # "escalation" => UNCHANGED escVars
  /\ p # "gate" => UNCHANGED gateVars
  /\ p # "devdb" => UNCHANGED dbVars
  /\ p # "branch" => UNCHANGED branchVars
  /\ p # "autoresearch" => UNCHANGED arVars
  /\ p # "modelcalls" => UNCHANGED mcVars
  /\ p # "improve" => UNCHANGED irVars
  /\ p # "opportunities" => UNCHANGED oppVars
  /\ p # "security" => UNCHANGED secVars
  /\ p # "daemon" => UNCHANGED dashVars
  /\ p # "hub" => UNCHANGED hubVars

Next ==
  \/ Only("plan") /\ PlanNext
  \/ Only("escalation") /\ EscNext
  \/ Only("gate") /\ GateNext
  \/ Only("devdb") /\ DbNext
  \/ Only("branch") /\ BranchNext
  \/ Only("autoresearch") /\ ArNext
  \/ Only("modelcalls") /\ McNext
  \/ Only("improve") /\ IrNext
  \/ Only("opportunities") /\ OppNext
  \/ Only("security") /\ SecNext
  \/ Only("daemon") /\ DashNext
  \/ Only("hub") /\ HubNext

Spec == Init /\ [][Next]_componentVars

(* Each component's state keeps its type: counters stay within the limits  *)
(* the code compares them with, statuses are those the code knows.         *)
ComponentsTypeOK ==
  /\ PlanTypeOK /\ GateTypeOK /\ DbTypeOK /\ BranchTypeOK
  /\ ArTypeOK /\ McTypeOK /\ IrTypeOK /\ OppTypeOK
  /\ SecTypeOK /\ DashTypeOK /\ HubTypeOK

(* --- PlanGraph --------------------------------------------------------- *)

CONSTANTS sa, sb, k1, k2, shared
Raw(id, deps, files, seq, big) ==
  [id |-> id, deps |-> deps, files |-> files, seq |-> seq, big |-> big]
Two(da, fa, db, fb) == <<Raw(sa, da, fa, FALSE, FALSE), Raw(sb, db, fb, FALSE, FALSE)>>
Plans ==
  {<<>>, <<Raw(sa, {}, {}, TRUE, FALSE)>>, <<Raw(sa, {}, {}, FALSE, TRUE)>>,
   <<Raw(sa, {k1}, {}, FALSE, FALSE)>>,
   <<Raw(sa, {}, {}, FALSE, FALSE), Raw(sa, {}, {}, FALSE, FALSE)>>,
   Two({}, {shared}, {}, {shared}), Two({sb}, {}, {}, {}),
   Two({sb}, {shared}, {}, {shared}), Two({sb}, {}, {sa}, {})}
Files == {{}, {shared}}
Edges == {{}, {<<k1, k2>>, <<k2, k1>>}}
Alike == Permutations({k1, k2})

(* --- EscalationLog ----------------------------------------------------- *)

Limits == [t \in 0..3 |-> IF t = 1 THEN 2 ELSE 1]
Outcomes == {[r \in Rank |-> IF r = 0 THEN [ok |-> n, bad |-> 1]
                             ELSE [ok |-> 0, bad |-> 2]] : n \in {0, 4}}

(* --- DevDB ------------------------------------------------------------- *)

DbStoryIds == {<<"a8cbef1f", "3a">>, <<"a8cbef20", "UI">>}
InLower == [x \in {"a8cbef1f", "3a", "a8cbef20", "UI"} |-> IF x = "UI" THEN "ui" ELSE x]
DbReqOf == [s \in DbStoryIds |-> IF s[2] = "3a" THEN "r1" ELSE "r2"]
OneProject == [r \in {"r1", "r2", "r3"} |-> <<"my", "app">>]
(* The stories of r3, in another project, are all done.                     *)
TwoProjects == [OneProject EXCEPT !["r3"] = <<"site">>]
DbInstances ==
  {[provider |-> "docker", keep |-> FALSE, home |-> TwoProjects],
   [provider |-> "ghost", keep |-> TRUE, home |-> OneProject]}

(* --- StoryBranch ------------------------------------------------------- *)

ConflictSets ==
  {{}, {"text"}, {"json", "lock"}, {"ignore", "compiled"}, {"binary", "text"}}

(* --- Autoresearch ------------------------------------------------------ *)

Written(id, scope, score) == [id |-> id, scope |-> scope, score |-> score]
SomeDiffs == {Written("tie", TRUE, 0), Written("outside", FALSE, 2)}

(* --- SecurityGate ------------------------------------------------------ *)

WorktreeDefects == {{[class |-> "CWE-78", severity |-> 3, tool |-> "gosec"]}}

(* --- DashboardDaemon --------------------------------------------------- *)

SameProject == <<"project", "project">>
===============================================================================
