--------------------------- MODULE ComponentsProofs ---------------------------
(***************************************************************************)
(* The composition that TLC explores, for any constants: what a behaviour  *)
(* of it does to one component is a behaviour of that component, so that   *)
(* what is proved of each holds of the whole.                              *)
(***************************************************************************)
EXTENDS MCComponents, RequirementProofs, StoryWorkProofs, BackgroundProofs,
        DashboardProofs

(* A step of one component is a stutter of the others.                      *)
LEMMA ComponentSteps ==
  ASSUME [Next]_componentVars
  PROVE  /\ [PlanNext]_planVars /\ [EscNext]_escVars /\ [GateNext]_gateVars
         /\ [DbNext]_dbVars /\ [BranchNext]_branchVars /\ [ArNext]_arVars
         /\ [McNext]_mcVars /\ [IrNext]_irVars /\ [OppNext]_oppVars
         /\ [SecNext]_secVars /\ [DashNext]_dashVars /\ [HubNext]_hubVars
<1>1. ASSUME UNCHANGED componentVars
      PROVE  UNCHANGED <<planVars, escVars, gateVars, dbVars, branchVars, arVars, mcVars,
                         irVars, oppVars, secVars, dashVars, hubVars>>
  BY <1>1, Zenon DEF componentVars
<1>2. [PlanNext]_planVars
  <2>1. (Only("plan") /\ PlanNext) \/ UNCHANGED planVars
    BY <1>1, Zenon DEF Next, Only
  <2> QED BY <2>1, Zenon
<1>3. [EscNext]_escVars
  <2>1. (Only("escalation") /\ EscNext) \/ UNCHANGED escVars
    BY <1>1, Zenon DEF Next, Only
  <2> QED BY <2>1, Zenon
<1>4. [GateNext]_gateVars
  <2>1. (Only("gate") /\ GateNext) \/ UNCHANGED gateVars
    BY <1>1, Zenon DEF Next, Only
  <2> QED BY <2>1, Zenon
<1>5. [DbNext]_dbVars
  <2>1. (Only("devdb") /\ DbNext) \/ UNCHANGED dbVars
    BY <1>1, Zenon DEF Next, Only
  <2> QED BY <2>1, Zenon
<1>6. [BranchNext]_branchVars
  <2>1. (Only("branch") /\ BranchNext) \/ UNCHANGED branchVars
    BY <1>1, Zenon DEF Next, Only
  <2> QED BY <2>1, Zenon
<1>7. [ArNext]_arVars
  <2>1. (Only("autoresearch") /\ ArNext) \/ UNCHANGED arVars
    BY <1>1, Zenon DEF Next, Only
  <2> QED BY <2>1, Zenon
<1>8. [McNext]_mcVars
  <2>1. (Only("modelcalls") /\ McNext) \/ UNCHANGED mcVars
    BY <1>1, Zenon DEF Next, Only
  <2> QED BY <2>1, Zenon
<1>9. [IrNext]_irVars
  <2>1. (Only("improve") /\ IrNext) \/ UNCHANGED irVars
    BY <1>1, Zenon DEF Next, Only
  <2> QED BY <2>1, Zenon
<1>10. [OppNext]_oppVars
  <2>1. (Only("opportunities") /\ OppNext) \/ UNCHANGED oppVars
    BY <1>1, Zenon DEF Next, Only
  <2> QED BY <2>1, Zenon
<1>11. [SecNext]_secVars
  <2>1. (Only("security") /\ SecNext) \/ UNCHANGED secVars
    BY <1>1, Zenon DEF Next, Only
  <2> QED BY <2>1, Zenon
<1>12. [DashNext]_dashVars
  <2>1. (Only("daemon") /\ DashNext) \/ UNCHANGED dashVars
    BY <1>1, Zenon DEF Next, Only
  <2> QED BY <2>1, Zenon
<1>13. [HubNext]_hubVars
  <2>1. (Only("hub") /\ HubNext) \/ UNCHANGED hubVars
    BY <1>1, Zenon DEF Next, Only
  <2> QED BY <2>1, Zenon
<1> QED BY <1>2, <1>3, <1>4, <1>5, <1>6, <1>7, <1>8, <1>9, <1>10, <1>11, <1>12, <1>13, Zenon

(* What the instances explore are the components: a behaviour of the whole  *)
(* is one of each of its parts (the others step while it stutters), so that *)
(* a theorem about a part holds of the whole.                               *)
THEOREM WholeIsItsParts ==
  Spec => /\ PlanSpec /\ EscSpec /\ GateSpec /\ DbSpec /\ BranchSpec /\ ArSpec
          /\ McSpec /\ IrSpec /\ OppSpec /\ SecSpec /\ DashSpec /\ HubSpec
<1>1. Init => /\ PlanInit /\ EscInit /\ GateInit /\ DbInit /\ BranchInit /\ ArInit
              /\ McInit /\ IrInit /\ OppInit /\ SecInit /\ DashInit /\ HubInit
  BY Zenon DEF Init
<1>2. [Next]_componentVars =>
        /\ [PlanNext]_planVars /\ [EscNext]_escVars /\ [GateNext]_gateVars
        /\ [DbNext]_dbVars /\ [BranchNext]_branchVars /\ [ArNext]_arVars
        /\ [McNext]_mcVars /\ [IrNext]_irVars /\ [OppNext]_oppVars
        /\ [SecNext]_secVars /\ [DashNext]_dashVars /\ [HubNext]_hubVars
  BY ComponentSteps
<1> QED
  BY <1>1, <1>2, PTL
     DEF Spec, PlanSpec, EscSpec, GateSpec, DbSpec, BranchSpec, ArSpec, McSpec, IrSpec,
         OppSpec, SecSpec, DashSpec, HubSpec

(* Every component keeps its type whatever it does, in whatever order: no   *)
(* counter passes the limit the code compares it with, and no status is one *)
(* the code does not know.                                                  *)
THEOREM ComponentsTyped == Spec => []ComponentsTypeOK
<1>1. ASSUME PlanTypeOK, GateTypeOK, DbTypeOK, BranchTypeOK, ArTypeOK, McTypeOK, IrTypeOK,
             OppTypeOK, SecTypeOK, DashTypeOK, HubTypeOK
      PROVE  ComponentsTypeOK
  BY <1>1, Zenon DEF ComponentsTypeOK
<1> QED
  BY <1>1, WholeIsItsParts, PlanIsTyped, GateTyped, DbIsTyped, BranchIsTyped, ArIsTyped,
     McIsTyped, IrIsTyped, OppIsTyped, SecIsTyped, DaemonsTyped, HubIsTyped, PTL
===============================================================================
