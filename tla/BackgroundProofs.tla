-------------------------- MODULE BackgroundProofs --------------------------
(***************************************************************************)
(* What runs beside the stories, for any number of findings, experiments,  *)
(* shells and databases: the nightly self-improvement, the experiments of  *)
(* autoresearch, the opportunity files and the databases of the agents.    *)
(***************************************************************************)
EXTENDS ImproveRun, Autoresearch, Opportunities, DevDB, FiniteSetTheorems,
        WellFoundedInduction, TLAPS

(* --- the nightly run -------------------------------------------------------- *)

BranchState ==
  [at : {"none", "local", "pushed", "open"}, sound : BOOLEAN, fits : BOOLEAN,
   propped : BOOLEAN]

IrTyped ==
  /\ night \in {"off", "audit", "heal", "implement", "agent", "gates", "push", "pr",
                "record", "email"}
  /\ todo \subseteq ImproveFindings
  /\ branch \in [Branches -> BranchState]
  /\ dirty \in BOOLEAN /\ killed \in BOOLEAN
  /\ \A e \in changelog :
       e.name \in Branches /\ e.disposition \in {"implemented", "aborted", "proposed"}

(* Between a finding's choice and its entry the run works at one branch,    *)
(* which is as far as the run is.                                           *)
AtWork ==
  /\ night \in {"agent", "gates", "push", "pr", "record"} => on \in Branches
  /\ night = "heal" => on = "heal"
  /\ night \in {"gates", "push"} => branch[on].at = "local"
  /\ night = "pr" => branch[on].at = "pushed"
  /\ night = "record" => outcomeOf \in {"implemented", "aborted"}
  /\ night = "record" /\ outcomeOf = "implemented" => branch[on].at = "open"

(* What is past the gates passed them.                                      *)
PastGates ==
  \A b \in Branches :
    branch[b].at \in {"pushed", "open"} \/ (night = "push" /\ on = b) =>
      branch[b].fits /\ (branch[b].sound \/ branch[b].propped)

(* The changelog and the forge agree, but for the entry that is next.       *)
Accounted ==
  /\ \A e \in changelog : e.disposition = "implemented" => branch[e.name].at = "open"
  /\ \A b \in Branches : branch[b].at = "open" =>
       \/ killed \/ AuditEntry(b, "implemented") \in changelog
       \/ night = "record" /\ on = b /\ outcomeOf = "implemented"

IrInv == IrTyped /\ AtWork /\ PastGates /\ Accounted

BranchAt == {"none", "local", "pushed", "open"}

LEMMA BranchToAt ==
  ASSUME NEW r \in BranchState, NEW at \in BranchAt
  PROVE  /\ [r EXCEPT !.at = at] \in BranchState
         /\ [r EXCEPT !.at = at].at = at
         /\ [r EXCEPT !.at = at].sound = r.sound
         /\ [r EXCEPT !.at = at].fits = r.fits
         /\ [r EXCEPT !.at = at].propped = r.propped
BY DEF BranchState, BranchAt

LEMMA BranchPropped ==
  ASSUME NEW r \in BranchState, NEW p \in BOOLEAN
  PROVE  /\ [r EXCEPT !.propped = p] \in BranchState
         /\ [r EXCEPT !.propped = p].at = r.at
         /\ [r EXCEPT !.propped = p].sound = r.sound
         /\ [r EXCEPT !.propped = p].fits = r.fits
         /\ [r EXCEPT !.propped = p].propped = p
BY DEF BranchState

(* One branch moves, the others stay.                                       *)
LEMMA BranchMoves ==
  ASSUME branch \in [Branches -> BranchState], NEW b \in Branches, NEW r \in BranchState,
         branch' = [branch EXCEPT ![b] = r]
  PROVE  /\ branch' \in [Branches -> BranchState] /\ branch'[b] = r
         /\ \A c \in Branches : c # b => branch'[c] = branch[c]
OBVIOUS

LEMMA IrInitial == IrInit => IrInv
<1> SUFFICES ASSUME IrInit PROVE IrInv
  OBVIOUS
<1>1. NoBranch \in BranchState /\ NoBranch.at = "none"
  BY DEF NoBranch, BranchState
<1>2. branch \in [Branches -> BranchState] /\ \A b \in Branches : branch[b].at = "none"
  BY <1>1 DEF IrInit
<1>3. dirty \in BOOLEAN /\ killed \in BOOLEAN
  BY Zenon DEF IrInit
<1>4. night = "off" /\ todo = {} /\ changelog = {}
  BY DEF IrInit
<1>5. IrTyped
  BY <1>2, <1>3, <1>4 DEF IrTyped
<1>6. AtWork /\ PastGates /\ Accounted
  BY <1>2, <1>4 DEF AtWork, PastGates, Accounted
<1> QED BY <1>5, <1>6 DEF IrInv

(* A step that leaves the branches and the changelog alone.                 *)
LEMMA BetweenWork ==
  ASSUME IrInv, UNCHANGED <<branch, changelog, dirty>>, killed' \in {killed, TRUE},
         todo' \subseteq ImproveFindings,
         night \notin {"record", "push"} \/ killed',
         night' \in {"off", "audit", "implement", "email", "agent", "heal"},
         night' = "agent" => on' \in Branches, night' = "heal" => on' = "heal"
  PROVE  IrInv'
<1> USE DEF IrInv
<1>1. killed' \in BOOLEAN /\ (killed => killed')
  BY Zenon DEF IrTyped
<1>2. IrTyped'
  BY <1>1 DEF IrTyped
<1>3. AtWork' /\ PastGates'
  BY DEF AtWork, PastGates
<1>4. Accounted'
  BY <1>1 DEF Accounted
<1> QED BY <1>2, <1>3, <1>4

(* A step of the implementer fails: no branch on the forge is touched.      *)
LEMMA AbortKeeps ==
  ASSUME IrInv, Aborts, night \in {"heal", "agent", "gates", "push", "pr"},
         UNCHANGED <<todo, on, changelog, killed>>,
         branch' \in [Branches -> BranchState], dirty' \in BOOLEAN,
         \A b \in Branches : branch'[b] # branch[b] =>
           branch'[b].at \notin {"pushed", "open"} /\ branch[b].at # "open"
  PROVE  IrInv'
<1> USE DEF IrInv, Aborts
<1>1. IrTyped'
  BY DEF IrTyped
<1>2. AtWork'
  BY DEF AtWork, Branches
<1>3. PastGates'
  BY DEF PastGates
<1>4. Accounted'
  <2>1. \A e \in changelog : e.name \in Branches
    BY DEF IrTyped
  <2>2. \A b \in Branches : branch[b].at = "open" => branch'[b] = branch[b]
    OBVIOUS
  <2>3. \A b \in Branches : branch'[b].at = "open" => branch'[b] = branch[b]
    OBVIOUS
  <2> QED BY <2>1, <2>2, <2>3 DEF Accounted
<1> QED BY <1>1, <1>2, <1>3, <1>4

LEMMA RefusedKeeps ==
  ASSUME IrInv, NEW b, NewBranchRefused(b), night \in {"heal", "agent"},
         UNCHANGED <<todo, on, changelog, killed>>
  PROVE  IrInv'
<1>1. Aborts /\ UNCHANGED <<branch, dirty>>
  BY DEF NewBranchRefused
<1>2. branch' \in [Branches -> BranchState] /\ dirty' \in BOOLEAN
  BY <1>1 DEF IrInv, IrTyped
<1> QED BY <1>1, <1>2, AbortKeeps

LEMMA FixesFailKeeps ==
  ASSUME IrInv, NEW b \in Branches, NewBranch(b), FixesFail(b), night \in {"heal", "agent"},
         UNCHANGED <<todo, on, changelog, killed>>
  PROVE  IrInv'
<1>1. branch \in [Branches -> BranchState] /\ branch[b].at = "none" /\ dirty \in BOOLEAN
  BY DEF NewBranch, IrInv, IrTyped
<1>2. Aborts /\ dirty' \in BOOLEAN
  BY <1>1, Zenon DEF FixesFail
<1>3. CASE UNCHANGED branch
  BY <1>1, <1>2, <1>3, AbortKeeps
<1>4. CASE branch' = [branch EXCEPT ![b].at = "local"]
  <2>1. branch' = [branch EXCEPT ![b] = [branch[b] EXCEPT !.at = "local"]]
    BY <1>4
  <2>2. /\ [branch[b] EXCEPT !.at = "local"] \in BranchState
        /\ [branch[b] EXCEPT !.at = "local"].at = "local"
    <3>1. branch[b] \in BranchState /\ "local" \in BranchAt
      BY <1>1 DEF BranchAt
    <3> QED BY <3>1, BranchToAt
  <2>3. /\ branch' \in [Branches -> BranchState] /\ branch'[b].at = "local"
        /\ \A c \in Branches : c # b => branch'[c] = branch[c]
    BY <1>1, <2>1, <2>2, BranchMoves
  <2> QED BY <1>1, <1>2, <2>3, AbortKeeps
<1> QED BY <1>3, <1>4 DEF FixesFail

(* A new branch has what was committed.                                     *)
LEMMA WorksKeeps ==
  ASSUME IrInv, NEW b \in Branches, NewBranch(b), on = b, night \in {"heal", "agent"},
         NEW sound \in SUBSET BOOLEAN, NEW fits \in SUBSET BOOLEAN,
         NEW left \in SUBSET BOOLEAN,
         Works(b, sound, fits, left), UNCHANGED <<todo, on, changelog, killed>>
  PROVE  IrInv'
<1> USE DEF IrInv
<1>1. branch \in [Branches -> BranchState] /\ branch[b].at = "none"
  BY DEF NewBranch, IrTyped
<1>2. night' = "gates" /\ dirty' \in BOOLEAN
  BY Zenon DEF Works
<1>3. PICK s \in sound, x \in fits :
        branch' = [branch EXCEPT ![b] = [at |-> "local", sound |-> s, fits |-> x, propped |-> FALSE]]
  BY Zenon DEF Works
<1>4. s \in BOOLEAN /\ x \in BOOLEAN
  BY Zenon
<1> DEFINE r == [at |-> "local", sound |-> s, fits |-> x, propped |-> FALSE]
<1>5. r \in BranchState /\ r.at = "local"
  BY <1>4 DEF BranchState
<1>6. branch' = [branch EXCEPT ![b] = r]
  BY <1>3
<1> HIDE DEF r
<1>7. /\ branch' \in [Branches -> BranchState] /\ branch'[b].at = "local"
      /\ \A c \in Branches : c # b => branch'[c] = branch[c]
  BY <1>1, <1>5, <1>6, BranchMoves
<1>8. IrTyped'
  BY <1>2, <1>7 DEF IrTyped
<1>9. AtWork'
  BY <1>2, <1>7 DEF AtWork
<1>10. PastGates'
  BY <1>2, <1>7 DEF PastGates
<1>11. Accounted'
  <2>1. \A e \in changelog : e.name \in Branches
    BY DEF IrTyped
  <2> QED BY <1>1, <1>2, <1>7, <2>1 DEF Accounted
<1> QED BY <1>8, <1>9, <1>10, <1>11

LEMMA HealBranchKeeps == ASSUME IrInv, HealBranch PROVE IrInv'
<1>1. /\ night = "heal" /\ on = "heal" /\ "heal" \in Branches
      /\ UNCHANGED <<todo, on, changelog, killed>>
  BY DEF HealBranch, IrInv, AtWork, Branches, Day
<1>2. CASE dirty /\ Aborts /\ UNCHANGED Checkout
  <2>1. UNCHANGED <<branch, dirty>>
    BY <1>2 DEF Checkout
  <2>2. branch' \in [Branches -> BranchState] /\ dirty' \in BOOLEAN
    BY <2>1 DEF IrInv, IrTyped
  <2> QED BY <1>1, <1>2, <2>1, <2>2, AbortKeeps
<1>3. CASE NewBranchRefused("heal")
  BY <1>1, <1>3, RefusedKeeps
<1>4. CASE NewBranch("heal") /\ FixesFail("heal")
  BY <1>1, <1>4, FixesFailKeeps
<1>5. CASE NewBranch("heal") /\ Works("heal", BOOLEAN, {TRUE}, {dirty})
  <2>1. BOOLEAN \in SUBSET BOOLEAN /\ {TRUE} \in SUBSET BOOLEAN /\ {dirty} \in SUBSET BOOLEAN
    BY Zenon DEF IrInv, IrTyped
  <2> QED BY <1>1, <1>5, <2>1, WorksKeeps, Zenon
<1> QED BY <1>2, <1>3, <1>4, <1>5 DEF HealBranch

LEMMA ImplementFindingKeeps == ASSUME IrInv, ImplementFinding PROVE IrInv'
<1>1. night = "agent" /\ on \in Branches /\ UNCHANGED <<todo, on, changelog, killed>>
  BY DEF ImplementFinding, IrInv, AtWork, Day
<1>2. CASE Aborts /\ BackToMain /\ UNCHANGED <<branch, dirty>>
  <2>1. branch' \in [Branches -> BranchState] /\ dirty' \in BOOLEAN
    BY <1>2 DEF IrInv, IrTyped
  <2> QED BY <1>1, <1>2, <2>1, AbortKeeps
<1>3. CASE NewBranchRefused(on)
  BY <1>1, <1>3, RefusedKeeps
<1>4. CASE NewBranch(on) /\ FixesFail(on)
  BY <1>1, <1>4, FixesFailKeeps
<1>5. CASE NewBranch(on) /\ Works(on, BOOLEAN, BOOLEAN, {dirty, TRUE})
  <2>1. BOOLEAN \in SUBSET BOOLEAN /\ {dirty, TRUE} \in SUBSET BOOLEAN
    BY Zenon DEF IrInv, IrTyped
  <2> QED BY <1>1, <1>5, <2>1, WorksKeeps, Zenon
<1> QED BY <1>2, <1>3, <1>4, <1>5 DEF ImplementFinding

(* The branch that passes is pushed with what the gates saw.                *)
LEMMA RunGatesKeeps == ASSUME IrInv, RunGates PROVE IrInv'
<1> USE DEF IrInv
<1>1. /\ night = "gates" /\ on \in Branches /\ branch[on].at = "local"
      /\ branch \in [Branches -> BranchState] /\ dirty \in BOOLEAN
      /\ UNCHANGED <<todo, on, changelog, killed>>
  BY DEF RunGates, AtWork, IrTyped, Day
<1>2. CASE GatesPass(on)
  <2>1. /\ night' = "push" /\ UNCHANGED dirty
        /\ branch' = [branch EXCEPT ![on] = [branch[on] EXCEPT !.propped = dirty]]
    BY <1>2 DEF RunGates
  <2> DEFINE r == [branch[on] EXCEPT !.propped = dirty]
  <2>2. /\ r \in BranchState /\ r.at = "local" /\ r.fits
        /\ r.sound \/ r.propped
    <3>1. /\ r \in BranchState /\ r.at = branch[on].at /\ r.fits = branch[on].fits
          /\ r.sound = branch[on].sound /\ r.propped = dirty
      <4>1. branch[on] \in BranchState
        BY <1>1
      <4> QED BY <1>1, <4>1, BranchPropped, Zenon
    <3>2. branch[on].fits /\ (branch[on].sound \/ dirty)
      BY <1>2, Zenon DEF GatesPass, TreeGates
    <3> QED BY <1>1, <3>1, <3>2, Zenon
  <2>3. branch' = [branch EXCEPT ![on] = r]
    BY <2>1
  <2> HIDE DEF r
  <2>4. /\ branch' \in [Branches -> BranchState] /\ branch'[on] = r
        /\ \A c \in Branches : c # on => branch'[c] = branch[c]
    BY <1>1, <2>2, <2>3, BranchMoves
  <2>5. IrTyped' /\ AtWork'
    BY <1>1, <2>1, <2>2, <2>4 DEF IrTyped, AtWork
  <2>6. PastGates'
    BY <1>1, <2>1, <2>2, <2>4 DEF PastGates
  <2>7. Accounted'
    <3>1. \A e \in changelog : e.name \in Branches
      BY DEF IrTyped
    <3> QED BY <1>1, <2>1, <2>2, <2>4, <3>1 DEF Accounted
  <2> QED BY <2>5, <2>6, <2>7
<1>3. CASE ~GatesPass(on)
  <2>1. Aborts /\ Abandon(on)
    BY <1>3 DEF RunGates
  <2>2. UNCHANGED dirty /\ (branch' = [branch EXCEPT ![on] = NoBranch] \/ UNCHANGED branch)
    BY <2>1, Zenon DEF Abandon
  <2>3. NoBranch \in BranchState /\ NoBranch.at = "none"
    BY DEF NoBranch, BranchState
  <2>4. /\ branch' \in [Branches -> BranchState]
        /\ \A b \in Branches : branch'[b] # branch[b] => branch'[b].at = "none" /\ branch[b].at # "open"
    BY <1>1, <2>2, <2>3
  <2> QED BY <1>1, <2>1, <2>2, <2>4, AbortKeeps
<1> QED BY <1>2, <1>3

LEMMA PushImprovementKeeps == ASSUME IrInv, PushImprovement PROVE IrInv'
<1> USE DEF IrInv
<1>1. /\ night = "push" /\ on \in Branches /\ branch[on].at = "local"
      /\ branch \in [Branches -> BranchState]
      /\ branch[on].fits /\ (branch[on].sound \/ branch[on].propped)
      /\ UNCHANGED <<todo, on, changelog, killed, dirty>>
  BY DEF PushImprovement, AtWork, IrTyped, PastGates, Day
<1>2. CASE Aborts /\ UNCHANGED branch
  <2>1. dirty' \in BOOLEAN
    BY <1>1 DEF IrTyped
  <2> QED BY <1>1, <1>2, <2>1, AbortKeeps
<1>3. CASE night' = "pr" /\ branch' = [branch EXCEPT ![on].at = "pushed"]
  <2> DEFINE r == [branch[on] EXCEPT !.at = "pushed"]
  <2>1. /\ r \in BranchState /\ r.at = "pushed" /\ r.fits = branch[on].fits
        /\ r.sound = branch[on].sound /\ r.propped = branch[on].propped
    <3>1. branch[on] \in BranchState /\ "pushed" \in BranchAt
      BY <1>1 DEF BranchAt
    <3> QED BY <3>1, BranchToAt
  <2>2. branch' = [branch EXCEPT ![on] = r]
    BY <1>3
  <2> HIDE DEF r
  <2>3. /\ branch' \in [Branches -> BranchState] /\ branch'[on] = r
        /\ \A c \in Branches : c # on => branch'[c] = branch[c]
    BY <1>1, <2>1, <2>2, BranchMoves
  <2>4. IrTyped' /\ AtWork'
    BY <1>1, <1>3, <2>1, <2>3 DEF IrTyped, AtWork
  <2>5. PastGates'
    BY <1>1, <1>3, <2>1, <2>3 DEF PastGates
  <2>6. Accounted'
    <3>1. \A e \in changelog : e.name \in Branches
      BY DEF IrTyped
    <3> QED BY <1>1, <1>3, <2>1, <2>3, <3>1 DEF Accounted
  <2> QED BY <2>4, <2>5, <2>6
<1> QED BY <1>2, <1>3 DEF PushImprovement

LEMMA OpenPRKeeps == ASSUME IrInv, OpenPR PROVE IrInv'
<1> USE DEF IrInv
<1>1. /\ night = "pr" /\ on \in Branches /\ branch[on].at = "pushed"
      /\ branch \in [Branches -> BranchState]
      /\ branch[on].fits /\ (branch[on].sound \/ branch[on].propped)
      /\ UNCHANGED <<todo, on, changelog, killed>>
  BY DEF OpenPR, AtWork, IrTyped, PastGates, Day
<1>2. CASE Aborts /\ UNCHANGED <<Checkout, prsCreated>>
  <2>1. UNCHANGED branch /\ dirty' \in BOOLEAN
    BY <1>2 DEF IrTyped, Checkout
  <2> QED BY <1>1, <1>2, <2>1, AbortKeeps
<1>3. CASE /\ branch' = [branch EXCEPT ![on].at = "open"] /\ UNCHANGED dirty
           /\ outcomeOf' = "implemented" /\ night' = "record"
  <2> DEFINE r == [branch[on] EXCEPT !.at = "open"]
  <2>1. /\ r \in BranchState /\ r.at = "open" /\ r.fits = branch[on].fits
        /\ r.sound = branch[on].sound /\ r.propped = branch[on].propped
    <3>1. branch[on] \in BranchState /\ "open" \in BranchAt
      BY <1>1 DEF BranchAt
    <3> QED BY <3>1, BranchToAt
  <2>2. branch' = [branch EXCEPT ![on] = r]
    BY <1>3
  <2> HIDE DEF r
  <2>3. /\ branch' \in [Branches -> BranchState] /\ branch'[on] = r
        /\ \A c \in Branches : c # on => branch'[c] = branch[c]
    BY <1>1, <2>1, <2>2, BranchMoves
  <2>4. IrTyped' /\ AtWork'
    BY <1>1, <1>3, <2>1, <2>3 DEF IrTyped, AtWork
  <2>5. PastGates'
    BY <1>1, <1>3, <2>1, <2>3 DEF PastGates
  <2>6. Accounted'
    <3>1. \A e \in changelog : e.name \in Branches
      BY DEF IrTyped
    <3> QED BY <1>1, <1>3, <2>1, <2>3, <3>1 DEF Accounted
  <2> QED BY <2>4, <2>5, <2>6
<1> QED BY <1>2, <1>3 DEF OpenPR

(* The entry of the changelog says what came of the branch.                 *)
LEMMA RecordResultKeeps == ASSUME IrInv, RecordResult PROVE IrInv'
<1> USE DEF IrInv
<1>1. /\ night = "record" /\ night' = "implement" /\ on \in Branches
      /\ changelog' = changelog \cup {AuditEntry(on, outcomeOf)}
      /\ UNCHANGED <<branch, dirty, killed>>
  BY DEF RecordResult, AtWork, Checkout, Day
<1>2. todo' \subseteq ImproveFindings
  BY DEF RecordResult, Triaged, Research, IrTyped
<1>3. /\ AuditEntry(on, outcomeOf).name = on
      /\ AuditEntry(on, outcomeOf).disposition = outcomeOf
  BY DEF AuditEntry
<1>4. outcomeOf \in {"implemented", "aborted"}
  BY <1>1 DEF AtWork
<1>5. IrTyped'
  BY <1>1, <1>2, <1>3, <1>4 DEF IrTyped
<1>6. AtWork' /\ PastGates'
  BY <1>1 DEF AtWork, PastGates
<1>7. Accounted'
  <2>1. outcomeOf = "implemented" => branch[on].at = "open"
    BY <1>1 DEF AtWork
  <2>2. \A e \in changelog' : e.disposition = "implemented" => branch[e.name].at = "open"
    BY <1>1, <1>3, <2>1 DEF Accounted
  <2>3. \A b \in Branches : branch[b].at = "open" =>
          killed \/ AuditEntry(b, "implemented") \in changelog'
    BY <1>1 DEF Accounted
  <2> QED BY <1>1, <2>2, <2>3 DEF Accounted
<1> QED BY <1>5, <1>6, <1>7

LEMMA NextFindingKeeps == ASSUME IrInv, NextFinding PROVE IrInv'
<1> USE DEF IrInv
<1>1. PICK f \in todo :
        /\ todo' = todo \ {f}
        /\ \/ /\ changelog' = changelog \cup {AuditEntry(f, "proposed")}
              /\ UNCHANGED <<night, on>>
           \/ night' = "agent" /\ on' = f /\ UNCHANGED changelog
  BY DEF NextFinding
<1>2. /\ night = "implement" /\ f \in Branches /\ todo' \subseteq ImproveFindings
      /\ UNCHANGED <<branch, dirty, killed, outcomeOf>>
  BY <1>1 DEF NextFinding, IrTyped, Checkout, Day, Branches
<1>3. CASE night' = "agent" /\ on' = f /\ UNCHANGED changelog
  BY <1>2, <1>3, BetweenWork
<1>4. CASE changelog' = changelog \cup {AuditEntry(f, "proposed")} /\ UNCHANGED <<night, on>>
  <2>1. /\ AuditEntry(f, "proposed").name = f
        /\ AuditEntry(f, "proposed").disposition = "proposed"
    BY DEF AuditEntry
  <2>2. IrTyped'
    BY <1>2, <1>4, <2>1 DEF IrTyped
  <2>3. AtWork' /\ PastGates'
    BY <1>2, <1>4 DEF AtWork, PastGates
  <2>4. Accounted'
    BY <1>2, <1>4, <2>1 DEF Accounted
  <2> QED BY <2>2, <2>3, <2>4
<1> QED BY <1>1, <1>3, <1>4

LEMMA IrStep == IrInv /\ [IrNext]_irVars => IrInv'
<1> SUFFICES ASSUME IrInv, [IrNext]_irVars PROVE IrInv'
  OBVIOUS
<1>1. CASE StartRun \/ AuditRepo \/ SaveSummary \/ SendReport \/ KillNight
  <2>1. /\ UNCHANGED <<branch, changelog, dirty>> /\ killed' \in {killed, TRUE}
        /\ night \notin {"record", "push"} \/ killed'
    BY <1>1, Zenon DEF StartRun, AuditRepo, SaveSummary, SendReport, KillNight, Checkout, Day
  <2>2. todo' \subseteq ImproveFindings
    BY <1>1 DEF StartRun, AuditRepo, SaveSummary, SendReport, KillNight, Triaged, Research,
                IrInv, IrTyped
  <2>3. /\ night' \in {"off", "audit", "implement", "email", "agent", "heal"}
        /\ night' # "agent" /\ (night' = "heal" => on' = "heal")
    BY <1>1 DEF StartRun, AuditRepo, SaveSummary, SendReport, KillNight
  <2> QED BY <2>1, <2>2, <2>3, BetweenWork
<1>2. CASE CleanCheckout
  <2>1. /\ UNCHANGED <<night, todo, on, outcomeOf, branch, changelog, killed>>
        /\ dirty' = FALSE
    BY <1>2 DEF CleanCheckout, Day
  <2>2. dirty' \in BOOLEAN
    BY <2>1, Zenon
  <2> QED BY <2>1, <2>2 DEF IrInv, IrTyped, AtWork, PastGates, Accounted
<1>3. CASE UNCHANGED irVars
  BY <1>3 DEF irVars, IrInv, IrTyped, AtWork, PastGates, Accounted
<1> QED BY <1>1, <1>2, <1>3, HealBranchKeeps, ImplementFindingKeeps, RunGatesKeeps,
           PushImprovementKeeps, OpenPRKeeps, RecordResultKeeps, NextFindingKeeps DEF IrNext

(* Every pull request of the nightly run passed the gates and is in the     *)
(* changelog, or a run was killed; for any findings and number of runs.     *)
THEOREM PullRequestsAccounted == IrSpec => []OpenPRsAccountedFor
<1>1. IrInv => OpenPRsAccountedFor
  BY DEF IrInv, PastGates, Accounted, OpenPRsAccountedFor
<1> QED BY IrInitial, IrStep, <1>1, PTL DEF IrSpec

(* --- the experiments -------------------------------------------------------- *)

IsExp(x) ==
  x = [at |-> x.at, diff |-> x.diff, score |-> x.score, verdict |-> x.verdict, read |-> x.read]
Released == prs \cup merged \cup winning
Good(x) == x.verdict = "OK" /\ x.score > 0 /\ Scoped(x.diff, x.read)

ArTyped ==
  /\ exp = [e \in Experiments |-> exp[e]] /\ \A e \in Experiments : IsExp(exp[e])
  /\ memory = [d \in Diffs |-> memory[d]]
  /\ outcome = [e \in Experiments |-> outcome[e]]
  /\ wave \cup Released \subseteq Experiments

(* What was found out about an experiment on its way.                       *)
OnItsWay(e) ==
  /\ exp[e].at \in {"measure", "judge"} => Scoped(exp[e].diff, exp[e].read)
  /\ exp[e].at \in {"gate", "merge", "merged"} => Good(exp[e])
  /\ exp[e].at = "merged" => e \in merged
  /\ outcome[e] = "none" => exp[e].at = "none"

(* What is on the forge is past its judge, and stays what it is.            *)
ReleasedStands ==
  \A e \in Released : Good(exp[e]) /\ exp[e].at \in {"merge", "merged", "end"}
WinsStand ==
  \A d \in Diffs : memory[d] = "win" => \E e \in Released : exp[e].diff = d

ArInv ==
  /\ ArTyped /\ (\A e \in Experiments : OnItsWay(e)) /\ (\A e \in wave : outcome[e] # "none")
  /\ ReleasedStands /\ WinsStand

LEMMA ExpAt ==
  ASSUME NEW x, IsExp(x), NEW at
  PROVE  LET y == [x EXCEPT !.at = at] IN
         /\ IsExp(y) /\ y.at = at /\ y.diff = x.diff /\ y.score = x.score
         /\ y.verdict = x.verdict /\ y.read = x.read
BY DEF IsExp

LEMMA ExpDiff ==
  ASSUME NEW x, IsExp(x), NEW d
  PROVE  IsExp([x EXCEPT !.diff = d]) /\ [x EXCEPT !.diff = d].at = x.at
BY DEF IsExp

LEMMA ExpRead ==
  ASSUME NEW x, IsExp(x), NEW r
  PROVE  LET y == [x EXCEPT !.read = r] IN
         IsExp(y) /\ y.at = x.at /\ y.diff = x.diff /\ y.read = r
BY DEF IsExp

LEMMA ExpScore ==
  ASSUME NEW x, IsExp(x), NEW n
  PROVE  LET y == [x EXCEPT !.score = n] IN
         IsExp(y) /\ y.at = x.at /\ y.diff = x.diff /\ y.read = x.read
BY DEF IsExp

LEMMA ExpVerdict ==
  ASSUME NEW x, IsExp(x), NEW v
  PROVE  LET y == [x EXCEPT !.verdict = v] IN
         /\ IsExp(y) /\ y.at = x.at /\ y.diff = x.diff /\ y.score = x.score
         /\ y.verdict = v /\ y.read = x.read
BY DEF IsExp

LEMMA FreshIsExp == IsExp(Fresh) /\ Fresh.at = "none"
BY DEF IsExp, Fresh

LEMMA ArInitial == ArInit => ArInv
<1> SUFFICES ASSUME ArInit PROVE ArInv
  OBVIOUS
<1>1. Released = {} /\ wave = {}
  BY DEF ArInit, Released
<1>2. \A e \in Experiments : exp[e] = Fresh
  BY DEF ArInit
<1>3. ArTyped
  <2>1. exp = [e \in Experiments |-> exp[e]] /\ memory = [d \in Diffs |-> memory[d]]
        /\ outcome = [e \in Experiments |-> outcome[e]]
    BY DEF ArInit
  <2> QED BY <1>1, <1>2, <2>1, FreshIsExp DEF ArTyped
<1>4. \A e \in Experiments : OnItsWay(e)
  BY <1>2, FreshIsExp DEF OnItsWay
<1>5. ReleasedStands /\ WinsStand
  <2>1. \A d \in Diffs : memory[d] # "win"
    BY DEF ArInit
  <2> QED BY <1>1, <2>1 DEF ReleasedStands, WinsStand
<1> QED BY <1>1, <1>3, <1>4, <1>5 DEF ArInv

(* What the bank makes of an outcome.                                       *)
LEMMA Remembered ==
  ASSUME ArTyped, NEW d0, NEW o, Remember(d0, o)
  PROVE  /\ memory' = [d \in Diffs |-> memory'[d]]
         /\ \A d \in Diffs : memory'[d] = memory[d] \/ (d = d0 /\ memory'[d] = o)
<1>1. memory = [d \in Diffs |-> memory[d]]
  BY DEF ArTyped
<1>2. CASE d0 \in Diffs
  <2>1. memory' = [memory EXCEPT ![d0] = o]
    BY <1>2 DEF Remember
  <2> QED BY <1>1, <1>2, <2>1
<1>3. CASE d0 \notin Diffs
  BY <1>1, <1>3 DEF Remember
<1> QED BY <1>2, <1>3

(* One experiment goes on.                                                  *)
LEMMA OneExperiment ==
  ASSUME ArInv, NEW e \in Experiments, NEW x, IsExp(x), exp' = [exp EXCEPT ![e] = x],
         UNCHANGED wave, outcome' = [outcome EXCEPT ![e] = outcome'[e]], outcome'[e] # "none",
         Released \subseteq Released', Released' \subseteq Released \cup {e},
         merged \subseteq merged',
         e \in Released' => Good(x) /\ x.at \in {"merge", "merged", "end"},
         x.at \in {"measure", "judge"} => Scoped(x.diff, x.read),
         x.at \in {"gate", "merge", "merged"} => Good(x), x.at = "merged" => e \in merged',
         e \in Released => x.diff = exp[e].diff,
         memory' = [d \in Diffs |-> memory'[d]],
         \A d \in Diffs : memory'[d] = "win" =>
           memory[d] = "win" \/ (d = x.diff /\ e \in Released')
  PROVE  ArInv'
<1> USE DEF ArInv
<1>1. /\ exp = [y \in Experiments |-> exp[y]] /\ \A y \in Experiments : IsExp(exp[y])
      /\ outcome = [y \in Experiments |-> outcome[y]]
      /\ wave \cup Released \subseteq Experiments
  BY DEF ArTyped
<1>2. exp'[e] = x /\ \A y \in Experiments : y # e => exp'[y] = exp[y]
  BY <1>1
<1>3. exp' = [y \in Experiments |-> exp'[y]]
  BY <1>1
<1>4. /\ outcome' = [y \in Experiments |-> outcome'[y]]
      /\ \A y \in Experiments : y # e => outcome'[y] = outcome[y]
  BY <1>1
<1>5. ArTyped'
  <2>1. \A y \in Experiments : IsExp(exp'[y])
    BY <1>1, <1>2
  <2>2. wave' \cup Released' \subseteq Experiments
    BY <1>1
  <2> QED BY <1>3, <1>4, <2>1, <2>2 DEF ArTyped
<1>6. \A y \in Experiments : OnItsWay(y)'
  <2> SUFFICES ASSUME NEW y \in Experiments PROVE OnItsWay(y)'
    OBVIOUS
  <2>1. CASE y = e
    BY <1>2, <2>1 DEF OnItsWay
  <2>2. CASE y # e
    <3>1. OnItsWay(y) /\ exp'[y] = exp[y] /\ outcome'[y] = outcome[y]
      BY <1>2, <1>4, <2>2
    <3> QED BY <3>1 DEF OnItsWay
  <2> QED BY <2>1, <2>2
<1>7. \A y \in wave' : outcome'[y] # "none"
  BY <1>1, <1>4
<1>8. ReleasedStands'
  <2> SUFFICES ASSUME NEW y \in Released'
               PROVE  Good(exp'[y]) /\ exp'[y].at \in {"merge", "merged", "end"}
    BY DEF ReleasedStands
  <2>1. CASE y = e
    BY <1>2, <2>1
  <2>2. CASE y # e
    <3>1. y \in Released /\ exp'[y] = exp[y]
      BY <1>1, <1>2, <2>2
    <3> QED BY <3>1 DEF ReleasedStands
  <2> QED BY <2>1, <2>2
<1>9. WinsStand'
  <2> SUFFICES ASSUME NEW d \in Diffs, memory'[d] = "win"
               PROVE  \E y \in Released' : exp'[y].diff = d
    BY DEF WinsStand
  <2>1. CASE memory[d] = "win"
    <3>1. PICK y \in Released : exp[y].diff = d
      BY <2>1 DEF WinsStand
    <3>2. y \in Released' /\ exp'[y].diff = d
      BY <1>1, <1>2, <3>1
    <3> QED BY <3>2
  <2>2. CASE d = x.diff /\ e \in Released'
    BY <1>2, <2>2
  <2> QED BY <2>1, <2>2
<1> QED BY <1>5, <1>6, <1>7, <1>8, <1>9

LEMMA InWave ==
  ASSUME ArInv, NEW e \in wave
  PROVE  /\ e \in Experiments /\ IsExp(exp[e]) /\ outcome[e] # "none" /\ OnItsWay(e) /\ ArTyped
         /\ exp = [y \in Experiments |-> exp[y]]
         /\ outcome = [y \in Experiments |-> outcome[y]]
         /\ memory = [d \in Diffs |-> memory[d]]
         /\ e \in Released => Good(exp[e]) /\ exp[e].at \in {"merge", "merged", "end"}
BY DEF ArInv, ArTyped, ReleasedStands

LEMMA GoodStays ==
  ASSUME NEW x, NEW y, y.diff = x.diff, y.score = x.score, y.verdict = x.verdict, y.read = x.read
  PROVE  Good(x) => Good(y)
BY DEF Good

(* Discarded before the gate: nothing of it is on the forge.                *)
LEMMA DiscardKeeps ==
  ASSUME ArInv, NEW e \in wave, exp[e].at \notin {"merge", "merged", "end"},
         Discard(e), UNCHANGED <<Rest, Forge>>
  PROVE  ArInv'
<1>1. /\ exp' = [exp EXCEPT ![e] = [Fresh EXCEPT !.at = "end"]]
      /\ outcome' = [outcome EXCEPT ![e] = "discarded"] /\ Remember(exp[e].diff, "loss")
      /\ UNCHANGED <<wave, Released, merged>>
  BY DEF Discard, Ends, Rest, Forge, Released
<1> DEFINE x == [Fresh EXCEPT !.at = "end"]
<1>2. IsExp(x) /\ x.at = "end"
  BY ExpAt, FreshIsExp
<1>3. /\ memory' = [d \in Diffs |-> memory'[d]]
      /\ \A d \in Diffs : memory'[d] = "win" => memory[d] = "win"
  BY <1>1, InWave, Remembered
<1> HIDE DEF x
<1>4. exp' = [exp EXCEPT ![e] = x]
  BY <1>1 DEF x
<1>5. outcome'[e] = "discarded"
  BY <1>1, InWave
<1> QED BY <1>1, <1>2, <1>3, <1>4, <1>5, InWave, OneExperiment

(* Failed: what was on the forge is there still.                            *)
LEMMA FailKeeps ==
  ASSUME ArInv, NEW e \in wave, Fail(e), UNCHANGED <<Rest, Forge>>
  PROVE  ArInv'
<1>1. /\ exp' = [exp EXCEPT ![e] = [exp[e] EXCEPT !.at = "end"]]
      /\ outcome' = [outcome EXCEPT ![e] = "failed"] /\ Remember(exp[e].diff, "loss")
      /\ UNCHANGED <<wave, Released, merged>>
  BY DEF Fail, Ends, Rest, Forge, Released
<1> DEFINE x == [exp[e] EXCEPT !.at = "end"]
<1>2. /\ IsExp(x) /\ x.at = "end" /\ x.diff = exp[e].diff
      /\ (Good(exp[e]) => Good(x))
  <2>1. /\ IsExp(x) /\ x.at = "end" /\ x.diff = exp[e].diff
        /\ x.score = exp[e].score /\ x.verdict = exp[e].verdict /\ x.read = exp[e].read
    BY InWave, ExpAt
  <2> HIDE DEF x
  <2> QED BY <2>1, GoodStays
<1>3. /\ memory' = [d \in Diffs |-> memory'[d]]
      /\ \A d \in Diffs : memory'[d] = "win" => memory[d] = "win"
  BY <1>1, InWave, Remembered
<1> HIDE DEF x
<1>4. exp' = [exp EXCEPT ![e] = x]
  BY <1>1 DEF x
<1>5. outcome'[e] = "failed"
  BY <1>1, InWave
<1> QED BY <1>1, <1>2, <1>3, <1>4, <1>5, InWave, OneExperiment

(* On to the next point, nothing said about it.                             *)
LEMMA GoesKeeps ==
  ASSUME ArInv, NEW e \in wave, exp[e].at \notin {"merge", "merged", "end"},
         NEW x, IsExp(x), exp' = [exp EXCEPT ![e] = x],
         outcome'[e] # "none", outcome' = [outcome EXCEPT ![e] = outcome'[e]],
         memory' = memory \/ Remember(exp[e].diff, "loss"),
         UNCHANGED <<Rest, Forge>>,
         x.at \in {"agent", "diff", "measure", "judge", "gate"},
         x.at \in {"measure", "judge"} => Scoped(x.diff, x.read),
         x.at = "gate" => Good(x)
  PROVE  ArInv'
<1>1. UNCHANGED <<wave, Released, merged>> /\ e \notin Released
  BY InWave DEF Rest, Forge, Released
<1>2. /\ memory' = [d \in Diffs |-> memory'[d]]
      /\ \A d \in Diffs : memory'[d] = "win" => memory[d] = "win"
  BY InWave, Remembered
<1>3. /\ x.at \in {"gate", "merge", "merged"} => Good(x)
      /\ x.at # "merged"
  OBVIOUS
<1> QED BY <1>1, <1>2, <1>3, InWave, OneExperiment

LEMMA CreateExperimentKeeps ==
  ASSUME ArInv, NEW e \in wave, CreateExperiment(e) PROVE ArInv'
<1>1. exp[e].at = "start" /\ UNCHANGED <<Rest, Forge>>
  BY DEF CreateExperiment
<1>2. CASE Fail(e)
  BY <1>1, <1>2, FailKeeps
<1>3. CASE /\ exp' = [exp EXCEPT ![e].at = "agent"]
           /\ outcome' = [outcome EXCEPT ![e] = "running"] /\ UNCHANGED memory
  <2>1. exp' = [exp EXCEPT ![e] = [exp[e] EXCEPT !.at = "agent"]]
    BY <1>3
  <2>2. IsExp([exp[e] EXCEPT !.at = "agent"]) /\ [exp[e] EXCEPT !.at = "agent"].at = "agent"
    BY InWave, ExpAt
  <2>3. outcome'[e] = "running"
    BY <1>3, InWave
  <2> QED BY <1>1, <1>3, <2>1, <2>2, <2>3, GoesKeeps
<1> QED BY <1>2, <1>3 DEF CreateExperiment

LEMMA GoesOn ==
  ASSUME ArInv, NEW e \in wave, NEW x, Goes(e, x)
  PROVE  /\ exp' = [exp EXCEPT ![e] = x] /\ memory' = memory
         /\ outcome'[e] # "none" /\ outcome' = [outcome EXCEPT ![e] = outcome'[e]]
BY InWave DEF Goes

LEMMA RunExperimentKeeps ==
  ASSUME ArInv, NEW e \in wave, RunExperiment(e) PROVE ArInv'
<1>1. exp[e].at = "agent" /\ UNCHANGED <<Rest, Forge>>
  BY DEF RunExperiment
<1>2. CASE Discard(e)
  BY <1>1, <1>2, DiscardKeeps
<1>3. CASE \E d \in Diffs \cup {NoDiff} : Goes(e, [exp[e] EXCEPT !.at = "diff", !.diff = d])
  <2>1. PICK d \in Diffs \cup {NoDiff} : Goes(e, [exp[e] EXCEPT !.at = "diff", !.diff = d])
    BY <1>3
  <2> DEFINE x == [exp[e] EXCEPT !.at = "diff", !.diff = d]
  <2>2. IsExp(x) /\ x.at = "diff"
    <3> DEFINE y == [exp[e] EXCEPT !.at = "diff"]
    <3>1. IsExp(exp[e])
      BY InWave
    <3>2. x = [y EXCEPT !.diff = d]
      BY <3>1 DEF IsExp
    <3>3. /\ IsExp(y) /\ y.at = "diff" /\ y.diff = exp[e].diff /\ y.score = exp[e].score
          /\ y.read = exp[e].read
      BY <3>1, ExpAt
    <3> HIDE DEF x, y
    <3> QED BY <3>2, <3>3, ExpDiff
  <2>3. Goes(e, x)
    BY <2>1
  <2> HIDE DEF x
  <2> QED BY <1>1, <2>2, <2>3, GoesOn, GoesKeeps
<1> QED BY <1>2, <1>3 DEF RunExperiment

LEMMA InspectDiffKeeps ==
  ASSUME ArInv, NEW e \in wave, InspectDiff(e) PROVE ArInv'
<1>1. exp[e].at = "diff" /\ UNCHANGED <<Rest, Forge>>
  BY DEF InspectDiff
<1>2. CASE Fail(e)
  BY <1>1, <1>2, FailKeeps
<1>3. CASE Discard(e)
  BY <1>1, <1>3, DiscardKeeps
<1>4. CASE \E read \in BOOLEAN :
             /\ Scoped(exp[e].diff, read)
             /\ Goes(e, [exp[e] EXCEPT !.at = "measure", !.read = read])
  <2>1. PICK read : /\ Scoped(exp[e].diff, read)
                    /\ Goes(e, [exp[e] EXCEPT !.at = "measure", !.read = read])
    BY <1>4
  <2> DEFINE x == [exp[e] EXCEPT !.at = "measure", !.read = read]
  <2>2. IsExp(x) /\ x.at = "measure" /\ x.diff = exp[e].diff /\ x.read = read
    <3> DEFINE y == [exp[e] EXCEPT !.at = "measure"]
    <3>1. IsExp(exp[e])
      BY InWave
    <3>2. x = [y EXCEPT !.read = read]
      BY <3>1 DEF IsExp
    <3>3. /\ IsExp(y) /\ y.at = "measure" /\ y.diff = exp[e].diff /\ y.score = exp[e].score
          /\ y.read = exp[e].read
      BY <3>1, ExpAt
    <3> HIDE DEF x, y
    <3> QED BY <3>2, <3>3, ExpRead
  <2>3. Goes(e, x)
    BY <2>1
  <2> HIDE DEF x
  <2>4. Scoped(x.diff, x.read)
    BY <2>1, <2>2
  <2> QED BY <1>1, <2>2, <2>3, <2>4, GoesOn, GoesKeeps
<1> QED BY <1>2, <1>3, <1>4 DEF InspectDiff

LEMMA MeasureMetricKeeps ==
  ASSUME ArInv, NEW e \in wave, MeasureMetric(e) PROVE ArInv'
<1>1. exp[e].at = "measure" /\ UNCHANGED <<Rest, Forge>>
  BY DEF MeasureMetric
<1>2. CASE Discard(e)
  BY <1>1, <1>2, DiscardKeeps
<1>3. CASE \E n \in Nudges(exp[e].diff.score) :
             Goes(e, [exp[e] EXCEPT !.at = "judge", !.score = exp[e].diff.score + n])
  <2>1. PICK n : Goes(e, [exp[e] EXCEPT !.at = "judge", !.score = exp[e].diff.score + n])
    BY <1>3
  <2> DEFINE score == exp[e].diff.score + n
             x == [exp[e] EXCEPT !.at = "judge", !.score = score]
  <2>2. IsExp(x) /\ x.at = "judge" /\ x.diff = exp[e].diff /\ x.read = exp[e].read
    <3> DEFINE y == [exp[e] EXCEPT !.at = "judge"]
    <3>1. IsExp(exp[e])
      BY InWave
    <3>2. x = [y EXCEPT !.score = score]
      BY <3>1 DEF IsExp
    <3>3. /\ IsExp(y) /\ y.at = "judge" /\ y.diff = exp[e].diff /\ y.score = exp[e].score
          /\ y.read = exp[e].read
      BY <3>1, ExpAt
    <3> HIDE DEF x, y
    <3> QED BY <3>2, <3>3, ExpScore
  <2>3. Goes(e, x)
    BY <2>1
  <2> HIDE DEF x
  <2>4. Scoped(x.diff, x.read)
    BY <1>1, <2>2, InWave DEF OnItsWay
  <2> QED BY <1>1, <2>2, <2>3, <2>4, GoesOn, GoesKeeps
<1> QED BY <1>2, <1>3 DEF MeasureMetric

(* Only the reply that says OK lets a diff through.                         *)
LEMMA JudgeDiffKeeps ==
  ASSUME ArInv, NEW e \in wave, JudgeDiff(e) PROVE ArInv'
<1>1. exp[e].at = "judge" /\ UNCHANGED <<Rest, Forge>>
  BY DEF JudgeDiff
<1>2. CASE Discard(e)
  BY <1>1, <1>2, DiscardKeeps
<1>3. CASE \E reply \in Replies :
             /\ Judge(reply) = "OK" /\ exp[e].score > 0
             /\ exp' = [exp EXCEPT ![e].at = "gate", ![e].verdict = reply]
             /\ Remember(exp[e].diff, "loss") /\ UNCHANGED outcome
  <2>1. PICK reply \in Replies :
             /\ Judge(reply) = "OK" /\ exp[e].score > 0
             /\ exp' = [exp EXCEPT ![e].at = "gate", ![e].verdict = reply]
             /\ Remember(exp[e].diff, "loss") /\ UNCHANGED outcome
    BY <1>3
  <2>2. reply = "OK"
    BY <2>1 DEF Judge
  <2> DEFINE x == [exp[e] EXCEPT !.at = "gate", !.verdict = reply]
  <2>3. /\ IsExp(x) /\ x.at = "gate" /\ x.diff = exp[e].diff /\ x.score = exp[e].score
        /\ x.verdict = reply /\ x.read = exp[e].read
    <3> DEFINE y == [exp[e] EXCEPT !.at = "gate"]
    <3>1. IsExp(exp[e])
      BY InWave
    <3>2. x = [y EXCEPT !.verdict = reply]
      BY <3>1 DEF IsExp
    <3>3. /\ IsExp(y) /\ y.at = "gate" /\ y.diff = exp[e].diff /\ y.score = exp[e].score
          /\ y.read = exp[e].read
      BY <3>1, ExpAt
    <3> HIDE DEF x, y
    <3> QED BY <3>2, <3>3, ExpVerdict
  <2>4. exp' = [exp EXCEPT ![e] = x]
    <3>1. exp' = [exp EXCEPT ![e] = [exp[e] EXCEPT !.at = "gate", !.verdict = reply]]
      BY <2>1, InWave
    <3> QED BY <3>1
  <2> HIDE DEF x
  <2>5. Good(x)
    <3>1. Scoped(x.diff, x.read)
      BY <1>1, <2>3, InWave DEF OnItsWay
    <3>2. x.verdict = "OK" /\ x.score > 0
      BY <2>1, <2>2, <2>3
    <3> QED BY <3>1, <3>2 DEF Good
  <2>6. outcome'[e] # "none" /\ outcome' = [outcome EXCEPT ![e] = outcome'[e]]
    BY <2>1, InWave
  <2> QED BY <1>1, <2>1, <2>3, <2>4, <2>5, <2>6, GoesKeeps
<1> QED BY <1>2, <1>3 DEF JudgeDiff

(* Kept: it is on the forge, and a win.                                     *)
LEMMA KeepKeeps ==
  ASSUME ArInv, NEW e \in wave, Keep(e), UNCHANGED wave, Good(exp[e]),
         Released \subseteq Released', Released' \subseteq Released \cup {e}, e \in Released',
         merged \subseteq merged'
  PROVE  ArInv'
<1>1. /\ exp' = [exp EXCEPT ![e] = [exp[e] EXCEPT !.at = "end"]]
      /\ outcome' = [outcome EXCEPT ![e] = "kept"] /\ Remember(exp[e].diff, "win")
  BY DEF Keep, Ends
<1> DEFINE x == [exp[e] EXCEPT !.at = "end"]
<1>2. /\ IsExp(x) /\ x.at = "end" /\ x.diff = exp[e].diff /\ x.score = exp[e].score
      /\ x.verdict = exp[e].verdict /\ x.read = exp[e].read
  BY InWave, ExpAt
<1>3. exp' = [exp EXCEPT ![e] = x]
  BY <1>1
<1> HIDE DEF x
<1>4. Good(x)
  BY <1>2, GoodStays
<1>5. /\ memory' = [d \in Diffs |-> memory'[d]]
      /\ \A d \in Diffs : memory'[d] = "win" => memory[d] = "win" \/ d = x.diff
  BY <1>1, <1>2, InWave, Remembered
<1>6. outcome'[e] = "kept"
  BY <1>1, InWave
<1> QED BY <1>1, <1>2, <1>3, <1>4, <1>5, <1>6, InWave, OneExperiment

LEMMA RoutesKeep ==
  ASSUME ArInv, NEW e \in wave, RouteWinning(e) \/ RoutePR(e) \/ RouteAuto(e) \/ KeepMerged(e)
  PROVE  ArInv'
<1>1. UNCHANGED wave
  BY DEF RouteWinning, RoutePR, RouteAuto, KeepMerged, Rest
<1>2. exp[e].at \in {"gate", "merge", "merged"} /\ Good(exp[e])
  BY InWave DEF RouteWinning, RoutePR, RouteAuto, KeepMerged, OnItsWay
<1>3. CASE Fail(e) /\ UNCHANGED Forge
  <2>1. UNCHANGED Rest
    BY DEF RouteWinning, RoutePR, RouteAuto, KeepMerged
  <2> QED BY <1>3, <2>1, FailKeeps
<1>4. CASE /\ Keep(e) /\ CanForward(e) /\ winning' = {e} /\ UNCHANGED <<prs, merged>>
  BY <1>1, <1>2, <1>4, KeepKeeps DEF CanForward, Released
<1>5. CASE Keep(e) /\ prs' = prs \cup {e} /\ UNCHANGED <<merged, winning>>
  BY <1>1, <1>2, <1>5, KeepKeeps DEF Released
<1>6. CASE exp[e].at = "merged" /\ Keep(e) /\ UNCHANGED Forge
  <2>1. e \in merged
    BY <1>6, InWave DEF OnItsWay
  <2> QED BY <1>1, <1>2, <1>6, <2>1, KeepKeeps DEF Released, Forge
<1>7. ASSUME NEW at \in {"merge", "merged"},
             exp' = [exp EXCEPT ![e] = [exp[e] EXCEPT !.at = at]], UNCHANGED <<memory, outcome>>,
             Released' = Released \cup {e}, merged \subseteq merged',
             at = "merged" => e \in merged'
      PROVE  ArInv'
  <2> DEFINE x == [exp[e] EXCEPT !.at = at]
  <2>1. /\ IsExp(x) /\ x.at = at /\ x.diff = exp[e].diff /\ x.score = exp[e].score
        /\ x.verdict = exp[e].verdict /\ x.read = exp[e].read
    BY InWave, ExpAt
  <2>2. exp' = [exp EXCEPT ![e] = x]
    BY <1>7
  <2> HIDE DEF x
  <2>3. Good(x)
    BY <1>2, <2>1, GoodStays
  <2>4. /\ outcome'[e] # "none" /\ outcome' = [outcome EXCEPT ![e] = outcome'[e]]
        /\ memory' = [d \in Diffs |-> memory'[d]]
    BY <1>7, InWave
  <2> QED BY <1>1, <1>7, <2>1, <2>2, <2>3, <2>4, InWave, OneExperiment
<1>8. CASE prs' = prs \cup {e} /\ Goes(e, [exp[e] EXCEPT !.at = "merge"]) /\ UNCHANGED <<merged, winning>>
  <2>1. Released' = Released \cup {e} /\ merged \subseteq merged'
    BY <1>8 DEF Released
  <2> QED BY <1>7, <1>8, <2>1 DEF Goes
<1>9. CASE /\ merged' = merged \cup {e} /\ exp' = [exp EXCEPT ![e].at = "merged"]
           /\ UNCHANGED <<memory, outcome, prs, winning>>
  <2>1. Released' = Released \cup {e} /\ merged \subseteq merged' /\ e \in merged'
    BY <1>9 DEF Released
  <2>2. exp' = [exp EXCEPT ![e] = [exp[e] EXCEPT !.at = "merged"]]
    BY <1>9
  <2> QED BY <1>7, <1>9, <2>1, <2>2
<1>10. CASE RouteWinning(e)
  BY <1>3, <1>4, <1>10 DEF RouteWinning, Forge
<1>11. CASE RoutePR(e)
  BY <1>3, <1>5, <1>8, <1>11 DEF RoutePR, Forge
<1>12. CASE RouteAuto(e)
  BY <1>3, <1>9, <1>12 DEF RouteAuto, Forge
<1>13. CASE KeepMerged(e)
  BY <1>6, <1>13 DEF KeepMerged
<1> QED BY <1>10, <1>11, <1>12, <1>13

LEMMA CoordinatorKeeps ==
  ASSUME ArInv, UNCHANGED <<memory, Forge>>,
         exp' = [e \in Experiments |-> exp'[e]], outcome' = [e \in Experiments |-> outcome'[e]],
         wave' \subseteq Experiments, \A e \in wave' : outcome'[e] # "none",
         NEW at \in {"start", "end"},
         \A e \in Experiments :
           \/ exp'[e] = exp[e] /\ outcome'[e] = outcome[e]
           \/ /\ exp'[e] = [exp[e] EXCEPT !.at = at] /\ outcome'[e] # "none"
              /\ at = "start" => outcome[e] = "none"
  PROVE  ArInv'
<1> USE DEF ArInv
<1>1. UNCHANGED Released /\ merged' = merged
  BY DEF Forge, Released
<1>2. \A e \in Experiments :
        /\ IsExp(exp[e]) /\ IsExp(exp'[e]) /\ exp'[e].diff = exp[e].diff
        /\ exp'[e].score = exp[e].score /\ exp'[e].verdict = exp[e].verdict
        /\ exp'[e].read = exp[e].read
        /\ exp'[e].at = exp[e].at \/ exp'[e].at = at
  <2> TAKE e \in Experiments
  <2>1. IsExp(exp[e])
    BY DEF ArTyped
  <2>2. CASE exp'[e] = exp[e]
    BY <2>1, <2>2
  <2>3. CASE exp'[e] = [exp[e] EXCEPT !.at = at]
    BY <2>1, <2>3, ExpAt
  <2> QED BY <2>1, <2>2, <2>3
<1>3. ArTyped'
  <2>1. Released \subseteq Experiments /\ memory = [d \in Diffs |-> memory[d]]
    BY DEF ArTyped
  <2> QED BY <1>1, <1>2, <2>1 DEF ArTyped
<1>4. \A e \in Experiments : OnItsWay(e)'
  <2> SUFFICES ASSUME NEW e \in Experiments PROVE OnItsWay(e)'
    OBVIOUS
  <2>1. OnItsWay(e)
    OBVIOUS
  <2>2. CASE exp'[e] = exp[e] /\ outcome'[e] = outcome[e]
    BY <1>1, <2>1, <2>2 DEF OnItsWay
  <2>3. CASE exp'[e] = [exp[e] EXCEPT !.at = at] /\ outcome'[e] # "none"
    <3>1. exp'[e].at = at
      BY <1>2, <2>3, ExpAt
    <3> QED BY <2>3, <3>1 DEF OnItsWay
  <2> QED BY <2>2, <2>3
<1>5. ReleasedStands'
  <2> SUFFICES ASSUME NEW e \in Released
               PROVE  Good(exp'[e]) /\ exp'[e].at \in {"merge", "merged", "end"}
    BY <1>1 DEF ReleasedStands
  <2>1. e \in Experiments /\ Good(exp[e]) /\ exp[e].at \in {"merge", "merged", "end"}
    BY DEF ReleasedStands, ArTyped
  <2>2. Good(exp'[e])
    BY <1>2, <2>1, GoodStays
  <2>3. outcome[e] # "none"
    BY <2>1 DEF OnItsWay
  <2>4. CASE exp'[e] = exp[e]
    BY <2>1, <2>2, <2>4
  <2>5. CASE exp'[e] = [exp[e] EXCEPT !.at = at] /\ at = "end"
    BY <1>2, <2>1, <2>2, <2>5, ExpAt
  <2> QED BY <2>1, <2>3, <2>4, <2>5
<1>6. WinsStand'
  <2>1. \A e \in Released : exp'[e].diff = exp[e].diff
    BY <1>2 DEF ArTyped
  <2> QED BY <1>1, <2>1 DEF WinsStand
<1> QED BY <1>3, <1>4, <1>5, <1>6

LEMMA ArStep == ArInv /\ [ArNext]_arVars => ArInv'
<1> SUFFICES ASSUME ArInv, [ArNext]_arVars PROVE ArInv'
  OBVIOUS
<1>0. /\ exp = [e \in Experiments |-> exp[e]] /\ outcome = [e \in Experiments |-> outcome[e]]
      /\ wave \subseteq Experiments /\ \A e \in wave : outcome[e] # "none"
  BY DEF ArInv, ArTyped
<1>1. CASE /\ UNCHANGED <<exp, memory, outcome, Forge>> /\ wave' \subseteq wave
  BY <1>0, <1>1, CoordinatorKeeps
<1>2. CASE StartCoordinator \/ StopCoordinator \/ CoordinatorEnds \/ EvolveProgram \/ UNCHANGED arVars
  BY <1>1, <1>2 DEF StartCoordinator, StopCoordinator, CoordinatorEnds, EvolveProgram, arVars, Forge
<1>3. CASE KillCoordinator
  <2>1. /\ UNCHANGED <<memory, outcome, Forge>> /\ wave' = {}
        /\ exp' = [e \in Experiments |-> IF e \in wave THEN [exp[e] EXCEPT !.at = "end"] ELSE exp[e]]
    BY <1>3 DEF KillCoordinator
  <2>2. exp' = [e \in Experiments |-> exp'[e]]
    BY <2>1
  <2>3. \A e \in Experiments : \/ exp'[e] = exp[e]
                               \/ e \in wave /\ exp'[e] = [exp[e] EXCEPT !.at = "end"]
    BY <2>1
  <2> QED BY <1>0, <2>1, <2>2, <2>3, CoordinatorKeeps
<1>4. CASE NextWave
  <2>1. /\ UNCHANGED <<memory, Forge>>
        /\ wave' \subseteq {e \in Experiments : outcome[e] = "none"}
        /\ outcome' = [e \in Experiments |-> IF e \in wave' THEN "proposed" ELSE outcome[e]]
        /\ exp' = [e \in Experiments |->
                     IF e \in wave' THEN [exp[e] EXCEPT !.at = "start"] ELSE exp[e]]
    BY <1>4 DEF NextWave
  <2>2. /\ exp' = [e \in Experiments |-> exp'[e]] /\ outcome' = [e \in Experiments |-> outcome'[e]]
        /\ wave' \subseteq Experiments /\ \A e \in wave' : outcome'[e] = "proposed"
    BY <2>1
  <2>3. \A e \in Experiments :
          \/ exp'[e] = exp[e] /\ outcome'[e] = outcome[e]
          \/ /\ exp'[e] = [exp[e] EXCEPT !.at = "start"] /\ outcome'[e] # "none"
             /\ outcome[e] = "none"
    BY <2>1
  <2> QED BY <2>1, <2>2, <2>3, CoordinatorKeeps
<1>5. CASE \E e \in wave :
             \/ CreateExperiment(e) \/ RunExperiment(e) \/ InspectDiff(e) \/ MeasureMetric(e)
             \/ JudgeDiff(e) \/ RouteWinning(e) \/ RoutePR(e) \/ RouteAuto(e) \/ KeepMerged(e)
  BY <1>5, CreateExperimentKeeps, RunExperimentKeeps, InspectDiffKeeps, MeasureMetricKeeps,
     JudgeDiffKeeps, RoutesKeep
<1> QED BY <1>2, <1>3, <1>4, <1>5 DEF ArNext

(* What leaves an experiment's worktree was judged and beats the baseline,  *)
(* and only that is remembered as a win, for any number of experiments,     *)
(* diffs and waves.                                                         *)
THEOREM KeptWasJudged == ArSpec => []KeptIsJudged
<1>1. ArInv => KeptIsJudged
  BY DEF ArInv, ReleasedStands, WinsStand, Good, Scoped, Released, KeptIsJudged, TopWins
<1> QED BY ArInitial, ArStep, <1>1, PTL DEF ArSpec

(* --- the databases ---------------------------------------------------------- *)

(* Before the devdb section is written there are no runs and no databases;  *)
(* a database bears the name of its story; the numbers given out so far are *)
(* those up to `made'.                                                      *)
DbAgent == [works : BOOLEAN, db : 0..MaxDatabases + 1]
DbTyped ==
  /\ settings.provider \in {"none", "docker", "ghost"}
  /\ settings.home \in [DbReqs -> Seq(STRING)]
  /\ phase \in [DbStories -> Phases] /\ agent \in [DbStories -> DbAgent]
  /\ dbRun \in [DbReqs -> DbRunState] /\ container \in Container
  /\ made \in 0..MaxDatabases /\ robbed \subseteq DbStories
Configured ==
  settings.provider = "none" =>
    /\ databases = {} /\ \A s \in DbStories : ~agent[s].works
    /\ dbRun = [r \in DbReqs |-> NoDbRun]
DbNamed == \A d \in databases : d.story \in DbStories /\ d.name = NameOf(d.story)
RowsNumbered ==
  \A k \in DOMAIN dbLog :
    k[1] \in DbStories /\ k[2] \in 0..made \cup {ByName} /\ dbLog[k] \in DbStatus

DbInv ==
  /\ DbTyped /\ Configured /\ DbNamed /\ RowsNumbered
  /\ AgentKeepsDatabase /\ DeletedIsGone

LEMMA Joined ==
  ASSUME NEW S, NEW q \in Seq(S), NEW s \in Seq(S)
  PROVE  /\ q \o s \in Seq(S) /\ Len(q \o s) = Len(q) + Len(s)
         /\ \A i \in 1..Len(q) : (q \o s)[i] = q[i]
         /\ \A i \in 1..Len(s) : (q \o s)[Len(q) + i] = s[i]
OBVIOUS

LEMMA TwoAtTheEnd ==
  ASSUME NEW S, NEW q \in Seq(S), NEW s \in Seq(S)
  PROVE  \A n \in Nat : Len(q) = n + 1 /\ Len(s) = 2 =>
           /\ q \o s \in Seq(S) /\ Len(q \o s) = n + 3
           /\ (q \o s)[1] = q[1] /\ (q \o s)[n + 2] = s[1] /\ (q \o s)[n + 3] = s[2]
<1> DEFINE t == q \o s
<1>1. /\ t \in Seq(S) /\ Len(t) = Len(q) + Len(s)
      /\ \A i \in 1..Len(q) : t[i] = q[i]
      /\ \A i \in 1..Len(s) : t[Len(q) + i] = s[i]
  BY Joined
<1> HIDE DEF t
<1>2. ASSUME NEW n \in Nat, Len(q) = n + 1, Len(s) = 2
      PROVE  /\ t \in Seq(S) /\ Len(t) = n + 3
             /\ t[1] = q[1] /\ t[n + 2] = s[1] /\ t[n + 3] = s[2]
  <2>1. Len(t) = n + 3 /\ t[1] = q[1]
    BY <1>1, <1>2
  <2>2. 1 \in 1..Len(s) /\ 2 \in 1..Len(s) /\ Len(q) + 1 = n + 2 /\ Len(q) + 2 = n + 3
    BY <1>2
  <2> QED BY <1>1, <2>1, <2>2
<1> QED BY <1>2 DEF t

LEMMA LastTwo ==
  ASSUME NEW S, NEW t \in Seq(S), NEW s \in Seq(S), NEW n \in Nat, Len(t) = n + 3,
         Len(s) = 2, t[n + 2] = s[1], t[n + 3] = s[2]
  PROVE  SubSeq(t, n + 2, n + 3) = s
<1> DEFINE u == SubSeq(t, n + 2, n + 3)
<1>1. Len(u) = 2 /\ u \in Seq(S)
  OBVIOUS
<1>2. u[1] = t[n + 2] /\ u[2] = t[n + 3]
  OBVIOUS
<1> HIDE DEF u
<1>3. u = s
  BY <1>1, <1>2
<1> QED BY <1>3 DEF u

(* The clean-ups read a story off the name of its database, when its id is  *)
(* of two segments in lower case.                                           *)
LEMMA ParsesBack ==
  ASSUME NEW p \in Seq(STRING), NEW s \in Seq(STRING), TwoLowerSegments(s)
  PROVE  ParseStoryID(FormatDBName(p, s)) = s
<1> DEFINE S == STRING \cup {DbPrefix}
           q == <<DbPrefix>> \o p
           name == q \o s
           n == Len(p)
<1>1. /\ p \in Seq(S) /\ s \in Seq(S) /\ <<DbPrefix>> \in Seq(S) /\ Len(<<DbPrefix>>) = 1
      /\ Len(s) = 2
  BY DEF TwoLowerSegments
<1>2. n \in Nat
  OBVIOUS
<1>3. FormatDBName(p, s) = name
  BY DEF FormatDBName, TwoLowerSegments
<1> HIDE DEF S
<1>4. q \in Seq(S) /\ Len(q) = n + 1 /\ q[1] = DbPrefix
  <2>1. q \in Seq(S) /\ Len(q) = 1 + Len(p) /\ q[1] = DbPrefix
    BY <1>1
  <2> QED BY <2>1
<1> HIDE DEF q, n
<1>5. /\ q \o s \in Seq(S) /\ Len(q \o s) = n + 3
      /\ (q \o s)[1] = q[1] /\ (q \o s)[n + 2] = s[1] /\ (q \o s)[n + 3] = s[2]
  BY <1>1, <1>2, <1>4, TwoAtTheEnd
<1>6. /\ name \in Seq(S) /\ Len(name) = n + 3 /\ name[1] = DbPrefix
      /\ name[n + 2] = s[1] /\ name[n + 3] = s[2]
  BY <1>4, <1>5
<1> HIDE DEF name
<1>7. ParseStoryID(name) = SubSeq(name, n + 2, n + 3)
  <2>1. Head(name) = DbPrefix
    BY <1>2, <1>6
  <2>2. ~(Len(name) < 3) /\ Len(name) - 1 = n + 2
    BY <1>2, <1>6
  <2> QED BY <1>6, <2>1, <2>2 DEF ParseStoryID
<1> QED BY <1>1, <1>2, <1>3, <1>6, <1>7, LastTwo

LEMMA RowIds ==
  ASSUME NEW s, NEW id, NEW t, NEW jd
  PROVE  /\ DbRow(s, id)[1] = s /\ DbRow(s, id)[2] = id
         /\ DbRow(s, id) = DbRow(t, jd) <=> s = t /\ id = jd
BY DEF DbRow

(* Names follow the settings, which are written once.                       *)
LEMMA NamesStay ==
  ASSUME settings' = settings
  PROVE  /\ \A s : NameOf(s)' = NameOf(s)
         /\ \A s : OwnName(s)' <=> OwnName(s)
         /\ \A s : TwoLowerSegments(s)' <=> TwoLowerSegments(s)
<1>1. \A s : NameOf(s)' = NameOf(s)
  BY DEF NameOf, FormatDBName, ToLower
<1>2. \A s : OwnName(s)' <=> OwnName(s)
  BY <1>1 DEF OwnName
<1>3. \A s : TwoLowerSegments(s)' <=> TwoLowerSegments(s)
  BY DEF TwoLowerSegments, ToLower
<1> QED BY <1>1, <1>2, <1>3

LEMMA TypesStay ==
  /\ DbRunState' = DbRunState /\ Container' = Container /\ DbAgent' = DbAgent
  /\ Phases' = Phases /\ DbStatus' = DbStatus /\ ByName' = ByName /\ NoDbRun' = NoDbRun
BY DEF DbRunState, Container, DbAgent, Phases, DbStatus, ByName, NoDbRun

LEMMA Close ==
  ASSUME NEW r, NEW s, NEW id, NEW status
  PROVE  /\ DOMAIN CloseRow(r, s, id, status) = DOMAIN r
         /\ \A k \in DOMAIN r : k # DbRow(s, id) => CloseRow(r, s, id, status)[k] = r[k]
         /\ DbRow(s, id) \in DOMAIN r => CloseRow(r, s, id, status)[DbRow(s, id)] = status
<1>1. CASE DbRow(s, id) \in DOMAIN r
  BY <1>1 DEF CloseRow, PutRow
<1>2. CASE DbRow(s, id) \notin DOMAIN r
  BY <1>2 DEF CloseRow
<1> QED BY <1>1, <1>2

(* The lowest free port is a port.                                         *)
LEMMA LowestIsThere ==
  ASSUME NEW T, T \subseteq Nat, T # {}
  PROVE  (CHOOSE q \in T : \A o \in T : q <= o) \in T
<1>1. \E x \in T : \A y \in T : ~(<<y, x>> \in OpToRel(<, Nat))
  BY NatLessThanWellFounded, WFMin
<1>2. PICK x \in T : \A y \in T : ~(<<y, x>> \in OpToRel(<, Nat))
  BY <1>1
<1>3. \A y \in T : ~(y < x)
  BY <1>2 DEF OpToRel
<1>4. \E q \in T : \A o \in T : q <= o
  BY <1>3
<1> QED BY <1>4, Zenon

LEMMA AcquireTyped == \A run \in DbRunState : Acquire(run) \in DbRunState
<1> SUFFICES ASSUME NEW run \in DbRunState PROVE Acquire(run) \in DbRunState
  OBVIOUS
<1> DEFINE free == 1..LastPort \ run.taken
           p == CHOOSE q \in free : \A o \in free : q <= o
<1>1. CASE free = {}
  BY <1>1 DEF Acquire
<1>2. CASE free # {}
  <2>1. p \in free
    <3>1. free \subseteq Nat
      OBVIOUS
    <3> HIDE DEF free
    <3> QED BY <1>2, <3>1, LowestIsThere, Zenon
  <2>2. p \in 1..LastPort /\ p \in 0..LastPort
    BY <2>1, DevDBAssumption
  <2>3. Acquire(run) = [run EXCEPT !.port = p, !.taken = run.taken \cup {p}]
    BY <1>2 DEF Acquire
  <2> HIDE DEF p
  <2>4. [run EXCEPT !.port = p] \in DbRunState
    BY <2>2 DEF DbRunState
  <2> DEFINE y == [run EXCEPT !.port = p]
  <2>5. y.taken = run.taken
    BY DEF DbRunState
  <2>6. Acquire(run) = [y EXCEPT !.taken = run.taken \cup {p}]
    BY <2>3
  <2> HIDE DEF y
  <2>7. run.taken \cup {p} \in SUBSET (1..LastPort)
    BY <2>2 DEF DbRunState
  <2> QED BY <2>4, <2>6, <2>7 DEF DbRunState, y
<1> QED BY <1>1, <1>2

LEMMA DsnTyped == \A run \in DbRunState : [run EXCEPT !.dsn = TRUE] \in DbRunState
BY DEF DbRunState

(* Whatever the daemon answers, run and container keep their types.         *)
LEMMA AdminTyped ==
  ASSUME NEW run \in DbRunState, NEW c \in Container, NEW conn \in AdminConn(run, c)
  PROVE  conn.run \in DbRunState /\ conn.c \in Container
<1>1. ASSUME NEW t \in EnsureContainer(run, c)
      PROVE  t.run \in DbRunState /\ t.c \in Container
  <2> DEFINE acquired == Acquire(run)
             settled == IF run.port = 0 THEN acquired ELSE run
  <2>1. acquired \in DbRunState
    BY AcquireTyped
  <2> HIDE DEF acquired
  <2>2. settled \in DbRunState
    BY <2>1
  <2> HIDE DEF settled
  <2>3. /\ [settled EXCEPT !.dsn = TRUE] \in DbRunState
        /\ [acquired EXCEPT !.dsn = TRUE] \in DbRunState
    BY <2>1, <2>2, DsnTyped
  <2>4. c.port \in 0..LastPort /\ acquired.port \in 0..LastPort
    BY <2>1 DEF Container, DbRunState
  <2>5. /\ Up(c.port) \in Container /\ Up(acquired.port) \in Container
        /\ [exists |-> TRUE, running |-> FALSE, port |-> acquired.port] \in Container
    BY <2>4 DEF Up, Container
  <2>6. \/ t = [run |-> run, c |-> c]
        \/ t = [run |-> [settled EXCEPT !.dsn = TRUE], c |-> Up(c.port)]
        \/ t = [run |-> acquired, c |-> c]
        \/ t = [run |-> acquired,
                c |-> [exists |-> TRUE, running |-> FALSE, port |-> acquired.port]]
        \/ t = [run |-> [acquired EXCEPT !.dsn = TRUE], c |-> Up(acquired.port)]
    BY <1>1, Zenon DEF EnsureContainer, acquired, settled
  <2> DEFINE sdsn == [settled EXCEPT !.dsn = TRUE]
             adsn == [acquired EXCEPT !.dsn = TRUE]
             down == [exists |-> TRUE, running |-> FALSE, port |-> acquired.port]
  <2>7. /\ sdsn \in DbRunState /\ adsn \in DbRunState /\ down \in Container
        /\ \/ t = [run |-> run, c |-> c] \/ t = [run |-> sdsn, c |-> Up(c.port)]
           \/ t = [run |-> acquired, c |-> c] \/ t = [run |-> acquired, c |-> down]
           \/ t = [run |-> adsn, c |-> Up(acquired.port)]
    BY <2>3, <2>5, <2>6
  <2> HIDE DEF sdsn, adsn, down
  <2> QED BY <2>1, <2>5, <2>7
<1>2. CASE conn \in {[run |-> run, c |-> c, up |-> b] : b \in BOOLEAN}
  BY <1>2
<1>3. CASE \E t \in {[run |-> run, c |-> c]} \cup EnsureContainer(run, c) :
             conn.run = t.run /\ conn.c = t.c
  BY <1>1, <1>3
<1>4. CASE settings.provider # "ghost"
  <2> DEFINE tries == IF run.dsn THEN {[run |-> run, c |-> c]} ELSE EnsureContainer(run, c)
  <2>1. conn \in {[run |-> t.run, c |-> t.c,
                   up |-> t.run.dsn /\ t.c.running /\ t.run.port = t.c.port] : t \in tries}
    BY <1>4, Zenon DEF AdminConn
  <2>2. tries \subseteq {[run |-> run, c |-> c]} \cup EnsureContainer(run, c)
    BY Zenon
  <2> HIDE DEF tries
  <2>3. PICK t \in tries : conn.run = t.run /\ conn.c = t.c
    BY <2>1
  <2> QED BY <1>3, <2>2, <2>3
<1> QED BY <1>2, <1>4, Zenon DEF AdminConn

LEMMA NoRunTyped == NoDbRun \in DbRunState
BY DevDBAssumption DEF NoDbRun, DbRunState

(* Databases go, and nobody who needs one of them is left without it.       *)
LEMMA Shrinks ==
  ASSUME DbInv, UNCHANGED <<settings, dbLog, made>>, databases' \subseteq databases,
         DbTyped', Configured',
         \A s \in DbStories : Working(s)' =>
           Working(s) /\ agent'[s].db = agent[s].db /\ (s \in robbed => s \in robbed'),
         \A d \in databases \ databases' :
           Working(d.story)' /\ TwoLowerSegments(d.story) => d.story \in robbed'
  PROVE  DbInv'
<1> USE DEF DbInv
<1>1. /\ \A s : NameOf(s)' = NameOf(s) /\ (OwnName(s)' <=> OwnName(s))
      /\ \A s : TwoLowerSegments(s)' <=> TwoLowerSegments(s)
  BY NamesStay
<1>2. DbNamed'
  BY <1>1 DEF DbNamed
<1>3. RowsNumbered'
  BY TypesStay DEF RowsNumbered
<1>4. AgentKeepsDatabase'
  <2> SUFFICES ASSUME NEW s \in DbStories, Working(s)', agent'[s].db # 0, TwoLowerSegments(s),
                      OwnName(s), s \notin robbed'
               PROVE  \E d \in databases' : d.id = agent'[s].db /\ d.name = NameOf(s)
    BY <1>1 DEF AgentKeepsDatabase
  <2>1. PICK d \in databases : d.id = agent[s].db /\ d.name = NameOf(s)
    BY DEF AgentKeepsDatabase
  <2>2. d.story = s
    BY <2>1 DEF DbNamed, OwnName
  <2>3. d \in databases'
    BY <2>2
  <2> QED BY <2>1, <2>3
<1>5. DeletedIsGone'
  BY DEF DeletedIsGone, DbRow
<1> QED BY <1>2, <1>3, <1>4, <1>5

(* What a clean-up takes is not of the stories it knows, if they are at     *)
(* work; of the others it is a mishap.                                      *)
LEMMA Cleans ==
  ASSUME DbInv, NEW stories \in SUBSET DbStories, OrphanRecovery(stories)
  PROVE  /\ container' \in Container /\ databases' \subseteq databases
         /\ robbed \subseteq robbed' /\ robbed' \subseteq DbStories
         /\ \A d \in databases \ databases' :
              Working(d.story) /\ TwoLowerSegments(d.story) => d.story \in robbed'
<1>1. PICK conn \in AdminConn(NoDbRun, container) :
        \E gone \in SUBSET (IF conn.up THEN ReleaseOrphans(stories) ELSE {}) :
          /\ container' = conn.c /\ databases' = databases \ gone
          /\ robbed' = robbed \cup {s \in {d.story : d \in gone} \ stories : agent[s].works}
  BY DEF OrphanRecovery
<1>2. PICK gone \in SUBSET (IF conn.up THEN ReleaseOrphans(stories) ELSE {}) :
        /\ container' = conn.c /\ databases' = databases \ gone
        /\ robbed' = robbed \cup {s \in {d.story : d \in gone} \ stories : agent[s].works}
  BY <1>1
<1>3. conn.c \in Container
  BY NoRunTyped, AdminTyped DEF DbInv, DbTyped
<1>4. gone \subseteq FindOrphans(stories) /\ gone \subseteq databases
  BY DEF ReleaseOrphans, FindOrphans
<1>5. robbed \subseteq robbed' /\ robbed' \subseteq DbStories
  BY <1>2, <1>4 DEF DbInv, DbTyped, DbNamed
<1>6. ASSUME NEW d \in databases \ databases', Working(d.story), TwoLowerSegments(d.story),
             d.story \notin robbed'
      PROVE  FALSE
  <2>1. d \in gone /\ d.story \in DbStories /\ d.name = NameOf(d.story)
    BY <1>2, <1>6 DEF DbInv, DbNamed
  <2>2. d.story \in stories
    BY <1>2, <1>6, <2>1 DEF Working
  <2>3. d.story \in ActiveIds(stories)
    BY <1>6, <2>2 DEF ActiveIds, Working
  <2>4. ParseStoryID(d.name) = d.story
    <3>1. d.story \in Seq(STRING) /\ settings.home[ReqOf[d.story]] \in Seq(STRING)
      BY <2>1, DevDBAssumption DEF DbInv, DbTyped
    <3> QED BY <1>6, <2>1, <3>1, ParsesBack DEF NameOf
  <2> QED BY <1>4, <2>1, <2>3, <2>4 DEF FindOrphans
<1> QED BY <1>2, <1>3, <1>5, <1>6

LEMMA SmallDbSteps ==
  ASSUME DbInv, UNCHANGED <<settings, databases, dbLog, made, agent, robbed, container>>,
         phase' \in [DbStories -> Phases], dbRun' \in [DbReqs -> DbRunState],
         \A s \in DbStories : phase'[s] = "in_progress" => phase[s] = "in_progress",
         settings.provider = "none" => dbRun' = dbRun
  PROVE  DbInv'
<1>1. DbTyped' /\ Configured'
  BY TypesStay DEF DbInv, DbTyped, Configured
<1>2. \A s \in DbStories : Working(s)' => Working(s)
  BY DEF Working
<1> QED BY <1>1, <1>2, Shrinks

LEMMA ConfigureKeeps == ASSUME DbInv, Configure PROVE DbInv'
<1>1. /\ databases = {} /\ (\A s \in DbStories : ~agent[s].works) /\ settings' \in DbSettings
      /\ UNCHANGED <<databases, dbLog, phase, agent, dbRun, container, made, robbed>>
  BY DEF Configure, DbInv, Configured
<1>2. settings'.provider \in {"docker", "ghost"} /\ settings'.home \in [DbReqs -> Seq(STRING)]
  BY <1>1, DevDBAssumption
<1>3. DbTyped' /\ Configured'
  BY <1>1, <1>2, TypesStay DEF DbInv, DbTyped, Configured
<1>4. DbNamed' /\ AgentKeepsDatabase' /\ DeletedIsGone'
  BY <1>1 DEF DbNamed, AgentKeepsDatabase, DeletedIsGone, Working
<1>5. RowsNumbered'
  BY <1>1, TypesStay DEF DbInv, RowsNumbered
<1> QED BY <1>3, <1>4, <1>5 DEF DbInv

LEMMA RunSteps ==
  ASSUME DbInv, NEW r \in DbReqs, NextDbWave(r) \/ LeaveDbRun(r) \/ ArchiveReq(r)
  PROVE  DbInv'
<1>1. dbRun \in [DbReqs -> DbRunState] /\ phase \in [DbStories -> Phases]
  BY DEF DbInv, DbTyped
<1>2. CASE NextDbWave(r)
  <2>1. /\ dbRun' = [dbRun EXCEPT ![r].first = FALSE, ![r].todo = Drafts(r)] /\ dbRun[r].on
        /\ UNCHANGED <<settings, databases, dbLog, phase, agent, container, made, robbed>>
    BY <1>2 DEF NextDbWave
  <2>2. dbRun' \in [DbReqs -> DbRunState]
    <3>1. Drafts(r) \in SUBSET DbStories
      BY DEF Drafts, StoriesOf
    <3> DEFINE y == [dbRun[r] EXCEPT !.first = FALSE]
               z == [y EXCEPT !.todo = Drafts(r)]
    <3>2. y \in DbRunState
      BY <1>1 DEF DbRunState
    <3>3. dbRun' = [dbRun EXCEPT ![r] = z]
      BY <1>1, <2>1 DEF DbRunState
    <3> HIDE DEF y
    <3>4. z \in DbRunState
      BY <3>1, <3>2 DEF DbRunState
    <3> QED BY <1>1, <3>3, <3>4
  <2>3. settings.provider # "none"
    BY <2>1 DEF DbInv, Configured, NoDbRun
  <2> QED BY <1>1, <2>1, <2>2, <2>3, SmallDbSteps
<1>3. CASE LeaveDbRun(r)
  <2>1. /\ dbRun' = [dbRun EXCEPT ![r] = NoDbRun] /\ dbRun[r].on
        /\ UNCHANGED <<settings, databases, dbLog, phase, agent, container, made, robbed>>
    BY <1>3 DEF LeaveDbRun
  <2>2. settings.provider # "none"
    BY <2>1 DEF DbInv, Configured, NoDbRun
  <2>3. dbRun' \in [DbReqs -> DbRunState]
    BY <1>1, <2>1, NoRunTyped
  <2> QED BY <1>1, <2>1, <2>2, <2>3, SmallDbSteps
<1>4. CASE ArchiveReq(r)
  <2>1. /\ phase' = [s \in DbStories |-> IF ReqOf[s] = r THEN "closed" ELSE phase[s]]
        /\ UNCHANGED <<settings, databases, dbLog, agent, dbRun, container, made, robbed>>
    BY <1>4 DEF ArchiveReq
  <2>2. /\ phase' \in [DbStories -> Phases]
        /\ \A s \in DbStories : phase'[s] = "in_progress" => phase[s] = "in_progress"
    BY <1>1, <2>1 DEF Phases
  <2> QED BY <1>1, <2>1, <2>2, SmallDbSteps
<1> QED BY <1>2, <1>3, <1>4

LEMMA DeleteDBKeeps ==
  ASSUME DbInv, NEW d \in databases, DeleteDB(d)
  PROVE  DbInv'
<1>1. /\ databases' = databases \ {d} /\ robbed' = robbed \cup {s \in {d.story} : agent[s].works}
      /\ UNCHANGED <<settings, dbLog, phase, agent, dbRun, container, made>>
  BY DEF DeleteDB
<1>2. d.story \in DbStories
  BY DEF DbInv, DbNamed
<1>3. DbTyped' /\ Configured'
  BY <1>1, <1>2, TypesStay DEF DbInv, DbTyped, Configured
<1>4. \A s \in DbStories : Working(s)' => Working(s)
  BY <1>1 DEF Working
<1>5. \A e \in databases \ databases' : Working(e.story)' => e.story \in robbed'
  BY <1>1 DEF Working
<1> QED BY <1>1, <1>3, <1>4, <1>5, Shrinks

LEMMA CollectDBsKeeps ==
  ASSUME DbInv, NEW project, CollectDBs(project)
  PROVE  DbInv'
<1> DEFINE own == {s \in DbStories : settings.home[ReqOf[s]] = project}
<1>1. /\ settings.provider # "none" /\ OrphanRecovery(own) /\ own \in SUBSET DbStories
      /\ UNCHANGED <<settings, dbLog, phase, agent, dbRun, made>>
  BY DEF CollectDBs
<1> HIDE DEF own
<1>2. /\ container' \in Container /\ databases' \subseteq databases
      /\ robbed \subseteq robbed' /\ robbed' \subseteq DbStories
      /\ \A d \in databases \ databases' :
           Working(d.story) /\ TwoLowerSegments(d.story) => d.story \in robbed'
  BY <1>1, Cleans
<1>3. DbTyped' /\ Configured'
  BY <1>1, <1>2, TypesStay DEF DbInv, DbTyped, Configured
<1>4. \A s : Working(s)' <=> Working(s)
  BY <1>1 DEF Working
<1> QED BY <1>1, <1>2, <1>3, <1>4, Shrinks

LEMMA ResumeDbKeeps ==
  ASSUME DbInv, NEW r \in DbReqs, ResumeDb(r)
  PROVE  DbInv'
<1> DEFINE drafts == {s \in StoriesOf(r) : phase'[s] = "draft"}
           y == [NoDbRun EXCEPT !.on = TRUE]
<1>1. /\ settings.provider # "none" /\ OrphanRecovery(StoriesOf(r))
      /\ StoriesOf(r) \in SUBSET DbStories
      /\ UNCHANGED <<settings, dbLog, agent, made>>
      /\ phase' = [s \in DbStories |->
                     IF ReqOf[s] = r /\ phase[s] \in {"assigned", "in_progress"} /\ ~agent[s].works
                     THEN "draft" ELSE phase[s]]
      /\ dbRun' = [dbRun EXCEPT ![r] = [y EXCEPT !.todo = drafts]]
  BY DEF ResumeDb, StoriesOf
<1>2. /\ container' \in Container /\ databases' \subseteq databases
      /\ robbed \subseteq robbed' /\ robbed' \subseteq DbStories
      /\ \A d \in databases \ databases' :
           Working(d.story) /\ TwoLowerSegments(d.story) => d.story \in robbed'
  BY <1>1, Cleans
<1>3. phase' \in [DbStories -> Phases]
  BY <1>1 DEF DbInv, DbTyped, Phases
<1>4. dbRun' \in [DbReqs -> DbRunState]
  <2>1. y \in DbRunState /\ drafts \in SUBSET DbStories
    BY NoRunTyped DEF DbRunState, StoriesOf
  <2> HIDE DEF y, drafts
  <2>2. [y EXCEPT !.todo = drafts] \in DbRunState
    BY <2>1 DEF DbRunState
  <2> QED BY <1>1, <2>2 DEF DbInv, DbTyped
<1>5. DbTyped' /\ Configured'
  BY <1>1, <1>2, <1>3, <1>4, TypesStay DEF DbInv, DbTyped, Configured
<1>6. \A s \in DbStories : Working(s)' => Working(s)
  BY <1>1 DEF Working
<1>7. \A d \in databases : d.story \in DbStories
  BY DEF DbInv, DbNamed
<1> QED BY <1>1, <1>2, <1>5, <1>6, <1>7, Shrinks

(* No recorded database is called deleted while it exists: what a step adds *)
(* or records is new, or not called deleted.                                *)
LEMMA RowsKeep ==
  ASSUME DbInv, NEW s \in DbStories, NEW id, NEW status \in DbStatus, made' = made,
         databases' \subseteq databases,
         status = "deleted" => \A d \in databases' : ~(d.story = s /\ d.id = id),
         \/ dbLog' = PutRow(dbLog, s, id, status) /\ id = ByName
         \/ dbLog' = CloseRow(dbLog, s, id, status)
  PROVE  RowsNumbered' /\ DeletedIsGone'
<1> DEFINE row == DbRow(s, id)
<1>0. /\ row[1] = s /\ row[2] = id
      /\ \A t, jd : DbRow(t, jd) = row <=> t = s /\ jd = id
  BY RowIds
<1>1. /\ \A k \in DOMAIN dbLog' : k # row => k \in DOMAIN dbLog /\ dbLog'[k] = dbLog[k]
      /\ row \in DOMAIN dbLog' => dbLog'[row] = status /\ (row \in DOMAIN dbLog \/ id = ByName)
  <2>1. CASE dbLog' = PutRow(dbLog, s, id, status) /\ id = ByName
    <3>1. /\ DOMAIN dbLog' = DOMAIN dbLog \cup {row} /\ dbLog'[row] = status
          /\ \A k \in DOMAIN dbLog : k # row => dbLog'[k] = dbLog[k]
      BY <2>1 DEF PutRow
    <3> QED BY <2>1, <3>1
  <2>2. CASE dbLog' = CloseRow(dbLog, s, id, status)
    <3>1. /\ DOMAIN dbLog' = DOMAIN dbLog /\ (row \in DOMAIN dbLog => dbLog'[row] = status)
          /\ \A k \in DOMAIN dbLog : k # row => dbLog'[k] = dbLog[k]
      BY <2>2, Close
    <3> QED BY <3>1
  <2> QED BY <2>1, <2>2
<1> HIDE DEF row
<1>2. RowsNumbered'
  <2> SUFFICES ASSUME NEW k \in DOMAIN dbLog'
               PROVE  k[1] \in DbStories /\ k[2] \in 0..made \cup {ByName} /\ dbLog'[k] \in DbStatus
    BY TypesStay DEF RowsNumbered
  <2>1. CASE k # row
    BY <1>1, <2>1 DEF DbInv, RowsNumbered
  <2>2. CASE k = row
    BY <1>0, <1>1, <2>2 DEF DbInv, RowsNumbered
  <2> QED BY <2>1, <2>2
<1>3. DeletedIsGone'
  <2> SUFFICES ASSUME NEW d \in databases', d.logged, DbRow(d.story, d.id) \in DOMAIN dbLog'
               PROVE  dbLog'[DbRow(d.story, d.id)] # "deleted"
    BY DEF DeletedIsGone
  <2>1. CASE DbRow(d.story, d.id) = row
    <3>1. d.story = s /\ d.id = id
      BY <1>0, <2>1
    <3> QED BY <1>1, <2>1, <3>1
  <2>2. CASE DbRow(d.story, d.id) # row
    BY <1>1, <2>2 DEF DbInv, DeletedIsGone
  <2> QED BY <2>1, <2>2
<1> QED BY <1>2, <1>3

(* --- the end of a pipeline, and of an SLA ----------------------------------------- *)

LEMMA Releases ==
  ASSUME DbInv, NEW s \in DbStories, NEW end, ReleaseDB(s, end), made' = made
  PROVE  /\ databases' \subseteq databases
         /\ \A d \in databases \ databases' : d.name = NameOf(s)
         /\ container' \in Container /\ dbRun' \in [DbReqs -> DbRunState]
         /\ RowsNumbered' /\ DeletedIsGone'
         /\ Held(s) = 0 \/ (end # "success" /\ settings.keep) => databases' = databases
<1> DEFINE r == ReqOf[s]
           id == Held(s)
<1>0. /\ r \in DbReqs /\ dbRun \in [DbReqs -> DbRunState] /\ container \in Container
      /\ RowsNumbered /\ DeletedIsGone
  BY DevDBAssumption DEF DbInv, DbTyped
<1>1. CASE id = 0
  <2>1. UNCHANGED <<databases, dbLog, dbRun, container>>
    BY <1>1 DEF ReleaseDB
  <2>2. RowsNumbered' /\ DeletedIsGone'
    BY <1>0, <2>1, TypesStay DEF RowsNumbered, DeletedIsGone, DbRow
  <2> QED BY <1>0, <2>1, <2>2
<1>2. CASE id # 0 /\ end # "success" /\ settings.keep
  <2>1. dbLog' = CloseRow(dbLog, s, id, "retained") /\ UNCHANGED <<databases, dbRun, container>>
    BY <1>2 DEF ReleaseDB
  <2>2. RowsNumbered' /\ DeletedIsGone'
    BY <2>1, RowsKeep DEF DbStatus
  <2> QED BY <1>0, <2>1, <2>2
<1>3. CASE id # 0 /\ ~(end # "success" /\ settings.keep)
  <2> DEFINE Left(conn, gone, done, cut) ==
               /\ container' = conn.c
               /\ dbRun' = [dbRun EXCEPT ![r] = IF cut THEN NoDbRun ELSE conn.run]
               /\ databases' = IF gone THEN DeleteOf(s, id) ELSE databases
               /\ dbLog' = IF cut THEN dbLog ELSE DeleteResult(s, id, done)
  <2>1. PICK conn \in AdminConn(dbRun[r], container) :
          \E gone \in {FALSE, conn.up} : \E done \in {FALSE, gone} : \E cut \in BOOLEAN :
            Left(conn, gone, done, cut)
    BY <1>3, Zenon DEF ReleaseDB
  <2>2. PICK gone \in {FALSE, conn.up} : \E done \in {FALSE, gone} : \E cut \in BOOLEAN :
          Left(conn, gone, done, cut)
    BY <2>1, Zenon
  <2>3. PICK done \in {FALSE, gone}, cut \in BOOLEAN : Left(conn, gone, done, cut)
    BY <2>2, Zenon
  <2>4. conn.run \in DbRunState /\ conn.c \in Container
    BY <1>0, AdminTyped
  <2>5. container' \in Container /\ dbRun' \in [DbReqs -> DbRunState]
    <3>1. (IF cut THEN NoDbRun ELSE conn.run) \in DbRunState
      BY <2>4, NoRunTyped, Zenon
    <3> QED BY <1>0, <2>3, <2>4, <3>1
  <2>6. /\ databases' \subseteq databases
        /\ \A d \in databases \ databases' : d.name = NameOf(s)
        /\ gone => \A d \in databases' : ~(d.id = id /\ d.name = NameOf(s))
    BY <2>3 DEF DeleteOf
  <2>7. RowsNumbered' /\ DeletedIsGone'
    <3>1. CASE cut
      <4>1. dbLog' = dbLog
        BY <2>3, <3>1, Zenon
      <4> QED BY <1>0, <2>6, <4>1, TypesStay DEF RowsNumbered, DeletedIsGone, DbRow
    <3>2. CASE ~cut /\ done
      <4>1. dbLog' = CloseRow(dbLog, s, id, "deleted")
        BY <2>3, <3>2, Zenon DEF DeleteResult
      <4>2. gone
        BY <3>2
      <4>3. \A d \in databases' : ~(d.story = s /\ d.id = id)
        BY <2>6, <4>2 DEF DbInv, DbNamed
      <4> QED BY <2>6, <4>1, <4>3, RowsKeep DEF DbStatus
    <3>3. CASE ~cut /\ ~done
      <4>1. dbLog' = PutRow(dbLog, s, ByName, "failed")
        BY <2>3, <3>3, Zenon DEF DeleteResult
      <4> QED BY <2>6, <4>1, RowsKeep DEF DbStatus
    <3> QED BY <3>1, <3>2, <3>3
  <2> QED BY <1>3, <2>5, <2>6, <2>7
<1> QED BY <1>1, <1>2, <1>3

(* The release of a story's database leaves the others theirs: they have    *)
(* another name.                                                            *)
LEMMA ReleaseKeeps ==
  ASSUME DbInv, NEW s \in DbStories, settings' = settings, settings.provider # "none",
         UNCHANGED made, phase' \in [DbStories -> Phases], agent' \in [DbStories -> DbAgent],
         container' \in Container, dbRun' \in [DbReqs -> DbRunState],
         robbed' \subseteq DbStories, RowsNumbered', DeletedIsGone',
         databases' \subseteq databases,
         \A d \in databases \ databases' : d.name = NameOf(s),
         \A t \in DbStories \ {s} : agent'[t] = agent[t] /\ phase'[t] = phase[t]
                                   /\ (t \in robbed => t \in robbed'),
         \/ ~agent'[s].works \/ agent'[s].db = 0
         \/ /\ databases' = databases /\ agent' = agent /\ robbed' = robbed
            /\ phase'[s] = "in_progress" => phase[s] = "in_progress"
  PROVE  DbInv'
<1>1. /\ \A t : NameOf(t)' = NameOf(t) /\ (OwnName(t)' <=> OwnName(t))
      /\ \A t : TwoLowerSegments(t)' <=> TwoLowerSegments(t)
  BY NamesStay
<1>2. DbTyped' /\ Configured' /\ DbNamed'
  BY <1>1, TypesStay DEF DbInv, DbTyped, Configured, DbNamed
<1>3. AgentKeepsDatabase'
  <2> SUFFICES ASSUME NEW t \in DbStories, Working(t)', agent'[t].db # 0, TwoLowerSegments(t),
                      OwnName(t), t \notin robbed'
               PROVE  \E d \in databases' : d.id = agent'[t].db /\ d.name = NameOf(t)
    BY <1>1 DEF AgentKeepsDatabase
  <2>1. CASE t # s
    <3>1. PICK d \in databases : d.id = agent[t].db /\ d.name = NameOf(t)
      BY <2>1 DEF DbInv, AgentKeepsDatabase, Working
    <3>2. NameOf(t) # NameOf(s)
      BY <2>1 DEF OwnName
    <3> QED BY <2>1, <3>1, <3>2
  <2>2. CASE t = s
    BY <2>2 DEF DbInv, AgentKeepsDatabase, Working
  <2> QED BY <2>1, <2>2
<1> QED BY <1>2, <1>3 DEF DbInv

LEMMA EndPipelineKeeps ==
  ASSUME DbInv, NEW s \in DbStories, EndPipeline(s)
  PROVE  DbInv'
<1>1. PICK end \in {"success", "failed", "paused"} :
        /\ ReleaseDB(s, end)
        /\ phase' = [phase EXCEPT ![s] = IF end = "success" THEN "closed" ELSE "draft"]
  BY DEF EndPipeline
<1>2. /\ agent[s].works /\ UNCHANGED <<settings, made, dbRuns>>
      /\ agent' = [agent EXCEPT ![s] = NoAgent] /\ robbed' = robbed \ {s}
  BY DEF EndPipeline, Monitored
<1>3. settings.provider # "none"
  BY <1>2 DEF DbInv, Configured
<1>4. phase \in [DbStories -> Phases] /\ agent \in [DbStories -> DbAgent]
  BY DEF DbInv, DbTyped
<1>5. /\ NoAgent \in DbAgent /\ ~NoAgent.works
      /\ (IF end = "success" THEN "closed" ELSE "draft") \in Phases
  BY DevDBAssumption DEF NoAgent, DbAgent, Phases
<1>6. /\ phase' \in [DbStories -> Phases] /\ agent' \in [DbStories -> DbAgent]
      /\ ~agent'[s].works
      /\ \A t \in DbStories \ {s} : agent'[t] = agent[t] /\ phase'[t] = phase[t]
    BY <1>1, <1>2, <1>4, <1>5
<1>7. /\ databases' \subseteq databases
      /\ \A d \in databases \ databases' : d.name = NameOf(s)
      /\ container' \in Container /\ dbRun' \in [DbReqs -> DbRunState]
      /\ RowsNumbered' /\ DeletedIsGone'
  BY <1>1, <1>2, Releases
<1>8. robbed' \subseteq DbStories /\ \A t \in DbStories \ {s} : t \in robbed => t \in robbed'
  BY <1>2 DEF DbInv, DbTyped
<1> QED BY <1>2, <1>3, <1>6, <1>7, <1>8, ReleaseKeeps

LEMMA SLABreachKeeps ==
  ASSUME DbInv, NEW s \in DbStories, SLABreach(s)
  PROVE  DbInv'
<1>1. /\ agent[s].works /\ phase[s] = "in_progress" /\ ReleaseDB(s, "failed")
      /\ UNCHANGED <<settings, made, robbed>>
      /\ agent' = IF Held(s) # 0 /\ ~settings.keep THEN [agent EXCEPT ![s].db = 0] ELSE agent
      /\ phase' = phase \/ phase' = [phase EXCEPT ![s] = "draft"]
  BY DEF SLABreach, Monitored
<1>2. settings.provider # "none"
  BY <1>1 DEF DbInv, Configured
<1>3. phase \in [DbStories -> Phases] /\ agent \in [DbStories -> DbAgent]
  BY DEF DbInv, DbTyped
<1>4. /\ phase' \in [DbStories -> Phases]
      /\ \A t \in DbStories \ {s} : phase'[t] = phase[t]
      /\ phase'[s] = "in_progress" => phase[s] = "in_progress"
  BY <1>1, <1>3 DEF Phases
<1>5. /\ databases' \subseteq databases
      /\ \A d \in databases \ databases' : d.name = NameOf(s)
      /\ container' \in Container /\ dbRun' \in [DbReqs -> DbRunState]
      /\ RowsNumbered' /\ DeletedIsGone'
      /\ Held(s) = 0 \/ settings.keep => databases' = databases
  BY <1>1, Releases
<1>6. /\ agent' \in [DbStories -> DbAgent]
      /\ \A t \in DbStories \ {s} : agent'[t] = agent[t]
      /\ agent'[s].db = 0 \/ (databases' = databases /\ agent' = agent)
  <2>1. CASE Held(s) # 0 /\ ~settings.keep
    <3>1. [agent[s] EXCEPT !.db = 0] \in DbAgent /\ [agent[s] EXCEPT !.db = 0].db = 0
      <4>1. agent[s] \in DbAgent /\ 0 \in 0..MaxDatabases + 1
        BY <1>3, DevDBAssumption
      <4> QED BY <4>1 DEF DbAgent
    <3>2. agent' = [agent EXCEPT ![s] = [agent[s] EXCEPT !.db = 0]]
      BY <1>1, <1>3, <2>1
    <3> QED BY <1>3, <3>1, <3>2
  <2>2. CASE ~(Held(s) # 0 /\ ~settings.keep)
    BY <1>1, <1>3, <1>5, <2>2
  <2> QED BY <2>1, <2>2
<1>7. robbed' \subseteq DbStories
  BY <1>1 DEF DbInv, DbTyped
<1> QED BY <1>1, <1>2, <1>4, <1>5, <1>6, <1>7, ReleaseKeeps

(* --- a spawn ----------------------------------------------------------------- *)

(* What a spawn can come to: nothing; one database, with the next number or *)
(* its name for an id; two, of which the second is handed out.              *)
LEMMA ProvisionIs ==
  ASSUME made \in 0..MaxDatabases, NEW s, NEW up, NEW p \in Provisioned(s, up)
  PROVE  \/ p.result = "failed" /\ p.new = {}
         \/ /\ p.result \in {"ok", "mute", "leak", "cut"} /\ made < MaxDatabases
            /\ p.id = IdOf(made + 1)
            /\ p.new = {Database(s, p.id, p.result \in {"ok", "leak"})}
         \/ /\ p.result = "ok" /\ made + 1 < MaxDatabases /\ settings.provider # "docker"
            /\ p.id = made + 2
            /\ p.new = {Database(s, made + 1, TRUE), Database(s, made + 2, TRUE)}
<1>1. CASE p = [result |-> "failed", new |-> {}, id |-> 0]
  BY <1>1
<1>2. CASE ~(made >= MaxDatabases) /\
           p \in {[result |-> r, new |-> {Database(s, IdOf(made + 1), r \in {"ok", "leak"})},
                   id |-> IdOf(made + 1)] : r \in {"ok", "mute", "leak", "cut"}}
  <2>1. made < MaxDatabases
    BY <1>2, DevDBAssumption
  <2>2. PICK r \in {"ok", "mute", "leak", "cut"} :
          p = [result |-> r, new |-> {Database(s, IdOf(made + 1), r \in {"ok", "leak"})},
               id |-> IdOf(made + 1)]
    BY <1>2, Zenon
  <2>3. /\ p.result = r /\ p.id = IdOf(made + 1)
        /\ p.new = {Database(s, IdOf(made + 1), r \in {"ok", "leak"})}
    BY <2>2, Zenon
  <2>4. p.new = {Database(s, p.id, p.result \in {"ok", "leak"})}
    BY <2>3, Zenon
  <2> QED BY <2>1, <2>3, <2>4
<1>3. CASE p \in ServedTwice(s)
  <2>1. /\ settings.provider # "docker" /\ ~(made + 1 >= MaxDatabases)
        /\ p = [result |-> "ok", id |-> made + 2,
                new |-> {Database(s, made + 1, TRUE), Database(s, made + 2, TRUE)}]
    BY <1>3 DEF ServedTwice
  <2>2. made + 1 < MaxDatabases
    BY <2>1, DevDBAssumption
  <2> QED BY <2>1, <2>2
<1> QED BY <1>1, <1>2, <1>3 DEF Provisioned

LEMMA NewIdNumbers ==
  ASSUME DbInv, NEW s, NEW up, NEW p \in Provisioned(s, up)
  PROVE  /\ made + Cardinality(p.new) \in made..MaxDatabases
         /\ \A d \in p.new :
              /\ d.story = s /\ d.name = NameOf(s)
              /\ d.logged => p.result \in {"ok", "leak"}
              /\ \/ d.id \in made + 1..made + Cardinality(p.new)
                 \/ d.id = ByName /\ p.id = ByName
         /\ p.result \in {"ok", "mute"} =>
              /\ \E d \in p.new : d.id = p.id
              /\ p.id \in 1..made + Cardinality(p.new) \cup {ByName}
<1> USE DevDBAssumption
<1>1. made \in 0..MaxDatabases
  BY DEF DbInv, DbTyped
<1>3. CASE p.result = "failed" /\ p.new = {}
  <2>1. Cardinality(p.new) = 0
    BY <1>3, FS_EmptySet
  <2> QED BY <1>1, <1>3, <2>1
<1>4. CASE /\ p.result \in {"ok", "mute", "leak", "cut"} /\ made < MaxDatabases
           /\ p.id = IdOf(made + 1)
           /\ p.new = {Database(s, p.id, p.result \in {"ok", "leak"})}
  <2>1. Cardinality(p.new) = 1
    BY <1>4, FS_Singleton
  <2>2. p.id = ByName \/ p.id = made + 1
    BY <1>4 DEF IdOf
  <2>3. made + 1 \in made..MaxDatabases /\ made + 1 \in made + 1..made + 1 /\ made + 1 \in 1..made + 1
    BY <1>1, <1>4
  <2> DEFINE d == Database(s, p.id, p.result \in {"ok", "leak"})
  <2>4. /\ p.new = {d} /\ d.story = s /\ d.name = NameOf(s) /\ d.id = p.id
        /\ d.logged => p.result \in {"ok", "leak"}
    BY <1>4 DEF Database
  <2> HIDE DEF d
  <2> QED BY <2>1, <2>2, <2>3, <2>4
<1>5. CASE /\ p.result = "ok" /\ made + 1 < MaxDatabases /\ settings.provider # "docker"
           /\ p.id = made + 2
           /\ p.new = {Database(s, made + 1, TRUE), Database(s, made + 2, TRUE)}
  <2> DEFINE d == Database(s, made + 1, TRUE)
             e == Database(s, made + 2, TRUE)
  <2>1. /\ d.id = made + 1 /\ d.story = s /\ d.name = NameOf(s)
        /\ e.id = made + 2 /\ e.story = s /\ e.name = NameOf(s)
        /\ p.new = {d, e}
    BY <1>5 DEF Database
  <2> HIDE DEF d, e
  <2>2. d # e
    BY <1>1, <2>1
  <2>3. Cardinality(p.new) = 2
    <3>1. Cardinality({d}) = 1 /\ IsFiniteSet({d})
      BY FS_Singleton
    <3>2. p.new = {d} \cup {e} /\ e \notin {d}
      BY <2>1, <2>2
    <3>3. Cardinality({d} \cup {e}) = Cardinality({d}) + 1
      BY <3>1, <3>2, FS_AddElement
    <3> QED BY <3>1, <3>2, <3>3
  <2>4. /\ made + 2 \in made..MaxDatabases /\ made + 1 \in made + 1..made + 2
        /\ made + 2 \in made + 1..made + 2 /\ made + 2 \in 1..made + 2
    BY <1>1, <1>5
  <2> QED BY <1>5, <2>1, <2>3, <2>4
<1> QED BY <1>1, <1>3, <1>4, <1>5, ProvisionIs

(* A new database is not one of those called deleted: its number is new, or *)
(* the row of its name is written by this very step.                        *)
LEMMA SpawnRows ==
  ASSUME DbInv, NEW s \in DbStories, NEW new, NEW id, NEW status \in DbStatus,
         NEW top \in made..MaxDatabases,
         databases' = databases \cup new, made' = top, status # "deleted",
         \/ dbLog' = PutRow(dbLog, s, id, status)
         \/ dbLog' = dbLog /\ \A d \in new : ~d.logged,
         id \in 1..top \cup {ByName},
         \A d \in new : /\ d.story = s
                        /\ \/ d.id \in made + 1..top
                           \/ d.id = ByName /\ id = ByName
  PROVE  RowsNumbered' /\ DeletedIsGone'
<1> DEFINE row == DbRow(s, id)
<1>0. /\ row[1] = s /\ row[2] = id
      /\ \A t, jd : DbRow(t, jd)[2] = jd /\ (DbRow(t, jd) = row <=> t = s /\ jd = id)
  BY RowIds
<1>1. /\ RowsNumbered /\ DeletedIsGone /\ made \in 0..MaxDatabases
      /\ 0..made \subseteq 0..top /\ 1..top \subseteq 0..top
  BY DevDBAssumption DEF DbInv, DbTyped
<1>2. \A k \in DOMAIN dbLog' : \/ k \in DOMAIN dbLog /\ dbLog'[k] = dbLog[k]
                               \/ k = row /\ dbLog'[k] = status
  BY DEF PutRow
<1>3. (\A d \in new : ~d.logged) \/ (row \in DOMAIN dbLog' /\ dbLog'[row] = status)
  BY DEF PutRow
<1> HIDE DEF row
<1>4. RowsNumbered'
  <2> SUFFICES ASSUME NEW k \in DOMAIN dbLog'
               PROVE  k[1] \in DbStories /\ k[2] \in 0..top \cup {ByName} /\ dbLog'[k] \in DbStatus
    BY TypesStay DEF RowsNumbered
  <2> QED BY <1>0, <1>1, <1>2 DEF RowsNumbered
<1>5. DeletedIsGone'
  <2> SUFFICES ASSUME NEW d \in databases', d.logged, DbRow(d.story, d.id) \in DOMAIN dbLog'
               PROVE  dbLog'[DbRow(d.story, d.id)] # "deleted"
    BY DEF DeletedIsGone
  <2>1. CASE d \notin new
    BY <1>1, <1>2, <2>1 DEF DeletedIsGone
  <2>2. CASE d \in new /\ DbRow(d.story, d.id) = row
    BY <1>3, <2>2
  <2>3. CASE d \in new /\ DbRow(d.story, d.id) # row
    <3>1. d.id \in made + 1..top /\ DbRow(d.story, d.id) \in DOMAIN dbLog
      BY <1>0, <1>2, <2>3
    <3>2. d.id \in 0..made \cup {ByName}
      BY <1>0, <1>1, <3>1 DEF RowsNumbered
    <3> QED BY <1>1, <3>1, <3>2, DevDBAssumption DEF ByName
  <2> QED BY <2>1, <2>2, <2>3
<1> QED BY <1>4, <1>5

LEMMA SpawnStoryKeeps ==
  ASSUME DbInv, NEW s \in DbStories, SpawnStory(s)
  PROVE  DbInv'
<1> DEFINE r == ReqOf[s]
           Top(p) == made + Cardinality(p.new)
           Given(p) == IF p.result \in {"ok", "mute"} THEN p.id ELSE 0
           Known(p, starts) == IF starts /\ ~dbRun[r].first THEN Given(p) ELSE 0
           Spawned(conn, p, starts) ==
             /\ databases' = databases \cup p.new /\ made' = Top(p)
             /\ RecordProvision(s, p) /\ container' = conn.c
             /\ dbRun' = [dbRun EXCEPT ![r] =
                  IF p.result = "cut" THEN NoDbRun
                  ELSE [conn.run EXCEPT !.todo = @ \ {s}, !.held = [@ EXCEPT ![s] = Known(p, starts)]]]
             /\ phase' = [phase EXCEPT ![s] = IF starts THEN "in_progress" ELSE "assigned"]
             /\ agent' = IF starts THEN [agent EXCEPT ![s] = [works |-> TRUE, db |-> Given(p)]]
                         ELSE agent
             /\ robbed' = IF starts THEN robbed \ {s} ELSE robbed
<1>1. /\ \E conn \in AdminConn(dbRun[r], container) : \E p \in Provisioned(s, conn.up) :
         \E starts \in {FALSE, p.result # "cut"} : Spawned(conn, p, starts)
      /\ s \in dbRun[r].todo /\ settings' = settings
  BY Zenon DEF SpawnStory
<1>2. PICK conn \in AdminConn(dbRun[r], container) : \E p \in Provisioned(s, conn.up) :
        \E starts \in {FALSE, p.result # "cut"} : Spawned(conn, p, starts)
  BY <1>1, Zenon
<1>3. PICK p \in Provisioned(s, conn.up) :
        \E starts \in {FALSE, p.result # "cut"} : Spawned(conn, p, starts)
  BY <1>2, Zenon
<1>4. PICK starts \in {FALSE, p.result # "cut"} : Spawned(conn, p, starts)
  BY <1>3, Zenon
<1> DEFINE top == Top(p)
           given == Given(p)
           known == Known(p, starts)
<1>5. /\ top \in made..MaxDatabases
      /\ \A d \in p.new :
           /\ d.story = s /\ d.name = NameOf(s)
           /\ d.logged => p.result \in {"ok", "leak"}
           /\ \/ d.id \in made + 1..top
              \/ d.id = ByName /\ p.id = ByName
      /\ p.result \in {"ok", "mute"} => /\ \E d \in p.new : d.id = p.id
                                        /\ p.id \in 1..top \cup {ByName}
  BY NewIdNumbers
<1>6. /\ databases' = databases \cup p.new /\ made' = top
      /\ RecordProvision(s, p) /\ container' = conn.c
      /\ dbRun' = [dbRun EXCEPT ![r] =
           IF p.result = "cut" THEN NoDbRun
           ELSE [conn.run EXCEPT !.todo = @ \ {s}, !.held = [@ EXCEPT ![s] = known]]]
      /\ phase' = [phase EXCEPT ![s] = IF starts THEN "in_progress" ELSE "assigned"]
      /\ agent' = IF starts THEN [agent EXCEPT ![s] = [works |-> TRUE, db |-> given]] ELSE agent
      /\ robbed' = IF starts THEN robbed \ {s} ELSE robbed
  BY <1>4, Zenon
<1>7. /\ given = IF p.result \in {"ok", "mute"} THEN p.id ELSE 0
      /\ known = given \/ known = 0
  BY Zenon
<1> HIDE DEF Spawned, Top, Given, Known, top, given, known
<1>8. /\ made \in 0..MaxDatabases /\ r \in DbReqs /\ dbRun \in [DbReqs -> DbRunState]
      /\ container \in Container /\ phase \in [DbStories -> Phases]
      /\ agent \in [DbStories -> DbAgent] /\ robbed \subseteq DbStories
  BY DevDBAssumption DEF DbInv, DbTyped
<1>9. given \in 0..MaxDatabases + 1 /\ known \in 0..MaxDatabases + 1 /\ top \in 0..MaxDatabases
  BY <1>5, <1>7, <1>8, DevDBAssumption DEF ByName
<1>10. settings.provider # "none"
  BY <1>1, <1>8 DEF DbInv, Configured, NoDbRun
<1>11. DbTyped' /\ Configured'
  <2>1. conn.run \in DbRunState /\ conn.c \in Container
    BY <1>8, AdminTyped
  <2>2. dbRun' \in [DbReqs -> DbRunState]
    <3> DEFINE y == [conn.run EXCEPT !.todo = @ \ {s}]
               h == [conn.run.held EXCEPT ![s] = known]
    <3>1. y \in DbRunState /\ h \in [DbStories -> 0..MaxDatabases + 1]
      BY <1>9, <2>1 DEF DbRunState
    <3>2. [conn.run EXCEPT !.todo = @ \ {s}, !.held = [@ EXCEPT ![s] = known]]
            = [y EXCEPT !.held = h]
      BY <2>1 DEF DbRunState
    <3> HIDE DEF y, h
    <3>3. [y EXCEPT !.held = h] \in DbRunState
      BY <3>1 DEF DbRunState
    <3> DEFINE z == IF p.result = "cut" THEN NoDbRun ELSE [y EXCEPT !.held = h]
    <3>4. z \in DbRunState
      BY <3>3, NoRunTyped
    <3>5. dbRun' = [dbRun EXCEPT ![r] = z]
      BY <1>6, <3>2
    <3> HIDE DEF z
    <3> QED BY <1>8, <3>4, <3>5
  <2>3. phase' \in [DbStories -> Phases]
    BY <1>6, <1>8 DEF Phases
  <2>4. agent' \in [DbStories -> DbAgent]
    <3>1. [works |-> TRUE, db |-> given] \in DbAgent
      BY <1>9 DEF DbAgent
    <3> QED BY <1>6, <1>8, <3>1
  <2>5. robbed' \subseteq DbStories
    BY <1>6, <1>8
  <2> QED BY <1>1, <1>6, <1>9, <1>10, <2>1, <2>2, <2>3, <2>4, <2>5, TypesStay
       DEF DbInv, DbTyped, Configured
<1>12. /\ \A t : NameOf(t)' = NameOf(t) /\ (OwnName(t)' <=> OwnName(t))
       /\ \A t : TwoLowerSegments(t)' <=> TwoLowerSegments(t)
  BY <1>1, NamesStay
<1>13. DbNamed'
  BY <1>5, <1>6, <1>12 DEF DbInv, DbNamed
<1>14. AgentKeepsDatabase'
  <2> SUFFICES ASSUME NEW t \in DbStories, Working(t)', agent'[t].db # 0, TwoLowerSegments(t),
                      OwnName(t), t \notin robbed'
               PROVE  \E d \in databases' : d.id = agent'[t].db /\ d.name = NameOf(t)
    BY <1>12 DEF AgentKeepsDatabase
  <2>1. CASE t # s
    <3>1. Working(t) /\ agent'[t] = agent[t] /\ t \notin robbed
      BY <1>6, <1>8, <2>1 DEF Working
    <3>2. PICK d \in databases : d.id = agent[t].db /\ d.name = NameOf(t)
      BY <3>1 DEF DbInv, AgentKeepsDatabase
    <3> QED BY <1>6, <3>1, <3>2
  <2>2. CASE t = s /\ starts
    <3>1. agent'[t].db = given
      BY <1>6, <1>8, <2>2
    <3>2. p.result \in {"ok", "mute"} /\ given = p.id
      BY <1>7, <3>1
    <3>3. PICK d \in p.new : d.id = p.id
      BY <1>5, <3>2
    <3> QED BY <1>5, <1>6, <2>2, <3>1, <3>2, <3>3
  <2>3. CASE t = s /\ ~starts
    BY <1>6, <1>8, <2>3 DEF Working
  <2> QED BY <2>1, <2>2, <2>3
<1>15. RowsNumbered' /\ DeletedIsGone'
  <2>1. CASE p.result = "ok"
    <3>1. dbLog' = PutRow(dbLog, s, p.id, "created") /\ "created" \in DbStatus
      BY <1>6, <2>1 DEF RecordProvision, DbStatus
    <3> QED BY <1>5, <1>6, <2>1, <3>1, SpawnRows
  <2>2. CASE p.result \in {"cut", "mute"}
    <3>1. dbLog' = dbLog /\ \A d \in p.new : ~d.logged
      BY <1>5, <1>6, <2>2 DEF RecordProvision
    <3>2. \A d \in p.new : /\ d.story = s
                           /\ \/ d.id \in made + 1..top
                              \/ d.id = ByName /\ ByName = ByName
      BY <1>5
    <3> QED BY <1>5, <1>6, <3>1, <3>2, SpawnRows DEF DbStatus
  <2>3. CASE p.result \notin {"ok", "cut", "mute"}
    <3>1. dbLog' = PutRow(dbLog, s, ByName, "failed") /\ "failed" \in DbStatus
      BY <1>6, <2>3 DEF RecordProvision, DbStatus
    <3>2. \A d \in p.new : /\ d.story = s
                           /\ \/ d.id \in made + 1..top
                              \/ d.id = ByName /\ ByName = ByName
      BY <1>5
    <3> QED BY <1>5, <1>6, <3>1, <3>2, SpawnRows
  <2> QED BY <2>1, <2>2, <2>3
<1> QED BY <1>11, <1>13, <1>14, <1>15 DEF DbInv

LEMMA DbInitial == DbInit => DbInv
<1> SUFFICES ASSUME DbInit PROVE DbInv
  OBVIOUS
<1>1. /\ databases = {} /\ made = 0 /\ robbed = {} /\ settings.provider = "none"
      /\ settings.home = [r \in DbReqs |-> <<>>] /\ DOMAIN dbLog = {}
      /\ dbRun = [r \in DbReqs |-> NoDbRun] /\ phase = [s \in DbStories |-> "draft"]
  BY DEF DbInit
<1>2. \A s \in DbStories : agent[s] = NoAgent /\ ~agent[s].works
  BY DEF DbInit, NoAgent
<1>3. DbTyped
  <2>1. NoAgent \in DbAgent /\ agent = [s \in DbStories |-> NoAgent]
    BY DevDBAssumption DEF DbInit, NoAgent, DbAgent
  <2>2. container \in Container
    BY DevDBAssumption DEF DbInit, Container
  <2> QED BY <1>1, <2>1, <2>2, NoRunTyped, DevDBAssumption DEF DbTyped, Phases
<1> QED BY <1>1, <1>2, <1>3
     DEF DbInv, Configured, DbNamed, RowsNumbered, AgentKeepsDatabase, DeletedIsGone, Working

LEMMA DbStep == DbInv /\ [DbNext]_dbVars => DbInv'
<1> SUFFICES ASSUME DbInv, [DbNext]_dbVars PROVE DbInv'
  OBVIOUS
<1>1. CASE Configure
  BY <1>1, ConfigureKeeps
<1>2. ASSUME NEW r \in DbReqs, ResumeDb(r) \/ NextDbWave(r) \/ LeaveDbRun(r) \/ ArchiveReq(r)
      PROVE  DbInv'
  BY <1>2, ResumeDbKeeps, RunSteps
<1>3. ASSUME NEW s \in DbStories, SpawnStory(s) \/ EndPipeline(s) \/ SLABreach(s)
      PROVE  DbInv'
  BY <1>3, SpawnStoryKeeps, EndPipelineKeeps, SLABreachKeeps
<1>6. CASE \E project \in {settings.home[r] : r \in DbReqs} : CollectDBs(project)
  BY <1>6, CollectDBsKeeps
<1>4. CASE \E d \in databases : DeleteDB(d)
  BY <1>4, DeleteDBKeeps
<1>5. CASE UNCHANGED dbVars
  <2>1. /\ UNCHANGED <<settings, databases, dbLog, made, agent, robbed, container>>
        /\ phase' = phase /\ dbRun' = dbRun
    BY <1>5 DEF dbVars
  <2> QED BY <2>1, SmallDbSteps DEF DbInv, DbTyped
<1> QED BY <1>1, <1>2, <1>3, <1>4, <1>5, <1>6 DEF DbNext

LEMMA DbHolds == DbSpec => []DbInv
<1> QED BY DbInitial, DbStep, PTL DEF DbSpec

(* An agent at work keeps the database it was told of, for any stories,     *)
(* projects, runs and clean-ups, when the story's id is of the shape        *)
(* ParseStoryID gives back, its name is no other story's, and no clean-up   *)
(* that does not know the story, operator, SLA or archive took it: the      *)
(* other releases delete another name, and the clean-ups that know the      *)
(* story read it off the name and find it active.                           *)
THEOREM AgentKeepsIt == DbSpec => []AgentKeepsDatabase
<1>1. DbInv => AgentKeepsDatabase
  BY DEF DbInv
<1> QED BY <1>1, DbHolds, PTL

(* A database that the events call deleted is gone, so a replay never gives *)
(* story_databases such a row, unless the event of that database's creation *)
(* was never appended: the number of a new database is new, the row of a    *)
(* name is written when the name is used again, and "deleted" is written    *)
(* only after the provider's yes.                                           *)
THEOREM DeletedStaysGone == DbSpec => []DeletedIsGone
<1>1. DbInv => DeletedIsGone
  BY DEF DbInv
<1> QED BY <1>1, DbHolds, PTL

(* Runs, ports, ids and rows keep their types, a database bears the name of *)
(* its story, and no more databases are made than were allowed.             *)
THEOREM DbIsTyped == DbSpec => []DbTypeOK
<1>1. DbInv => DbTypeOK
  BY DEF DbInv, DbTyped, DbNamed, RowsNumbered, DbTypeOK
<1> QED BY <1>1, DbHolds, PTL

(* --- the opportunity files ---------------------------------------------------- *)

OppFiles == {"pipeline", "sources"}
OppCommands == {"reviewed", "lost", "won", "proposal_drafted", "approved"}
OppStatus == OppCommands \cup {"", "new", "pending_approval"}
OppLine == [id : Nat \X Nat, by : Nat, status : OppStatus]
ShellState ==
  [at : {"prompt", "draft", "read", "rewrite", "write", "revenue", "feedback"},
   cmd : OppCommands \cup {""}, id : Nat \X Nat, file : OppFiles, seen : Seq(OppLine)]
OppTyped ==
  /\ scan \in [at : {"off", "scrape", "save", "discover"}, day : Nat, left : Nat]
  /\ scans \in Nat /\ shell \in [Shells -> ShellState] /\ file \in [OppFiles -> Seq(OppLine)]
  /\ exposed \in BOOLEAN

(* A command rewrites a file in which it found the line it is about; only   *)
(* one about the pipeline goes on to the ledger.                            *)
FoundIt ==
  \A s \in Shells :
    /\ shell[s].at \in {"rewrite", "write"} => HasId(shell[s].seen, shell[s].id)
    /\ shell[s].at = "revenue" \/ shell[s].cmd = "won" => shell[s].file = "pipeline"

(* Unless processes met in a file: one command rewrites it at a time, what  *)
(* that one read is what the file holds, and what it emptied is empty.      *)
Alone ==
  exposed \/
  /\ \A f \in OppFiles : \A s, t \in Rewriting(f) : s = t
  /\ \A s \in Shells :
       /\ shell[s].at = "rewrite" => shell[s].seen = file[shell[s].file]
       /\ shell[s].at = "write" => file[shell[s].file] = <<>>

(* What a file holds, or will hold when who emptied it has written it.      *)
Entries(q) == {<<q[i].id, q[i].by>> : i \in DOMAIN q}
Writing(f) == {s \in Shells : shell[s].at = "write" /\ shell[s].file = f}
Stored(f) == Entries(file[f]) \cup UNION {Entries(shell[s].seen) : s \in Writing(f)}
Owed == revenue \cup {shell[s].id : s \in {t \in Shells : shell[t].at = "revenue"}}
SavedIsStored ==
  exposed \/
  /\ \A e \in saved : e.file \in OppFiles /\ <<e.id, e.by>> \in Stored(e.file)
  /\ \A id \in Owed : \E e \in Stored("pipeline") : e[1] = id

OppInv ==
  /\ OppTyped /\ FoundIt /\ Alone /\ SavedIsStored
  /\ revenue # {} => Shells # {}

LEMMA NoEntries == Entries(<<>>) = {}
BY DEF Entries

LEMMA HasIdIs ==
  ASSUME NEW q, NEW id
  PROVE  HasId(q, id) <=> \E e \in Entries(q) : e[1] = id
<1>1. ASSUME HasId(q, id) PROVE \E e \in Entries(q) : e[1] = id
  <2>1. PICK i \in DOMAIN q : q[i].id = id
    BY <1>1 DEF HasId
  <2>2. <<q[i].id, q[i].by>> \in Entries(q) /\ <<q[i].id, q[i].by>>[1] = id
    BY <2>1 DEF Entries
  <2> QED BY <2>2
<1>2. ASSUME \E e \in Entries(q) : e[1] = id PROVE HasId(q, id)
  <2>1. PICK i \in DOMAIN q : <<q[i].id, q[i].by>>[1] = id
    BY <1>2 DEF Entries
  <2> QED BY <2>1 DEF HasId
<1> QED BY <1>1, <1>2

LEMMA AppendAdds ==
  ASSUME NEW q \in Seq(OppLine), NEW l \in OppLine
  PROVE  /\ Append(q, l) \in Seq(OppLine)
         /\ Entries(Append(q, l)) = Entries(q) \cup {<<l.id, l.by>>}
<1> DEFINE t == Append(q, l)
<1>1. /\ t \in Seq(OppLine) /\ Len(t) = Len(q) + 1 /\ t[Len(q) + 1] = l
      /\ \A i \in 1..Len(q) : t[i] = q[i]
  OBVIOUS
<1>2. /\ DOMAIN q = 1..Len(q) /\ DOMAIN t = 1..(Len(q) + 1) /\ Len(q) \in Nat
  BY <1>1
<1> HIDE DEF t
<1>3. DOMAIN t = DOMAIN q \cup {Len(q) + 1}
  BY <1>2
<1>4. Entries(t) = Entries(q) \cup {<<l.id, l.by>>}
  BY <1>1, <1>2, <1>3 DEF Entries
<1> QED BY <1>1, <1>4 DEF t

LEMMA UpdateKeepsEntries ==
  ASSUME NEW q \in Seq(OppLine), NEW id, NEW status \in OppStatus
  PROVE  /\ Updated(q, id, status) \in Seq(OppLine)
         /\ Entries(Updated(q, id, status)) = Entries(q)
<1> DEFINE u == Updated(q, id, status)
<1>1. \A l \in OppLine : /\ [l EXCEPT !.status = status] \in OppLine
                         /\ [l EXCEPT !.status = status].id = l.id
                         /\ [l EXCEPT !.status = status].by = l.by
  BY DEF OppLine
<1>2. \A i \in DOMAIN q : q[i] \in OppLine
  OBVIOUS
<1>3. DOMAIN u = DOMAIN q
  BY DEF Updated
<1>4. \A i \in DOMAIN q : u[i] \in OppLine /\ u[i].id = q[i].id /\ u[i].by = q[i].by
  BY <1>1, <1>2 DEF Updated
<1>5. u \in Seq(OppLine)
  <2>1. u = [i \in 1..Len(q) |-> u[i]]
    BY DEF Updated
  <2>2. \A i \in 1..Len(q) : u[i] \in OppLine
    BY <1>4
  <2> HIDE DEF u
  <2> QED BY <2>1, <2>2
<1>6. Entries(u) = Entries(q)
  <2> HIDE DEF u
  <2> QED BY <1>3, <1>4 DEF Entries
<1> QED BY <1>5, <1>6

LEMMA OverwritesLines ==
  ASSUME NEW q \in Seq(OppLine), NEW new \in Seq(OppLine)
  PROVE  Overwritten(q, new) \in Seq(OppLine)
<1>1. SubSeq(q, Len(new) + 1, Len(q)) \in Seq(OppLine)
  OBVIOUS
<1> QED BY <1>1 DEF Overwritten

LEMMA WrittenFromStart ==
  ASSUME NEW q \in Seq(OppLine)
  PROVE  Overwritten(<<>>, q) = q
<1>1. SubSeq(<<>>, Len(q) + 1, 0) = <<>>
  OBVIOUS
<1>2. q \o <<>> = q
  OBVIOUS
<1> QED BY <1>1, <1>2 DEF Overwritten

LEMMA OppInitial == OppInit => OppInv
<1> SUFFICES ASSUME OppInit PROVE OppInv
  OBVIOUS
<1>1. \A s \in Shells : shell[s] = AtPrompt
  BY DEF OppInit
<1>2. AtPrompt \in ShellState /\ AtPrompt.at = "prompt" /\ AtPrompt.cmd = ""
  <2>1. <<0, 0>> \in Nat \X Nat /\ <<>> \in Seq(OppLine)
    OBVIOUS
  <2> QED BY <2>1 DEF AtPrompt, ShellState, OppFiles
<1>3. OppTyped
  <2>1. <<>> \in Seq(OppLine)
    OBVIOUS
  <2> QED BY <1>2, <2>1 DEF OppInit, OppTyped, OppFiles, NoScan
<1>4. FoundIt /\ Alone
  BY <1>1, <1>2 DEF FoundIt, Alone, Rewriting
<1>5. saved = {} /\ Owed = {}
  BY <1>1, <1>2 DEF OppInit, Owed
<1> QED BY <1>3, <1>4, <1>5 DEF OppInv, SavedIsStored, OppInit

LEMMA SavedStays ==
  ASSUME SavedIsStored, exposed => exposed',
         ~exposed' => /\ \A f \in OppFiles : Stored(f) \subseteq Stored(f)'
                      /\ \A e \in saved' \ saved :
                           e.file \in OppFiles /\ <<e.id, e.by>> \in Stored(e.file)'
                      /\ \A id \in Owed' \ Owed : \E e \in Stored("pipeline")' : e[1] = id
  PROVE  SavedIsStored'
<1> SUFFICES ASSUME ~exposed'
             PROVE  /\ \A e \in saved' : e.file \in OppFiles /\ <<e.id, e.by>> \in Stored(e.file)'
                    /\ \A id \in Owed' : \E e \in Stored("pipeline")' : e[1] = id
  BY DEF SavedIsStored
<1>1. /\ \A e \in saved : e.file \in OppFiles /\ <<e.id, e.by>> \in Stored(e.file)
      /\ \A id \in Owed : \E e \in Stored("pipeline") : e[1] = id
  BY DEF SavedIsStored
<1>2. "pipeline" \in OppFiles
  BY DEF OppFiles
<1> QED BY <1>1, <1>2

(* One line more, of a file that nobody is rewriting.                       *)
LEMMA Appends ==
  ASSUME OppInv, NEW f \in OppFiles, NEW line \in OppLine, AppendLine(f, line),
         UNCHANGED <<scans, shell, revenue>>,
         scan' \in [at : {"off", "scrape", "save", "discover"}, day : Nat, left : Nat]
  PROVE  OppInv'
<1>1. /\ file \in [OppFiles -> Seq(OppLine)] /\ shell \in [Shells -> ShellState]
      /\ exposed \in BOOLEAN /\ scans \in Nat
  BY DEF OppInv, OppTyped
<1>2. /\ file' = [file EXCEPT ![f] = Append(file[f], line)]
      /\ saved' = saved \cup {[file |-> f, id |-> line.id, by |-> line.by]}
      /\ exposed' \in BOOLEAN /\ (exposed' <=> (exposed \/ Rewriting(f) # {}))
  BY <1>1 DEF AppendLine, Touch
<1>3. /\ file'[f] \in Seq(OppLine) /\ Entries(file'[f]) = Entries(file[f]) \cup {<<line.id, line.by>>}
      /\ \A g \in OppFiles : g # f => file'[g] = file[g]
      /\ file' \in [OppFiles -> Seq(OppLine)]
  BY <1>1, <1>2, AppendAdds
<1>4. OppTyped'
  BY <1>1, <1>2, <1>3 DEF OppTyped
<1>5. FoundIt'
  BY DEF OppInv, FoundIt
<1>6. Alone'
  <2> SUFFICES ASSUME ~exposed' PROVE Alone'
    BY DEF Alone
  <2>1. ~exposed /\ Rewriting(f) = {}
    BY <1>2
  <2>2. \A s \in Shells : shell[s].at \in {"rewrite", "write"} =>
                            shell[s].file # f /\ shell[s].file \in OppFiles
    BY <1>1, <2>1 DEF Rewriting, ShellState
  <2> QED BY <1>3, <2>1, <2>2 DEF OppInv, Alone, Rewriting
<1>7. SavedIsStored'
  <2>1. \A g \in OppFiles : Stored(g) \subseteq Stored(g)'
    <3> TAKE g \in OppFiles
    <3>1. Entries(file[g]) \subseteq Entries(file'[g]) /\ Writing(g)' = Writing(g)
      BY <1>3 DEF Writing
    <3> QED BY <3>1 DEF Stored
  <2>2. \A e \in saved' \ saved : e.file \in OppFiles /\ <<e.id, e.by>> \in Stored(e.file)'
    <3> TAKE e \in saved' \ saved
    <3>1. e.file = f /\ e.id = line.id /\ e.by = line.by
      BY <1>2
    <3>2. <<line.id, line.by>> \in Stored(f)'
      BY <1>3 DEF Stored
    <3> QED BY <3>1, <3>2
  <2>3. Owed' = Owed
    BY DEF Owed
  <2>4. exposed => exposed'
    BY <1>2
  <2> QED BY <2>1, <2>2, <2>3, <2>4, SavedStays DEF OppInv
<1> QED BY <1>4, <1>5, <1>6, <1>7 DEF OppInv

LEMMA ScanRunKeeps ==
  ASSUME OppInv, \/ StartScan \/ ScoreOpportunities \/ EndScan \/ UNCHANGED oppVars
  PROVE  OppInv'
<1>1. UNCHANGED <<shell, file, revenue, saved, exposed>>
  BY DEF StartScan, ScoreOpportunities, EndScan, oppVars, ShellVars, Ledgers, ScanVars
<1>2. /\ scan \in [at : {"off", "scrape", "save", "discover"}, day : Nat, left : Nat]
      /\ scans \in Nat
  BY DEF OppInv, OppTyped
<1>3. /\ scan' \in [at : {"off", "scrape", "save", "discover"}, day : Nat, left : Nat]
      /\ scans' \in Nat
  <2>1. CASE StartScan
    BY <1>2, <2>1 DEF StartScan
  <2>2. CASE ScoreOpportunities
    <3>1. PICK scores \in Scraped :
            scan' = [scan EXCEPT !.at = "save", !.left = Cardinality(Ranked(scores))]
      BY <2>2 DEF ScoreOpportunities
    <3>2. Cardinality(Ranked(scores)) \in Nat
      <4>1. DOMAIN scores = 1..1 \/ DOMAIN scores = 1..2
        BY DEF Scraped
      <4>2. IsFiniteSet(DOMAIN scores)
        <5>1. 1 \in Int /\ 2 \in Int
          OBVIOUS
        <5>2. IsFiniteSet(1..1) /\ IsFiniteSet(1..2)
          BY <5>1, FS_Interval, Zenon
        <5> QED BY <4>1, <5>2
      <4>3. Ranked(scores) \in SUBSET DOMAIN scores
        BY DEF Ranked
      <4> QED BY <4>2, <4>3, FS_Subset, FS_CardinalityType
    <3>3. scans' = scans
      BY <2>2 DEF ScoreOpportunities
    <3> DEFINE y == [scan EXCEPT !.at = "save"]
               n == Cardinality(Ranked(scores))
    <3>4. y \in [at : {"off", "scrape", "save", "discover"}, day : Nat, left : Nat]
      BY <1>2
    <3>5. scan' = [y EXCEPT !.left = n]
      BY <3>1
    <3> HIDE DEF y, n
    <3>6. [y EXCEPT !.left = n] \in [at : {"off", "scrape", "save", "discover"},
                                     day : Nat, left : Nat]
      BY <3>2, <3>4 DEF n
    <3> QED BY <1>2, <3>3, <3>5, <3>6
  <2>3. CASE EndScan
    <3> DEFINE y == [scan EXCEPT !.at = "off"]
    <3>1. y \in [at : {"off", "scrape", "save", "discover"}, day : Nat, left : Nat]
      BY <1>2
    <3>2. scan' = [y EXCEPT !.left = 0] /\ scans' = scans
      BY <2>3 DEF EndScan
    <3> HIDE DEF y
    <3> QED BY <1>2, <3>1, <3>2
  <2>4. CASE UNCHANGED oppVars
    BY <1>2, <2>4 DEF oppVars
  <2> QED BY <2>1, <2>2, <2>3, <2>4
<1>4. OppTyped'
  BY <1>1, <1>3 DEF OppInv, OppTyped
<1>5. FoundIt' /\ Alone'
  BY <1>1 DEF OppInv, FoundIt, Alone, Rewriting
<1>6. SavedIsStored'
  BY <1>1 DEF OppInv, SavedIsStored, Stored, Writing, Owed
<1> QED BY <1>1, <1>4, <1>5, <1>6 DEF OppInv

LEMMA SaveKeeps ==
  ASSUME OppInv, SaveOpportunity \/ DiscoverSource
  PROVE  OppInv'
<1>1. /\ scan \in [at : {"off", "scrape", "save", "discover"}, day : Nat, left : Nat]
      /\ scans \in Nat
  BY DEF OppInv, OppTyped
<1>2. UNCHANGED <<scans, shell, revenue>>
  BY DEF SaveOpportunity, DiscoverSource, ShellVars, Ledgers
<1>3. CASE SaveOpportunity
  <2> DEFINE line == [id |-> OpportunityId, by |-> scans, status |-> "new"]
  <2>1. line \in OppLine
    BY <1>1 DEF OppLine, OppStatus, OpportunityId
  <2>2. AppendLine("pipeline", line) /\ "pipeline" \in OppFiles
    BY <1>3 DEF SaveOpportunity, OppFiles
  <2>3. scan' \in [at : {"off", "scrape", "save", "discover"}, day : Nat, left : Nat]
    BY <1>1, <1>3 DEF SaveOpportunity
  <2> HIDE DEF line
  <2> QED BY <1>2, <2>1, <2>2, <2>3, Appends
<1>4. CASE DiscoverSource
  <2>1. DiscoveredSource \in OppLine
    BY <1>1 DEF OppLine, OppStatus, DiscoveredSource
  <2>2. AppendLine("sources", DiscoveredSource) /\ "sources" \in OppFiles
    BY <1>4 DEF DiscoverSource, OppFiles
  <2>3. scan' \in [at : {"off", "scrape", "save", "discover"}, day : Nat, left : Nat]
    BY <1>1, <1>4 DEF DiscoverSource
  <2> QED BY <1>2, <2>1, <2>2, <2>3, Appends
<1> QED BY <1>3, <1>4

LEMMA DraftsKeep ==
  ASSUME OppInv, DraftProposals
  PROVE  OppInv'
<1>1. /\ file \in [OppFiles -> Seq(OppLine)] /\ shell \in [Shells -> ShellState]
      /\ exposed \in BOOLEAN /\ scans \in Nat
      /\ scan \in [at : {"off", "scrape", "save", "discover"}, day : Nat, left : Nat]
  BY DEF OppInv, OppTyped
<1>2. UNCHANGED <<scans, shell, revenue, saved>> /\ scan' = [scan EXCEPT !.at = "discover"]
  BY DEF DraftProposals, ShellVars, Ledgers
<1>3. /\ exposed' \in BOOLEAN /\ (exposed => exposed')
      /\ ActiveBidding /\ ~exposed' => Rewriting("pipeline") = {}
  BY <1>1 DEF DraftProposals, Touch
<1>4. /\ file' \in [OppFiles -> Seq(OppLine)]
      /\ \A f \in OppFiles : Entries(file'[f]) = Entries(file[f])
      /\ file' # file => ActiveBidding
      /\ file'["sources"] = file["sources"]
  <2>1. /\ Updated(file["pipeline"], DraftId, "proposal_drafted") \in Seq(OppLine)
        /\ Entries(Updated(file["pipeline"], DraftId, "proposal_drafted"))
             = Entries(file["pipeline"])
    BY <1>1, UpdateKeepsEntries DEF OppFiles, OppStatus, OppCommands
  <2>2. CASE file' = file
    BY <1>1, <2>2
  <2>3. CASE ActiveBidding /\ file' = [file EXCEPT !["pipeline"] =
                                          Updated(file["pipeline"], DraftId, "proposal_drafted")]
    BY <1>1, <2>1, <2>3 DEF OppFiles
  <2> QED BY <2>2, <2>3 DEF DraftProposals
<1>5. OppTyped'
  BY <1>1, <1>2, <1>3, <1>4 DEF OppTyped
<1>6. FoundIt'
  BY <1>2 DEF OppInv, FoundIt
<1>7. Alone'
  <2> SUFFICES ASSUME ~exposed' PROVE Alone'
    BY DEF Alone
  <2>1. CASE file' = file
    BY <1>2, <1>3, <2>1 DEF OppInv, Alone, Rewriting
  <2>2. CASE Rewriting("pipeline") = {}
    <3>1. \A s \in Shells : shell[s].at \in {"rewrite", "write"} => shell[s].file = "sources"
      BY <1>1, <2>2 DEF Rewriting, ShellState, OppFiles
    <3> QED BY <1>2, <1>3, <1>4, <3>1 DEF OppInv, Alone, Rewriting
  <2> QED BY <1>3, <1>4, <2>1, <2>2
<1>8. SavedIsStored'
  <2>1. \A f \in OppFiles : Stored(f) \subseteq Stored(f)'
    BY <1>2, <1>4 DEF Stored, Writing
  <2>2. saved' = saved /\ Owed' = Owed
    BY <1>2 DEF Owed
  <2> QED BY <1>3, <2>1, <2>2, SavedStays DEF OppInv
<1> QED BY <1>2, <1>5, <1>6, <1>7, <1>8 DEF OppInv

(* A step of a shell that changes no file.                                  *)
LEMMA ShellKeeps ==
  ASSUME OppInv, NEW s \in Shells, NEW new \in ShellState,
         shell' = [shell EXCEPT ![s] = new],
         UNCHANGED <<scan, scans, file, saved>>,
         exposed' \in BOOLEAN, exposed => exposed',
         shell[s].at = "write" => exposed',
         new.at # "write", revenue \subseteq revenue',
         Owed' \subseteq Owed,
         new.at = "rewrite" => /\ HasId(new.seen, new.id)
                               /\ ~exposed' => /\ new.seen = file[new.file]
                                               /\ Rewriting(new.file) \ {s} = {},
         new.at = "revenue" \/ new.cmd = "won" => new.file = "pipeline"
  PROVE  OppInv'
<1>1. file \in [OppFiles -> Seq(OppLine)] /\ shell \in [Shells -> ShellState]
  BY DEF OppInv, OppTyped
<1>2. shell'[s] = new /\ \A t \in Shells : t # s => shell'[t] = shell[t]
  BY <1>1
<1>3. OppTyped'
  BY <1>1 DEF OppInv, OppTyped
<1>4. FoundIt'
  BY <1>2 DEF OppInv, FoundIt
<1>5. Alone'
  <2> SUFFICES ASSUME ~exposed' PROVE Alone'
    BY DEF Alone
  <2>1. /\ \A f \in OppFiles : \A t, u \in Rewriting(f) : t = u
        /\ \A t \in Shells :
             /\ shell[t].at = "rewrite" => shell[t].seen = file[shell[t].file]
             /\ shell[t].at = "write" => file[shell[t].file] = <<>>
    BY DEF OppInv, Alone
  <2>2. \A f \in OppFiles : \A t \in Rewriting(f)' :
          \/ t \in Rewriting(f)
          \/ t = s /\ new.at = "rewrite" /\ f = new.file
    BY <1>2 DEF Rewriting
  <2>3. new.at = "rewrite" => Rewriting(new.file) \ {s} = {}
    OBVIOUS
  <2>4. \A f \in OppFiles : \A t, u \in Rewriting(f)' : t = u
    BY <2>1, <2>2, <2>3
  <2>5. \A t \in Shells :
          /\ shell'[t].at = "rewrite" => shell'[t].seen = file'[shell'[t].file]
          /\ shell'[t].at = "write" => file'[shell'[t].file] = <<>>
    BY <1>2, <2>1
  <2> QED BY <2>4, <2>5 DEF Alone
<1>6. SavedIsStored'
  <2>1. ASSUME ~exposed', NEW f \in OppFiles PROVE Stored(f) \subseteq Stored(f)'
    <3>1. \A t \in Writing(f) : t # s
      BY <2>1 DEF Writing
    <3>2. \A t \in Writing(f) : t \in Writing(f)' /\ shell'[t].seen = shell[t].seen
      BY <1>2, <3>1 DEF Writing
    <3> QED BY <3>2 DEF Stored
  <2> QED BY <2>1, SavedStays DEF OppInv
<1> QED BY <1>3, <1>4, <1>5, <1>6 DEF OppInv

LEMMA ShellPlaces ==
  ASSUME NEW x \in ShellState, NEW at \in {"prompt", "draft", "read", "rewrite", "write",
                                           "revenue", "feedback"}
  PROVE  /\ [x EXCEPT !.at = at] \in ShellState /\ [x EXCEPT !.at = at].at = at
         /\ [x EXCEPT !.at = at].cmd = x.cmd /\ [x EXCEPT !.at = at].id = x.id
         /\ [x EXCEPT !.at = at].file = x.file /\ [x EXCEPT !.at = at].seen = x.seen
BY DEF ShellState

LEMMA ShellSees ==
  ASSUME NEW x \in ShellState, NEW q \in Seq(OppLine)
  PROVE  /\ [x EXCEPT !.seen = q] \in ShellState /\ [x EXCEPT !.seen = q].at = x.at
         /\ [x EXCEPT !.seen = q].cmd = x.cmd /\ [x EXCEPT !.seen = q].id = x.id
         /\ [x EXCEPT !.seen = q].file = x.file /\ [x EXCEPT !.seen = q].seen = q
BY DEF ShellState

LEMMA PromptIs ==
  /\ AtPrompt \in ShellState /\ AtPrompt.at = "prompt" /\ AtPrompt.cmd = ""
  /\ AtPrompt.file = "pipeline"
<1>1. <<0, 0>> \in Nat \X Nat /\ <<>> \in Seq(OppLine)
  OBVIOUS
<1> QED BY <1>1 DEF AtPrompt, ShellState, OppFiles

(* Who is owed a ledger entry after a step of s.                            *)
LEMMA OwedAfter ==
  ASSUME OppTyped, NEW s \in Shells, NEW new, shell' = [shell EXCEPT ![s] = new],
         \/ revenue' = revenue /\ (new.at = "revenue" => shell[s].at = "revenue" /\ new.id = shell[s].id)
         \/ /\ revenue' = revenue \cup {shell[s].id} /\ shell[s].at = "revenue"
            /\ new.at # "revenue"
  PROVE  Owed' \subseteq Owed
<1>1. shell'[s] = new /\ \A t \in Shells : t # s => shell'[t] = shell[t]
  BY DEF OppTyped
<1> QED BY <1>1 DEF Owed

LEMMA EnterKeeps ==
  ASSUME OppInv, NEW s \in Shells, Enter(s)
  PROVE  OppInv'
<1>1. PICK cmd \in OppCommands : \E i \in DOMAIN file[Target(cmd)] :
        shell' = [shell EXCEPT ![s] =
          [at |-> IF cmd = "proposal_drafted" THEN "draft" ELSE "read", cmd |-> cmd,
           id |-> file[Target(cmd)][i].id, file |-> Target(cmd), seen |-> <<>>]]
  BY DEF Enter, OppCommands
<1>2. PICK i \in DOMAIN file[Target(cmd)] :
        shell' = [shell EXCEPT ![s] =
          [at |-> IF cmd = "proposal_drafted" THEN "draft" ELSE "read", cmd |-> cmd,
           id |-> file[Target(cmd)][i].id, file |-> Target(cmd), seen |-> <<>>]]
  BY <1>1
<1> DEFINE id == file[Target(cmd)][i].id
           new == [at |-> IF cmd = "proposal_drafted" THEN "draft" ELSE "read", cmd |-> cmd,
                   id |-> id, file |-> Target(cmd), seen |-> <<>>]
<1>3. Target(cmd) \in OppFiles /\ (cmd = "won" => Target(cmd) = "pipeline")
  BY DEF Target, OppFiles
<1>4. id \in Nat \X Nat
  <2>1. file[Target(cmd)] \in Seq(OppLine)
    BY <1>3 DEF OppInv, OppTyped
  <2>2. file[Target(cmd)][i] \in OppLine
    BY <2>1
  <2> QED BY <2>2 DEF OppLine
<1> HIDE DEF id
<1>5. <<>> \in Seq(OppLine)
  OBVIOUS
<1>6. /\ new \in ShellState /\ new.at \in {"draft", "read"} /\ new.cmd = cmd
      /\ new.file = Target(cmd)
  BY <1>3, <1>4, <1>5 DEF ShellState
<1>7. shell' = [shell EXCEPT ![s] = new]
  BY <1>2 DEF id
<1> HIDE DEF new
<1>8. UNCHANGED <<scan, scans, file, saved, revenue, exposed>> /\ shell[s].at = "prompt"
  BY DEF Enter, ScanVars, Ledgers
<1>9. Owed' \subseteq Owed
  BY <1>6, <1>7, <1>8, OwedAfter DEF OppInv
<1>10. exposed' \in BOOLEAN
  BY <1>8 DEF OppInv, OppTyped
<1> QED BY <1>3, <1>6, <1>7, <1>8, <1>9, <1>10, ShellKeeps

LEMMA DraftProposalKeeps ==
  ASSUME OppInv, NEW s \in Shells, DraftProposal(s)
  PROVE  OppInv'
<1>1. PICK drafted \in BOOLEAN :
        shell' = [shell EXCEPT ![s] = IF drafted THEN [shell[s] EXCEPT !.at = "read"] ELSE AtPrompt]
  BY DEF DraftProposal
<1> DEFINE new == IF drafted THEN [shell[s] EXCEPT !.at = "read"] ELSE AtPrompt
<1>2. /\ new \in ShellState /\ new.at \in {"read", "prompt"}
      /\ new.cmd = "won" => new.file = "pipeline"
  <2>1. shell[s] \in ShellState /\ (shell[s].cmd = "won" => shell[s].file = "pipeline")
    BY DEF OppInv, OppTyped, FoundIt
  <2>2. new = [shell[s] EXCEPT !.at = "read"] \/ new = AtPrompt
    BY Zenon
  <2> DEFINE moved == [shell[s] EXCEPT !.at = "read"]
  <2>3. /\ moved \in ShellState /\ moved.at = "read" /\ moved.cmd = shell[s].cmd
        /\ moved.file = shell[s].file
    BY <2>1, ShellPlaces
  <2>4. new = moved \/ new = AtPrompt
    BY <2>2
  <2> HIDE DEF new, moved
  <2> QED BY <2>1, <2>3, <2>4, PromptIs
<1>3. UNCHANGED <<scan, scans, file, saved, revenue, exposed>> /\ shell[s].at = "draft"
  BY DEF DraftProposal, ScanVars, Ledgers
<1>4. shell' = [shell EXCEPT ![s] = new]
  BY <1>1
<1> HIDE DEF new
<1>5. Owed' \subseteq Owed
  BY <1>2, <1>3, <1>4, OwedAfter DEF OppInv
<1>6. exposed' \in BOOLEAN
  BY <1>3 DEF OppInv, OppTyped
<1> QED BY <1>2, <1>3, <1>4, <1>5, <1>6, ShellKeeps

LEMMA ReadFileKeeps ==
  ASSUME OppInv, NEW s \in Shells, ReadFile(s)
  PROVE  OppInv'
<1> DEFINE f == shell[s].file
           there == HasId(file[f], shell[s].id)
           moved == [shell[s] EXCEPT !.at = "rewrite"]
           new == IF there THEN [moved EXCEPT !.seen = file[f]] ELSE AtPrompt
<1>1. /\ shell[s] \in ShellState /\ f \in OppFiles /\ file[f] \in Seq(OppLine)
      /\ exposed \in BOOLEAN /\ (shell[s].cmd = "won" => f = "pipeline")
  BY DEF OppInv, OppTyped, FoundIt, ShellState
<1>2. /\ moved \in ShellState /\ moved.at = "rewrite" /\ moved.cmd = shell[s].cmd
      /\ moved.id = shell[s].id /\ moved.file = f
  BY <1>1, ShellPlaces
<1>3. shell' = [shell EXCEPT ![s] = new]
  BY <1>1 DEF ReadFile, ShellState
<1> HIDE DEF moved
<1>4. there => /\ new \in ShellState /\ new.at = "rewrite" /\ new.cmd = shell[s].cmd
               /\ new.id = shell[s].id /\ new.file = f /\ new.seen = file[f]
  BY <1>1, <1>2, ShellSees
<1>5. ~there => new = AtPrompt
  OBVIOUS
<1>6. /\ UNCHANGED <<scan, scans, file, saved, revenue>> /\ shell[s].at = "read"
      /\ exposed' \in BOOLEAN /\ (exposed' <=> (exposed \/ Rewriting(f) # {}))
  BY <1>1 DEF ReadFile, ScanVars, Ledgers, Touch
<1> HIDE DEF new, there
<1>7. /\ new \in ShellState /\ new.at \in {"prompt", "rewrite"}
      /\ new.cmd = "won" => new.file = "pipeline"
      /\ new.at = "rewrite" => /\ HasId(new.seen, new.id)
                               /\ new.seen = file[new.file] /\ new.file = f
  BY <1>1, <1>4, <1>5, PromptIs DEF there
<1> HIDE DEF f
<1>8. Owed' \subseteq Owed
  BY <1>3, <1>6, <1>7, OwedAfter DEF OppInv
<1> QED BY <1>3, <1>6, <1>7, <1>8, ShellKeeps

LEMMA LedgersKeep ==
  ASSUME OppInv, NEW s \in Shells, LogRevenue(s) \/ LogFeedback(s)
  PROVE  OppInv'
<1> DEFINE new == IF LogRevenue(s) THEN [shell[s] EXCEPT !.at = "feedback"] ELSE AtPrompt
<1>1. /\ shell[s] \in ShellState /\ exposed \in BOOLEAN
      /\ (shell[s].cmd = "won" => shell[s].file = "pipeline")
  BY DEF OppInv, OppTyped, FoundIt
<1>2. /\ new \in ShellState /\ new.at \in {"prompt", "feedback"}
      /\ new.cmd = "won" => new.file = "pipeline"
  <2>1. new = [shell[s] EXCEPT !.at = "feedback"] \/ new = AtPrompt
    BY Zenon
  <2> DEFINE moved == [shell[s] EXCEPT !.at = "feedback"]
  <2>2. /\ moved \in ShellState /\ moved.at = "feedback" /\ moved.cmd = shell[s].cmd
        /\ moved.file = shell[s].file
    BY <1>1, ShellPlaces
  <2>3. new = moved \/ new = AtPrompt
    BY <2>1
  <2> HIDE DEF new, moved
  <2> QED BY <1>1, <2>2, <2>3, PromptIs
<1>3. shell' = [shell EXCEPT ![s] = new]
  BY DEF LogRevenue, LogFeedback
<1>4. UNCHANGED <<scan, scans, file, saved, exposed>> /\ shell[s].at # "write"
  BY DEF LogRevenue, LogFeedback, ScanVars
<1>5. \/ revenue' = revenue
      \/ revenue' = revenue \cup {shell[s].id} /\ shell[s].at = "revenue"
  BY DEF LogRevenue, LogFeedback
<1> HIDE DEF new
<1>6. Owed' \subseteq Owed
  BY <1>2, <1>3, <1>5, OwedAfter DEF OppInv
<1> QED BY <1>1, <1>2, <1>3, <1>4, <1>5, <1>6, ShellKeeps

LEMMA InterruptKeeps ==
  ASSUME OppInv, NEW s \in Shells, Interrupt(s)
  PROVE  OppInv'
<1>1. /\ shell' = [shell EXCEPT ![s] = AtPrompt]
      /\ UNCHANGED <<scan, scans, file, saved, revenue>>
  BY DEF Interrupt, ScanVars, Ledgers
<1>2. exposed' \in BOOLEAN /\ (exposed => exposed') /\ (shell[s].at = "write" => exposed')
  BY DEF OppInv, OppTyped, Interrupt
<1>3. Owed' \subseteq Owed
  BY <1>1, PromptIs, OwedAfter DEF OppInv
<1> QED BY <1>1, <1>2, <1>3, PromptIs, ShellKeeps

LEMMA StoredGoesOn ==
  ASSUME NEW f, Entries(file[f]) \subseteq Entries(file'[f]),
         \A t \in Writing(f) : t \in Writing(f)' /\ shell'[t].seen = shell[t].seen
  PROVE  Stored(f) \subseteq Stored(f)'
BY DEF Stored

LEMMA TruncateKeeps ==
  ASSUME OppInv, NEW s \in Shells, Truncate(s)
  PROVE  OppInv'
<1> DEFINE f == shell[s].file
           new == [shell[s] EXCEPT !.at = "write"]
<1>1. /\ file \in [OppFiles -> Seq(OppLine)] /\ shell \in [Shells -> ShellState]
      /\ exposed \in BOOLEAN /\ f \in OppFiles /\ shell[s] \in ShellState
  BY DEF OppInv, OppTyped, ShellState
<1>2. /\ new \in ShellState /\ new.at = "write" /\ new.cmd = shell[s].cmd
      /\ new.id = shell[s].id /\ new.file = f /\ new.seen = shell[s].seen
  BY <1>1, ShellPlaces
<1>3. /\ shell[s].at = "rewrite" /\ shell' = [shell EXCEPT ![s] = new]
      /\ file' = [file EXCEPT ![f] = <<>>]
      /\ UNCHANGED <<scan, scans, revenue, saved>>
      /\ exposed' \in BOOLEAN /\ (exposed' <=> (exposed \/ Rewriting(f) \ {s} # {}))
  BY <1>1 DEF Truncate, ScanVars, Ledgers, Touch
<1> HIDE DEF new
<1>4. /\ shell'[s] = new /\ \A t \in Shells : t # s => shell'[t] = shell[t]
      /\ file'[f] = <<>> /\ \A g \in OppFiles : g # f => file'[g] = file[g]
  BY <1>1, <1>3
<1>5. OppTyped'
  <2>1. <<>> \in Seq(OppLine)
    OBVIOUS
  <2> QED BY <1>1, <1>2, <1>3, <2>1 DEF OppInv, OppTyped
<1>6. FoundIt'
  BY <1>2, <1>3, <1>4 DEF OppInv, FoundIt
<1>7. ASSUME ~exposed'
      PROVE  /\ \A g \in OppFiles : \A t, u \in Rewriting(g) : t = u
             /\ \A t \in Shells :
                  /\ shell[t].at = "rewrite" => shell[t].seen = file[shell[t].file]
                  /\ shell[t].at = "write" => file[shell[t].file] = <<>>
             /\ \A t \in Rewriting(f) : t = s
  BY <1>3, <1>7 DEF OppInv, Alone
<1>8. Alone'
  <2> SUFFICES ASSUME ~exposed' PROVE Alone'
    BY DEF Alone
  <2>1. \A g \in OppFiles : Rewriting(g)' = Rewriting(g)
    BY <1>2, <1>3, <1>4 DEF Rewriting
  <2>2. ASSUME NEW t \in Shells, t # s, shell[t].at \in {"rewrite", "write"}
        PROVE  shell[t].file # f /\ shell[t].file \in OppFiles
    BY <1>1, <1>7, <2>2 DEF Rewriting, ShellState
  <2>3. \A t \in Shells :
          /\ shell'[t].at = "rewrite" => shell'[t].seen = file'[shell'[t].file]
          /\ shell'[t].at = "write" => file'[shell'[t].file] = <<>>
    BY <1>2, <1>4, <1>7, <2>2
  <2> QED BY <1>7, <2>1, <2>3 DEF Alone
<1>9. SavedIsStored'
  <2>1. ASSUME ~exposed', NEW g \in OppFiles PROVE Stored(g) \subseteq Stored(g)'
    <3>1. \A t \in Writing(g) : t \in Writing(g)' /\ shell'[t].seen = shell[t].seen
      BY <1>3, <1>4 DEF Writing
    <3>2. CASE g = f
      <4>1. Entries(file[g]) = Entries(shell'[s].seen) /\ s \in Writing(g)'
        BY <1>2, <1>3, <1>4, <1>7, <2>1, <3>2 DEF Writing
      <4> QED BY <3>1, <3>2, <4>1 DEF Stored
    <3>3. CASE g # f
      <4>1. file'[g] = file[g]
        BY <1>4, <2>1, <3>3
      <4> QED BY <3>1, <4>1, StoredGoesOn
    <3> QED BY <3>2, <3>3
  <2>2. Owed' = Owed /\ saved' = saved
    <3>1. \A t \in Shells : (shell'[t].at = "revenue" <=> shell[t].at = "revenue")
                            /\ shell'[t].id = shell[t].id
      BY <1>2, <1>3, <1>4
    <3>2. \A t \in Shells : shell'[t].at = "revenue" => shell[t].at = "revenue"
      BY <3>1
    <3> QED BY <1>3, <3>1 DEF Owed
  <2> QED BY <1>3, <2>1, <2>2, SavedStays DEF OppInv
<1> QED BY <1>5, <1>6, <1>8, <1>9 DEF OppInv

LEMMA ShellGoesOn ==
  ASSUME NEW x \in ShellState
  PROVE  \A at \in {"revenue", "feedback"} :
           LET y == [x EXCEPT !.at = at, !.seen = <<>>]
           IN  /\ y \in ShellState /\ y.at = at /\ y.cmd = x.cmd /\ y.id = x.id
               /\ y.file = x.file
<1>1. <<>> \in Seq(OppLine)
  OBVIOUS
<1>2. ASSUME NEW at \in {"revenue", "feedback"}
      PROVE  LET y == [x EXCEPT !.at = at, !.seen = <<>>]
             IN  /\ y \in ShellState /\ y.at = at /\ y.cmd = x.cmd /\ y.id = x.id
                 /\ y.file = x.file
  <2> DEFINE z == [x EXCEPT !.at = at]
             y == [x EXCEPT !.at = at, !.seen = <<>>]
  <2>1. /\ z \in ShellState /\ z.at = at /\ z.cmd = x.cmd /\ z.id = x.id
        /\ z.file = x.file
    BY <1>2 DEF ShellState
  <2>2. y = [z EXCEPT !.seen = <<>>]
    OBVIOUS
  <2> HIDE DEF y, z
  <2>3. /\ y \in ShellState /\ y.at = z.at /\ y.cmd = z.cmd /\ y.id = z.id
        /\ y.file = z.file
    BY <1>1, <2>1, <2>2, ShellSees
  <2> QED BY <2>1, <2>3 DEF y
<1> QED BY <1>2

LEMMA WriteBackKeeps ==
  ASSUME OppInv, NEW s \in Shells, WriteBack(s)
  PROVE  OppInv'
<1> DEFINE f == shell[s].file
           lines == Updated(shell[s].seen, shell[s].id, shell[s].cmd)
           new == shell'[s]
<1>1. /\ file \in [OppFiles -> Seq(OppLine)] /\ shell \in [Shells -> ShellState]
      /\ exposed \in BOOLEAN /\ f \in OppFiles /\ shell[s] \in ShellState
      /\ shell[s].seen \in Seq(OppLine) /\ shell[s].cmd \in OppStatus
      /\ shell[s].cmd = "won" => f = "pipeline"
  BY DEF OppInv, OppTyped, FoundIt, ShellState, OppStatus
<1>2. /\ shell[s].at = "write" /\ UNCHANGED <<scan, scans, revenue, saved>>
      /\ exposed' \in BOOLEAN /\ (exposed' <=> (exposed \/ Rewriting(f) \ {s} # {}))
      /\ file' = [file EXCEPT ![f] = Overwritten(file[f], lines)]
  BY <1>1 DEF WriteBack, ScanVars, Ledgers, Touch
<1>3. lines \in Seq(OppLine) /\ Entries(lines) = Entries(shell[s].seen)
  BY <1>1, UpdateKeepsEntries
<1> HIDE DEF lines
<1>4. Overwritten(file[f], lines) \in Seq(OppLine)
  BY <1>1, <1>3, OverwritesLines
<1>5. /\ file' \in [OppFiles -> Seq(OppLine)] /\ file'[f] = Overwritten(file[f], lines)
      /\ \A g \in OppFiles : g # f => file'[g] = file[g]
  BY <1>1, <1>2, <1>4
<1>6. /\ \A t \in Shells : t # s => shell'[t] = shell[t]
      /\ new \in ShellState /\ new.at \in {"prompt", "revenue", "feedback"}
      /\ new.at = "revenue" => new.file = "pipeline" /\ f = "pipeline" /\ new.id = shell[s].id
      /\ new.cmd = "won" => new.file = "pipeline"
      /\ shell' \in [Shells -> ShellState]
  <2> DEFINE won == [shell[s] EXCEPT !.at = "revenue", !.seen = <<>>]
             lost == [shell[s] EXCEPT !.at = "feedback", !.seen = <<>>]
  <2>1. /\ won \in ShellState /\ won.at = "revenue" /\ won.cmd = shell[s].cmd
        /\ won.id = shell[s].id /\ won.file = f
    BY <1>1, ShellGoesOn
  <2>2. /\ lost \in ShellState /\ lost.at = "feedback" /\ lost.cmd = shell[s].cmd
        /\ lost.id = shell[s].id /\ lost.file = f
    BY <1>1, ShellGoesOn
  <2>3. \/ shell[s].cmd = "won" /\ shell' = [shell EXCEPT ![s] = won]
        \/ shell[s].cmd = "lost" /\ shell' = [shell EXCEPT ![s] = lost]
        \/ shell' = [shell EXCEPT ![s] = AtPrompt]
    BY Zenon DEF WriteBack
  <2> HIDE DEF won, lost
  <2>4. CASE shell[s].cmd = "won" /\ shell' = [shell EXCEPT ![s] = won]
    BY <1>1, <2>1, <2>4
  <2>5. CASE shell[s].cmd = "lost" /\ shell' = [shell EXCEPT ![s] = lost]
    BY <1>1, <2>2, <2>5
  <2>6. CASE shell' = [shell EXCEPT ![s] = AtPrompt]
    BY <1>1, <2>6, PromptIs
  <2> QED BY <2>3, <2>4, <2>5, <2>6
<1> HIDE DEF new
<1>7. OppTyped'
  BY <1>2, <1>5, <1>6 DEF OppInv, OppTyped
<1>8. FoundIt'
  BY <1>6 DEF OppInv, FoundIt, new
<1>9. ASSUME ~exposed'
      PROVE  /\ \A g \in OppFiles : \A t, u \in Rewriting(g) : t = u
             /\ \A t \in Shells :
                  /\ shell[t].at = "rewrite" => shell[t].seen = file[shell[t].file]
                  /\ shell[t].at = "write" => file[shell[t].file] = <<>>
             /\ \A t \in Rewriting(f) : t = s
             /\ file'[f] = lines
  <2>1. ~exposed /\ Rewriting(f) \subseteq {s}
    BY <1>2, <1>9
  <2>2. file[f] = <<>>
    BY <1>2, <2>1 DEF OppInv, Alone
  <2>3. file'[f] = lines
    BY <1>3, <1>5, <2>2, WrittenFromStart
  <2> QED BY <2>1, <2>3 DEF OppInv, Alone
<1>10. Alone'
  <2> SUFFICES ASSUME ~exposed' PROVE Alone'
    BY DEF Alone
  <2>1. \A g \in OppFiles : Rewriting(g)' \subseteq Rewriting(g)
    BY <1>6 DEF Rewriting, new
  <2>2. ASSUME NEW t \in Shells, t # s, shell[t].at \in {"rewrite", "write"}
        PROVE  shell[t].file # f /\ shell[t].file \in OppFiles
    BY <1>1, <1>9, <2>2 DEF Rewriting, ShellState
  <2>3. \A t \in Shells :
          /\ shell'[t].at = "rewrite" => shell'[t].seen = file'[shell'[t].file]
          /\ shell'[t].at = "write" => file'[shell'[t].file] = <<>>
    BY <1>5, <1>6, <1>9, <2>2 DEF new
  <2> QED BY <1>9, <2>1, <2>3 DEF Alone
<1>11. SavedIsStored'
  <2>1. ASSUME ~exposed', NEW g \in OppFiles PROVE Stored(g) \subseteq Stored(g)'
    <3>1. CASE g = f
      <4>1. Entries(file[f]) = {}
        BY <1>2, <1>9, <2>1, NoEntries
      <4>2. \A t \in Writing(f) : t = s
        BY <1>9, <2>1 DEF Writing, Rewriting
      <4>3. Entries(file'[f]) = Entries(shell[s].seen)
        BY <1>3, <1>9, <2>1
      <4> QED BY <3>1, <4>1, <4>2, <4>3 DEF Stored
    <3>2. CASE g # f
      <4>1. file'[g] = file[g]
        BY <1>5, <2>1, <3>2
      <4>2. \A t \in Writing(g) : t \in Writing(g)' /\ shell'[t].seen = shell[t].seen
        BY <1>6, <3>2 DEF Writing
      <4> QED BY <4>1, <4>2, StoredGoesOn
    <3> QED BY <3>1, <3>2
  <2>2. ASSUME ~exposed', NEW id \in Owed', id \notin Owed
        PROVE  \E e \in Stored("pipeline")' : e[1] = id
    <3>1. new.at = "revenue" /\ id = shell[s].id /\ f = "pipeline"
      BY <1>2, <1>6, <2>2 DEF Owed, new
    <3>2. HasId(shell[s].seen, id)
      BY <1>2, <3>1 DEF OppInv, FoundIt
    <3>3. PICK e \in Entries(shell[s].seen) : e[1] = id
      BY <3>2, HasIdIs
    <3>4. e \in Entries(file'["pipeline"])
      BY <1>3, <1>9, <2>2, <3>1
    <3> QED BY <3>3, <3>4 DEF Stored
  <2>3. saved' = saved /\ (exposed => exposed')
    BY <1>2
  <2> QED BY <2>1, <2>2, <2>3, SavedStays DEF OppInv
<1> QED BY <1>2, <1>7, <1>8, <1>10, <1>11 DEF OppInv

LEMMA OppStep == OppInv /\ [OppNext]_oppVars => OppInv'
<1> SUFFICES ASSUME OppInv, [OppNext]_oppVars PROVE OppInv'
  OBVIOUS
<1>1. CASE StartScan \/ ScoreOpportunities \/ EndScan \/ UNCHANGED oppVars
  BY <1>1, ScanRunKeeps
<1>2. CASE SaveOpportunity \/ DiscoverSource
  BY <1>2, SaveKeeps
<1>3. CASE DraftProposals
  BY <1>3, DraftsKeep
<1>4. ASSUME NEW s \in Shells, Enter(s) \/ DraftProposal(s) \/ ReadFile(s)
      PROVE  OppInv'
  BY <1>4, EnterKeeps, DraftProposalKeeps, ReadFileKeeps
<1>5. ASSUME NEW s \in Shells, Truncate(s) \/ WriteBack(s)
      PROVE  OppInv'
  BY <1>5, TruncateKeeps, WriteBackKeeps
<1>6. ASSUME NEW s \in Shells, LogRevenue(s) \/ LogFeedback(s) \/ Interrupt(s)
      PROVE  OppInv'
  BY <1>6, LedgersKeep, InterruptKeeps
<1> QED BY <1>1, <1>2, <1>3, <1>4, <1>5, <1>6 DEF OppNext

(* What was saved is in its file, or with the one command that emptied it   *)
(* and is about to write it again; and no revenue is booked for what is not *)
(* in the pipeline: for any number of shells, commands and nightly runs, as *)
(* long as no two of them met in a file.                                    *)
THEOREM SavedStaysKept == OppSpec => []SavedIsKept
<1>1. OppInv => SavedIsKept
  <2> SUFFICES ASSUME OppInv, ~exposed PROVE SavedIsKept
    BY DEF SavedIsKept
  <2>1. /\ \A e \in saved : <<e.id, e.by>> \in Stored(e.file)
        /\ \A id \in revenue : \E e \in Stored("pipeline") : e[1] = id
    BY DEF OppInv, SavedIsStored, Owed
  <2>2. ASSUME NEW e \in saved
        PROVE  \/ \E i \in DOMAIN file[e.file] :
                    file[e.file][i].id = e.id /\ file[e.file][i].by = e.by
               \/ \E s \in Shells : shell[s].at = "write" /\ shell[s].file = e.file
    <3>1. \/ <<e.id, e.by>> \in Entries(file[e.file])
          \/ Writing(e.file) # {}
      BY <2>1 DEF Stored
    <3> QED BY <3>1 DEF Entries, Writing
  <2>3. ASSUME NEW id \in revenue
        PROVE  \E s \in Shells : HasId(file["pipeline"], id) \/ shell[s].at = "write"
    <3>1. PICK s \in Shells : TRUE
      BY DEF OppInv
    <3>2. PICK e \in Stored("pipeline") : e[1] = id
      BY <2>1
    <3>3. CASE e \in Entries(file["pipeline"])
      BY <3>1, <3>2, <3>3, HasIdIs
    <3>4. CASE Writing("pipeline") # {}
      BY <3>4 DEF Writing
    <3> QED BY <3>2, <3>3, <3>4 DEF Stored
  <2> QED BY <2>2, <2>3 DEF SavedIsKept
<1>2. OppSpec => []OppInv
  BY OppInitial, OppStep, PTL DEF OppSpec
<1> QED BY <1>1, <1>2, PTL

(* --- the types of the nightly run ------------------------------------------- *)

(* The run is at one branch at a time, has an outcome when it records one,  *)
(* and opens no pull request beyond its limit but that of the self-heal.    *)
IrEntry == [name : Branches, disposition : {"implemented", "aborted", "proposed"}]
IrCounts ==
  /\ on \in Branches \cup {"none"} /\ checkedOut \in Branches \cup {"main"}
  /\ outcomeOf \in {"none", "implemented", "aborted"} /\ (night = "record" => outcomeOf # "none")
  /\ prsCreated \in 0..MaxPRsPerRun + 1
  /\ night \in {"audit", "heal", "agent", "gates", "push", "pr"} => prsCreated <= MaxPRsPerRun
  /\ changelog \subseteq IrEntry
  /\ summary \in {"none", "saved", "sent"} /\ nightRuns \in 0..MaxTries

(* What the steps that work at a branch do to the rest of the run.          *)
LEMMA WorkCounts ==
  ASSUME IrCounts, UNCHANGED <<on, prsCreated, changelog, summary, nightRuns>>,
         checkedOut' \in Branches \cup {"main"},
         \/ night' = "record" /\ outcomeOf' = "aborted"
         \/ night' \in {"gates", "push", "pr"} /\ UNCHANGED outcomeOf,
         night \in {"heal", "agent", "gates", "push", "pr"}
  PROVE  IrCounts'
BY DEF IrCounts, IrEntry, Branches

LEMMA IrCountsStep == IrInv /\ IrCounts /\ [IrNext]_irVars => IrCounts'
<1> SUFFICES ASSUME IrInv, IrCounts, [IrNext]_irVars PROVE IrCounts'
  OBVIOUS
<1>0. /\ MaxPRsPerRun \in Nat /\ MaxTries \in Nat /\ IrTyped /\ AtWork
      /\ "heal" \in Branches /\ ImproveFindings \subseteq Branches
      /\ checkedOut \in Branches \cup {"main"}
  BY ImproveAssumption DEF IrInv, IrCounts, Branches
<1>1. CASE StartRun
  <2>1. /\ night' = "audit" /\ nightRuns' = nightRuns + 1 /\ prsCreated' = 0 /\ nightRuns < MaxTries
        /\ on' = "none" /\ outcomeOf' = "none" /\ UNCHANGED <<checkedOut, changelog, summary>>
    BY <1>1 DEF StartRun, Checkout
  <2> QED BY <1>0, <2>1 DEF IrCounts, IrEntry, Branches
<1>2. CASE AuditRepo
  <2>1. /\ night = "audit" /\ night' \in {"heal", "implement"} /\ on' \in {on, "heal"}
        /\ UNCHANGED <<outcomeOf, checkedOut, prsCreated, changelog, summary, nightRuns>>
    BY <1>2 DEF AuditRepo, Checkout, Day
  <2> QED BY <1>0, <2>1 DEF IrCounts, IrEntry, Branches
<1>3. CASE HealBranch
  <2>1. /\ night = "heal" /\ UNCHANGED <<on, prsCreated, changelog, summary, nightRuns>>
    BY <1>3 DEF HealBranch, Day
  <2>2. /\ checkedOut' \in {checkedOut, "main", "heal"}
        /\ \/ night' = "record" /\ outcomeOf' = "aborted"
           \/ night' = "gates" /\ UNCHANGED outcomeOf
    BY <1>3 DEF HealBranch, Checkout, NewBranchRefused, FixesFail, Works, Aborts, BackToMain
  <2> QED BY <1>0, <2>1, <2>2, WorkCounts
<1>4. CASE NextFinding
  <2>1. /\ night = "implement" /\ prsCreated < MaxPRsPerRun
        /\ UNCHANGED <<outcomeOf, checkedOut, prsCreated, summary, nightRuns>>
    BY <1>4 DEF NextFinding, Checkout, Day
  <2>2. PICK f \in todo :
          \/ changelog' = changelog \cup {AuditEntry(f, "proposed")} /\ UNCHANGED <<night, on>>
          \/ night' = "agent" /\ on' = f /\ UNCHANGED changelog
    BY <1>4 DEF NextFinding
  <2>3. f \in Branches /\ AuditEntry(f, "proposed") \in IrEntry
    BY <1>0 DEF IrTyped, AuditEntry, IrEntry
  <2>4. changelog' \subseteq IrEntry /\ on' \in Branches \cup {"none"}
    BY <2>2, <2>3 DEF IrCounts
  <2>5. IrEntry' = IrEntry
    BY DEF IrEntry
  <2>6. night' \in {"implement", "agent"}
    BY <2>1, <2>2
  <2> QED BY <1>0, <2>1, <2>4, <2>5, <2>6 DEF IrCounts, Branches
<1>5. CASE ImplementFinding
  <2>1. /\ night = "agent" /\ UNCHANGED <<on, prsCreated, changelog, summary, nightRuns>>
        /\ on \in Branches
    BY <1>0, <1>5 DEF ImplementFinding, Day, AtWork
  <2>2. /\ checkedOut' \in {checkedOut, "main", on}
        /\ \/ night' = "record" /\ outcomeOf' = "aborted"
           \/ night' = "gates" /\ UNCHANGED outcomeOf
    BY <1>5 DEF ImplementFinding, NewBranchRefused, FixesFail, Works, Aborts, BackToMain
  <2> QED BY <1>0, <2>1, <2>2, WorkCounts
<1>6. CASE RunGates
  <2>1. /\ night = "gates" /\ UNCHANGED <<on, prsCreated, changelog, summary, nightRuns>>
        /\ checkedOut' \in {checkedOut, "main"}
        /\ \/ night' = "record" /\ outcomeOf' = "aborted"
           \/ night' = "push" /\ UNCHANGED outcomeOf
    BY <1>6 DEF RunGates, Day, Aborts, Abandon
  <2> QED BY <1>0, <2>1, WorkCounts
<1>7. CASE PushImprovement
  <2>1. /\ night = "push" /\ UNCHANGED <<on, checkedOut, prsCreated, changelog, summary, nightRuns>>
        /\ \/ night' = "record" /\ outcomeOf' = "aborted"
           \/ night' = "pr" /\ UNCHANGED outcomeOf
    BY <1>7 DEF PushImprovement, Day, Aborts
  <2> QED BY <1>0, <2>1, WorkCounts
<1>8. CASE OpenPR
  <2>1. /\ night = "pr" /\ UNCHANGED <<on, changelog, summary, nightRuns>>
        /\ night' = "record" /\ outcomeOf' \in {"implemented", "aborted"}
        /\ checkedOut' \in {checkedOut, "main"} /\ prsCreated' \in {prsCreated, prsCreated + 1}
    BY <1>8 DEF OpenPR, Day, Aborts, Checkout, BackToMain
  <2>2. prsCreated' \in 0..MaxPRsPerRun + 1
    BY <1>0, <2>1 DEF IrCounts
  <2> QED BY <1>0, <2>1, <2>2 DEF IrCounts, IrEntry, Branches
<1>9. CASE RecordResult
  <2>1. /\ night = "record" /\ night' = "implement" /\ on' = "none" /\ outcomeOf' = "none"
        /\ changelog' = changelog \cup {AuditEntry(on, outcomeOf)}
        /\ UNCHANGED <<checkedOut, prsCreated, summary, nightRuns>>
    BY <1>9 DEF RecordResult, Checkout, Day
  <2>2. AuditEntry(on, outcomeOf) \in IrEntry
    BY <1>0, <2>1 DEF IrCounts, AtWork, AuditEntry, IrEntry
  <2>3. changelog' \subseteq IrEntry /\ IrEntry' = IrEntry
    BY <2>1, <2>2 DEF IrCounts, IrEntry, Branches
  <2> QED BY <1>0, <2>1, <2>3 DEF IrCounts, Branches
<1>10. CASE SaveSummary \/ SendReport
  <2>1. /\ night' \in {"email", "off"} /\ summary' \in {"saved", "sent"}
        /\ UNCHANGED <<on, outcomeOf, checkedOut, prsCreated, changelog, nightRuns>>
    BY <1>10 DEF SaveSummary, SendReport, Checkout
  <2> QED BY <1>0, <2>1 DEF IrCounts, IrEntry, Branches
<1>11. CASE KillNight
  <2>1. /\ night' = "off" /\ on' = "none" /\ outcomeOf' = "none"
        /\ UNCHANGED <<checkedOut, prsCreated, changelog, summary, nightRuns>>
    BY <1>11 DEF KillNight, Checkout
  <2> QED BY <1>0, <2>1 DEF IrCounts, IrEntry, Branches
<1>12. CASE CleanCheckout
  <2>1. /\ checkedOut' = "main"
        /\ UNCHANGED <<night, on, outcomeOf, prsCreated, changelog, summary, nightRuns>>
    BY <1>12 DEF CleanCheckout, Day
  <2> QED BY <1>0, <2>1 DEF IrCounts, IrEntry, Branches
<1>13. CASE UNCHANGED irVars
  BY <1>13 DEF irVars, IrCounts, IrEntry, Branches
<1> QED BY <1>1, <1>2, <1>3, <1>4, <1>5, <1>6, <1>7, <1>8, <1>9, <1>10, <1>11, <1>12, <1>13
        DEF IrNext

(* A night opens no more pull requests than it may, but for the one of the  *)
(* self-heal where none is allowed, and what it writes into the changelog   *)
(* has a name and an outcome.                                               *)
THEOREM IrIsTyped == IrSpec => []IrTypeOK
<1>1. IrInit => IrCounts
  BY ImproveAssumption DEF IrInit, IrCounts
<1>2. IrInv /\ IrCounts => IrTypeOK
  BY DEF IrInv, IrTyped, IrCounts, IrEntry, BranchState, IrTypeOK
<1> QED BY <1>1, <1>2, IrInitial, IrStep, IrCountsStep, PTL DEF IrSpec

(* --- the types of the experiments ------------------------------------------- *)

(* A score is the diff's, moved by one only next to a tie.                  *)
ExpCounts(x) == x.diff \in Diffs \cup {NoDiff} /\ x.score \in -3..3
ArCounts ==
  /\ coordinator \in {"off", "on", "cancelled"} /\ evolved \in {"none", "branch", "pr"}
  /\ \A e \in Experiments : ExpCounts(exp[e])
  /\ \A d \in Diffs : memory[d] \in {"unseen", "win", "loss"}
  /\ Cardinality(wave) \in {0, Parallel}

LEMMA FreshCounts == ExpCounts(Fresh) /\ ExpCounts([Fresh EXCEPT !.at = "end"])
BY DEF ExpCounts, Fresh, NoDiff

LEMMA DiffScores == \A d \in Diffs \cup {NoDiff} : d.score \in -3..3
BY AutoresearchAssumption DEF NoDiff

(* One experiment goes on, the coordinator does nothing.                    *)
LEMMA OneCounts ==
  ASSUME ArInv, ArCounts, NEW e \in wave, UNCHANGED Rest, NEW x, ExpCounts(x),
         exp' = [exp EXCEPT ![e] = x],
         \A d \in Diffs : memory'[d] \in {"unseen", "win", "loss"}
  PROVE  ArCounts'
<1>1. exp = [y \in Experiments |-> exp[y]] /\ e \in Experiments
  BY InWave
<1>2. \A y \in Experiments : exp'[y] = IF y = e THEN x ELSE exp[y]
  BY <1>1
<1>3. \A y \in Experiments : ExpCounts(exp[y])'
  BY <1>2 DEF ArCounts, ExpCounts
<1> QED BY <1>3 DEF ArCounts, Rest

LEMMA RememberedCounts ==
  ASSUME ArInv, ArCounts, NEW d0, NEW o \in {"win", "loss"}, Remember(d0, o)
  PROVE  \A d \in Diffs : memory'[d] \in {"unseen", "win", "loss"}
BY Remembered DEF ArInv, ArCounts

LEMMA EndCounts ==
  ASSUME ArInv, ArCounts, NEW e \in wave, UNCHANGED Rest,
         Discard(e) \/ Fail(e) \/ Keep(e)
  PROVE  ArCounts'
<1>1. e \in Experiments /\ IsExp(exp[e]) /\ ExpCounts(exp[e])
  BY InWave DEF ArCounts
<1>2. ExpCounts([exp[e] EXCEPT !.at = "end"])
  BY <1>1, ExpAt DEF ExpCounts
<1>3. CASE Discard(e)
  <2>1. exp' = [exp EXCEPT ![e] = [Fresh EXCEPT !.at = "end"]] /\ Remember(exp[e].diff, "loss")
    BY <1>3 DEF Discard, Ends
  <2> QED BY <2>1, FreshCounts, RememberedCounts, OneCounts
<1>4. CASE Fail(e)
  <2>1. exp' = [exp EXCEPT ![e] = [exp[e] EXCEPT !.at = "end"]] /\ Remember(exp[e].diff, "loss")
    BY <1>4 DEF Fail, Ends
  <2> QED BY <2>1, <1>2, RememberedCounts, OneCounts
<1>5. CASE Keep(e)
  <2>1. exp' = [exp EXCEPT ![e] = [exp[e] EXCEPT !.at = "end"]] /\ Remember(exp[e].diff, "win")
    BY <1>5 DEF Keep, Ends
  <2> QED BY <2>1, <1>2, RememberedCounts, OneCounts
<1> QED BY <1>3, <1>4, <1>5

LEMMA GoesCounts ==
  ASSUME ArInv, ArCounts, NEW e \in wave, UNCHANGED Rest, NEW x, ExpCounts(x), Goes(e, x)
  PROVE  ArCounts'
<1>1. exp' = [exp EXCEPT ![e] = x] /\ UNCHANGED memory
  BY DEF Goes
<1>2. \A d \in Diffs : memory'[d] \in {"unseen", "win", "loss"}
  BY <1>1 DEF ArCounts
<1> QED BY <1>1, <1>2, OneCounts

LEMMA RunCounts ==
  ASSUME ArInv, ArCounts, NEW e \in wave,
         \/ CreateExperiment(e) \/ RunExperiment(e) \/ InspectDiff(e) \/ MeasureMetric(e)
         \/ JudgeDiff(e) \/ RouteWinning(e) \/ RoutePR(e) \/ RouteAuto(e) \/ KeepMerged(e)
  PROVE  ArCounts'
<1>0. /\ e \in Experiments /\ IsExp(exp[e]) /\ ExpCounts(exp[e])
      /\ \A d \in Diffs : memory[d] \in {"unseen", "win", "loss"}
  BY InWave DEF ArCounts
<1>1. CASE CreateExperiment(e)
  <2>1. UNCHANGED Rest
    BY <1>1 DEF CreateExperiment
  <2>2. CASE exp' = [exp EXCEPT ![e].at = "agent"] /\ UNCHANGED memory
    <3>1. ExpCounts([exp[e] EXCEPT !.at = "agent"])
      BY <1>0, ExpAt DEF ExpCounts
    <3>2. exp' = [exp EXCEPT ![e] = [exp[e] EXCEPT !.at = "agent"]]
      BY <2>2
    <3>3. \A d \in Diffs : memory'[d] \in {"unseen", "win", "loss"}
      BY <1>0, <2>2
    <3> QED BY <2>1, <3>1, <3>2, <3>3, OneCounts
  <2> QED BY <1>1, <2>1, <2>2, EndCounts DEF CreateExperiment
<1>2. CASE RunExperiment(e)
  <2>1. UNCHANGED Rest
    BY <1>2 DEF RunExperiment
  <2>2. CASE \E d \in Diffs \cup {NoDiff} : Goes(e, [exp[e] EXCEPT !.at = "diff", !.diff = d])
    <3>1. PICK d \in Diffs \cup {NoDiff} : Goes(e, [exp[e] EXCEPT !.at = "diff", !.diff = d])
      BY <2>2
    <3>2. ExpCounts([exp[e] EXCEPT !.at = "diff", !.diff = d])
      BY <1>0 DEF ExpCounts, IsExp
    <3> QED BY <2>1, <3>1, <3>2, GoesCounts
  <2> QED BY <1>2, <2>1, <2>2, EndCounts DEF RunExperiment
<1>3. CASE InspectDiff(e)
  <2>1. UNCHANGED Rest
    BY <1>3 DEF InspectDiff
  <2>2. \A read \in BOOLEAN : ExpCounts([exp[e] EXCEPT !.at = "measure", !.read = read])
    BY <1>0 DEF ExpCounts, IsExp
  <2> QED BY <1>3, <2>1, <2>2, GoesCounts, EndCounts DEF InspectDiff
<1>4. CASE MeasureMetric(e)
  <2>1. UNCHANGED Rest
    BY <1>4 DEF MeasureMetric
  <2>2. ASSUME NEW n \in Nudges(exp[e].diff.score)
        PROVE  ExpCounts([exp[e] EXCEPT !.at = "judge", !.score = exp[e].diff.score + n])
    <3>1. exp[e].diff \in Diffs \cup {NoDiff} /\ exp[e].diff.score \in -3..3
      BY <1>0, DiffScores DEF ExpCounts
    <3>2. exp[e].diff.score + n \in -3..3
      BY <3>1 DEF Nudges
    <3> QED BY <1>0, <3>1, <3>2 DEF ExpCounts, IsExp
  <2> QED BY <1>4, <2>1, <2>2, GoesCounts, EndCounts DEF MeasureMetric
<1>5. CASE JudgeDiff(e)
  <2>1. UNCHANGED Rest
    BY <1>5 DEF JudgeDiff
  <2>2. ASSUME NEW reply \in Replies, Remember(exp[e].diff, "loss"),
               exp' = [exp EXCEPT ![e].at = "gate", ![e].verdict = reply]
        PROVE  ArCounts'
    <3>1. exp' = [exp EXCEPT ![e] = [exp[e] EXCEPT !.at = "gate", !.verdict = reply]]
      BY <2>2, InWave
    <3>2. ExpCounts([exp[e] EXCEPT !.at = "gate", !.verdict = reply])
      BY <1>0 DEF ExpCounts, IsExp
    <3> QED BY <2>1, <2>2, <3>1, <3>2, RememberedCounts, OneCounts
  <2> QED BY <1>5, <2>1, <2>2, EndCounts DEF JudgeDiff
<1>6. CASE RouteWinning(e)
  BY <1>6, EndCounts DEF RouteWinning
<1>7. CASE RoutePR(e)
  <2>1. ExpCounts([exp[e] EXCEPT !.at = "merge"])
    BY <1>0, ExpAt DEF ExpCounts
  <2> QED BY <1>7, <2>1, EndCounts, GoesCounts DEF RoutePR
<1>8. CASE RouteAuto(e)
  <2>1. UNCHANGED Rest
    BY <1>8 DEF RouteAuto
  <2>2. CASE exp' = [exp EXCEPT ![e].at = "merged"] /\ UNCHANGED memory
    <3>1. ExpCounts([exp[e] EXCEPT !.at = "merged"])
      BY <1>0, ExpAt DEF ExpCounts
    <3>2. exp' = [exp EXCEPT ![e] = [exp[e] EXCEPT !.at = "merged"]]
      BY <2>2
    <3>3. \A d \in Diffs : memory'[d] \in {"unseen", "win", "loss"}
      BY <1>0, <2>2
    <3> QED BY <2>1, <3>1, <3>2, <3>3, OneCounts
  <2> QED BY <1>8, <2>1, <2>2, EndCounts DEF RouteAuto
<1>9. CASE KeepMerged(e)
  BY <1>9, EndCounts DEF KeepMerged
<1> QED BY <1>1, <1>2, <1>3, <1>4, <1>5, <1>6, <1>7, <1>8, <1>9

LEMMA ArCountsStep == ArInv /\ ArCounts /\ [ArNext]_arVars => ArCounts'
<1> SUFFICES ASSUME ArInv, ArCounts, [ArNext]_arVars PROVE ArCounts'
  OBVIOUS
<1>0. Cardinality({}) = 0 /\ \A e \in Experiments : IsExp(exp[e]) /\ ExpCounts(exp[e])
  BY FS_EmptySet DEF ArInv, ArTyped, ArCounts
<1>1. CASE StartCoordinator \/ StopCoordinator \/ CoordinatorEnds \/ EvolveProgram \/ UNCHANGED arVars
  <2>1. /\ UNCHANGED <<exp, memory>> /\ wave' \in {wave, {}}
        /\ coordinator' \in {coordinator, "off", "on", "cancelled"}
        /\ evolved' \in {evolved, "branch", "pr"}
    BY <1>1 DEF StartCoordinator, StopCoordinator, CoordinatorEnds, EvolveProgram, arVars, Forge
  <2> QED BY <1>0, <2>1 DEF ArCounts, ExpCounts
<1>2. CASE KillCoordinator \/ NextWave
  <2>1. /\ UNCHANGED <<memory, evolved>> /\ coordinator' \in {coordinator, "off"}
        /\ Cardinality(wave') \in {0, Parallel}
    BY <1>0, <1>2 DEF KillCoordinator, NextWave, Forge
  <2>2. \A e \in Experiments :
          exp'[e] \in {exp[e], [exp[e] EXCEPT !.at = "end"], [exp[e] EXCEPT !.at = "start"]}
    BY <1>2 DEF KillCoordinator, NextWave
  <2>3. \A e \in Experiments : ExpCounts(exp[e])'
    <3> SUFFICES ASSUME NEW e \in Experiments PROVE ExpCounts(exp'[e])
      BY DEF ExpCounts
    <3>1. ExpCounts([exp[e] EXCEPT !.at = "end"]) /\ ExpCounts([exp[e] EXCEPT !.at = "start"])
      BY <1>0, ExpAt DEF ExpCounts
    <3> QED BY <1>0, <2>2, <3>1
  <2> QED BY <2>1, <2>3 DEF ArCounts
<1> QED BY <1>1, <1>2, RunCounts DEF ArNext

(* Every score is that of a diff, moved by one at most next to a tie; a     *)
(* wave is as large as was configured or gone; the bank knows wins, losses *)
(* and what it has not seen.                                                *)
THEOREM ArIsTyped == ArSpec => []ArTypeOK
<1>1. ArInit => ArCounts
  <2> SUFFICES ASSUME ArInit PROVE ArCounts
    OBVIOUS
  <2>1. Cardinality(wave) = 0
    BY FS_EmptySet DEF ArInit
  <2>2. \A e \in Experiments : ExpCounts(exp[e])
    BY FreshCounts DEF ArInit
  <2> QED BY <2>1, <2>2 DEF ArInit, ArCounts
<1>2. ArCounts => ArTypeOK
  BY DEF ArCounts, ExpCounts, ArTypeOK
<1>3. ArInv /\ ArCounts /\ [ArNext]_arVars => ArInv' /\ ArCounts'
  BY ArStep, ArCountsStep
<1> QED BY ArInitial, <1>1, <1>2, <1>3, PTL DEF ArSpec

(* --- the types of the opportunity files --------------------------------------- *)

(* No line, and no command, is about anything but what one of the runs so   *)
(* far can have numbered: a day is not counted before a run of its own, and *)
(* a run ranks two at most.                                                 *)
OppEntries == OppIds \X (1..MaxScans)
OppBounded ==
  /\ scans \in 0..MaxScans /\ commands \in 0..MaxCommands
  /\ scan.day \in 0..scans /\ scan.left \in 0..2 /\ (scan.at # "off" => scans > 0)
  /\ \A f \in OppFiles : Entries(file[f]) \subseteq OppEntries
  /\ \A s \in Shells : shell[s].id \in OppIds /\ Entries(shell[s].seen) \subseteq OppEntries

LEMMA RankedTwo == \A scores \in Scraped : Cardinality(Ranked(scores)) \in 0..2
<1> SUFFICES ASSUME NEW scores \in Scraped PROVE Cardinality(Ranked(scores)) \in 0..2
  OBVIOUS
<1>1. Ranked(scores) \subseteq {1, 2}
  BY DEF Scraped, Ranked
<1>2. IsFiniteSet({1}) /\ Cardinality({1}) = 1
  BY FS_Singleton
<1>3. {1, 2} = {1} \cup {2} /\ 2 \notin {1}
  OBVIOUS
<1>4. IsFiniteSet({1, 2}) /\ Cardinality({1, 2}) = 2
  BY <1>2, <1>3, FS_AddElement
<1>5. IsFiniteSet(Ranked(scores)) /\ Cardinality(Ranked(scores)) <= 2
  BY <1>1, <1>4, FS_Subset
<1>6. Cardinality(Ranked(scores)) \in Nat
  BY <1>5, FS_CardinalityType
<1> QED BY <1>5, <1>6

LEMMA OverwrittenEntries ==
  ASSUME NEW q \in Seq(OppLine), NEW new \in Seq(OppLine)
  PROVE  Entries(Overwritten(q, new)) \subseteq Entries(new) \cup Entries(q)
<1> DEFINE rest == SubSeq(q, Len(new) + 1, Len(q))
           t == new \o rest
<1>1. /\ rest \in Seq(OppLine) /\ Len(new) \in Nat /\ Len(q) \in Nat
      /\ \A i \in 1..Len(rest) : Len(new) + i \in DOMAIN q /\ rest[i] = q[Len(new) + i]
  OBVIOUS
<1> HIDE DEF rest
<1>2. /\ DOMAIN t = 1..(Len(new) + Len(rest)) /\ Len(rest) \in Nat
      /\ \A i \in 1..Len(new) : t[i] = new[i]
      /\ \A i \in 1..Len(rest) : t[Len(new) + i] = rest[i]
  BY <1>1, Joined
<1> HIDE DEF t
<1>3. ASSUME NEW i \in DOMAIN t
      PROVE  (\E j \in DOMAIN new : t[i] = new[j]) \/ (\E j \in DOMAIN q : t[i] = q[j])
  <2>1. CASE i <= Len(new)
    BY <1>1, <1>2, <2>1
  <2>2. CASE i > Len(new)
    <3>1. i - Len(new) \in 1..Len(rest) /\ Len(new) + (i - Len(new)) = i
      BY <1>1, <1>2, <2>2
    <3> QED BY <1>1, <1>2, <3>1
  <2> QED BY <1>1, <1>2, <2>1, <2>2
<1>4. Entries(t) \subseteq Entries(new) \cup Entries(q)
  BY <1>3 DEF Entries
<1> QED BY <1>4 DEF Overwritten, t, rest

(* A shell is left with an id and a view of a file that it had, or that it  *)
(* takes from a line of one.                                                *)
LEMMA ShellBounded ==
  ASSUME OppInv, OppBounded, NEW s \in Shells, NEW new, shell' = [shell EXCEPT ![s] = new],
         new.id \in OppIds, Entries(new.seen) \subseteq OppEntries,
         UNCHANGED <<scan, scans>>, commands' \in 0..MaxCommands,
         \A f \in OppFiles : Entries(file'[f]) \subseteq OppEntries
  PROVE  OppBounded'
<1>1. shell'[s] = new /\ \A t \in Shells : t # s => shell'[t] = shell[t]
  BY DEF OppInv, OppTyped
<1>2. \A t \in Shells : shell'[t].id \in OppIds /\ Entries(shell'[t].seen) \subseteq OppEntries
  BY <1>1 DEF OppBounded
<1>3. OppIds' = OppIds /\ OppEntries' = OppEntries
  BY DEF OppIds, OppEntries
<1>4. \A f \in OppFiles : Entries(file[f])' \subseteq OppEntries
  BY DEF Entries
<1>5. \A t \in Shells : Entries(shell[t].seen)' \subseteq OppEntries
  BY <1>2 DEF Entries
<1> QED BY <1>2, <1>3, <1>4, <1>5 DEF OppBounded

LEMMA PromptBounded == AtPrompt.id \in OppIds /\ Entries(AtPrompt.seen) \subseteq OppEntries
BY NoEntries, OpportunitiesAssumption DEF AtPrompt, OppIds

LEMMA ShellStepBounded ==
  ASSUME OppInv, OppBounded, NEW s \in Shells,
         \/ Enter(s) \/ DraftProposal(s) \/ ReadFile(s) \/ Truncate(s)
         \/ WriteBack(s) \/ LogRevenue(s) \/ LogFeedback(s) \/ Interrupt(s)
  PROVE  OppBounded'
<1>1. /\ shell[s] \in ShellState /\ shell[s].file \in OppFiles /\ shell[s].seen \in Seq(OppLine)
      /\ shell[s].id \in OppIds /\ Entries(shell[s].seen) \subseteq OppEntries
      /\ \A f \in OppFiles : Entries(file[f]) \subseteq OppEntries
      /\ shell[s].cmd \in OppStatus
      /\ file \in [OppFiles -> Seq(OppLine)] /\ commands \in 0..MaxCommands
  BY DEF OppInv, OppTyped, OppBounded, ShellState, OppStatus
<1>2. CASE Enter(s)
  <2>1. /\ UNCHANGED <<scan, scans, file>> /\ commands' \in 0..MaxCommands
    BY <1>1, <1>2, OpportunitiesAssumption DEF Enter, ScanVars
  <2>2. PICK cmd \in OppCommands : \E i \in DOMAIN file[Target(cmd)] :
          shell' = [shell EXCEPT ![s] =
            [at |-> IF cmd = "proposal_drafted" THEN "draft" ELSE "read", cmd |-> cmd,
             id |-> file[Target(cmd)][i].id, file |-> Target(cmd), seen |-> <<>>]]
    BY <1>2 DEF Enter, OppCommands
  <2>3. PICK i \in DOMAIN file[Target(cmd)] :
          shell' = [shell EXCEPT ![s] =
            [at |-> IF cmd = "proposal_drafted" THEN "draft" ELSE "read", cmd |-> cmd,
             id |-> file[Target(cmd)][i].id, file |-> Target(cmd), seen |-> <<>>]]
    BY <2>2
  <2> DEFINE l == file[Target(cmd)][i]
             new == [at |-> IF cmd = "proposal_drafted" THEN "draft" ELSE "read", cmd |-> cmd,
                     id |-> l.id, file |-> Target(cmd), seen |-> <<>>]
  <2>4. Target(cmd) \in OppFiles
    BY DEF Target, OppFiles
  <2>5. <<l.id, l.by>> \in OppEntries
    BY <1>1, <2>4 DEF Entries
  <2>6. l.id \in OppIds
    BY <2>5 DEF OppEntries
  <2> HIDE DEF l
  <2>7. new.id \in OppIds /\ Entries(new.seen) \subseteq OppEntries
    BY <2>6, NoEntries
  <2>8. shell' = [shell EXCEPT ![s] = new]
    BY <2>3 DEF l
  <2> HIDE DEF new
  <2> QED BY <1>1, <2>1, <2>7, <2>8, ShellBounded
<1>3. CASE DraftProposal(s) \/ LogRevenue(s) \/ LogFeedback(s) \/ Interrupt(s)
  <2>1. /\ UNCHANGED <<scan, scans, commands, file>>
        /\ shell' \in {[shell EXCEPT ![s] = [shell[s] EXCEPT !.at = "read"]],
                       [shell EXCEPT ![s] = [shell[s] EXCEPT !.at = "feedback"]],
                       [shell EXCEPT ![s] = AtPrompt]}
    BY <1>3 DEF DraftProposal, LogRevenue, LogFeedback, Interrupt, ScanVars, ShellVars
  <2>2. CASE shell' = [shell EXCEPT ![s] = AtPrompt]
    BY <1>1, <2>1, <2>2, PromptBounded, ShellBounded
  <2>3. ASSUME NEW at \in {"read", "feedback"},
               shell' = [shell EXCEPT ![s] = [shell[s] EXCEPT !.at = at]]
        PROVE  OppBounded'
    <3> DEFINE new == [shell[s] EXCEPT !.at = at]
    <3>1. new.id \in OppIds /\ Entries(new.seen) \subseteq OppEntries
      BY <1>1, ShellPlaces
    <3> HIDE DEF new
    <3>2. shell' = [shell EXCEPT ![s] = new]
      BY <2>3 DEF new
    <3> QED BY <1>1, <2>1, <3>1, <3>2, ShellBounded
  <2> QED BY <2>1, <2>2, <2>3
<1>4. CASE ReadFile(s)
  <2>1. UNCHANGED <<scan, scans, commands, file>>
    BY <1>4 DEF ReadFile, ScanVars
  <2> DEFINE q == file[shell[s].file]
             moved == [shell[s] EXCEPT !.at = "rewrite"]
             new == IF HasId(q, shell[s].id) THEN [moved EXCEPT !.seen = q] ELSE AtPrompt
  <2>2. q \in Seq(OppLine) /\ Entries(q) \subseteq OppEntries
    BY <1>1
  <2>3. shell' = [shell EXCEPT ![s] = new]
    BY <1>1, <1>4 DEF ReadFile, ShellState
  <2>4. moved \in ShellState /\ moved.id \in OppIds
    BY <1>1, ShellPlaces
  <2> HIDE DEF q, moved
  <2>5. [moved EXCEPT !.seen = q].id \in OppIds /\ [moved EXCEPT !.seen = q].seen = q
    BY <2>2, <2>4, ShellSees
  <2>6. new.id \in OppIds /\ Entries(new.seen) \subseteq OppEntries
    BY <2>2, <2>5, PromptBounded
  <2> HIDE DEF new
  <2> QED BY <1>1, <2>1, <2>3, <2>6, ShellBounded
<1>5. CASE Truncate(s)
  <2> DEFINE new == [shell[s] EXCEPT !.at = "write"]
  <2>1. /\ UNCHANGED <<scan, scans, commands>> /\ shell' = [shell EXCEPT ![s] = new]
        /\ file' = [file EXCEPT ![shell[s].file] = <<>>]
    BY <1>5 DEF Truncate, ScanVars
  <2>2. new.id \in OppIds /\ Entries(new.seen) \subseteq OppEntries
    BY <1>1, ShellPlaces
  <2> HIDE DEF new
  <2>3. \A f \in OppFiles : Entries(file'[f]) \subseteq OppEntries
    BY <1>1, <2>1, NoEntries
  <2> QED BY <1>1, <2>1, <2>2, <2>3, ShellBounded
<1>6. CASE WriteBack(s)
  <2> DEFINE won == [shell[s] EXCEPT !.at = "revenue", !.seen = <<>>]
             lost == [shell[s] EXCEPT !.at = "feedback", !.seen = <<>>]
             lines == Updated(shell[s].seen, shell[s].id, shell[s].cmd)
             f == shell[s].file
  <2>1. /\ UNCHANGED <<scan, scans, commands>>
        /\ \/ shell' = [shell EXCEPT ![s] = won] \/ shell' = [shell EXCEPT ![s] = lost]
           \/ shell' = [shell EXCEPT ![s] = AtPrompt]
        /\ file' = [file EXCEPT ![f] = Overwritten(file[f], lines)]
    BY <1>6, Zenon DEF WriteBack, ScanVars
  <2>2. /\ won.id = shell[s].id /\ won.seen = <<>>
        /\ lost.id = shell[s].id /\ lost.seen = <<>>
    BY <1>1 DEF ShellState
  <2>3. lines \in Seq(OppLine) /\ Entries(lines) \subseteq OppEntries
    BY <1>1, UpdateKeepsEntries
  <2> HIDE DEF won, lost, lines
  <2>4. Entries(Overwritten(file[f], lines)) \subseteq OppEntries
    BY <1>1, <2>3, OverwrittenEntries
  <2>5. \A g \in OppFiles : Entries(file'[g]) \subseteq OppEntries
    BY <1>1, <2>1, <2>4
  <2>6. /\ won.id \in OppIds /\ Entries(won.seen) \subseteq OppEntries
        /\ lost.id \in OppIds /\ Entries(lost.seen) \subseteq OppEntries
    BY <1>1, <2>2, NoEntries
  <2>7. ASSUME NEW new \in {won, lost, AtPrompt}, shell' = [shell EXCEPT ![s] = new]
        PROVE  OppBounded'
    <3>1. new.id \in OppIds /\ Entries(new.seen) \subseteq OppEntries
      BY <2>6, PromptBounded
    <3> QED BY <1>1, <2>1, <2>5, <2>7, <3>1, ShellBounded
  <2> QED BY <2>1, <2>7
<1> QED BY <1>2, <1>3, <1>4, <1>5, <1>6

(* A run appends what it numbered.                                          *)
LEMMA ScanStepBounded ==
  ASSUME OppInv, OppBounded,
         \/ StartScan \/ ScoreOpportunities \/ SaveOpportunity \/ DraftProposals
         \/ DiscoverSource \/ EndScan \/ UNCHANGED oppVars
  PROVE  OppBounded'
<1>1. /\ scan \in [at : {"off", "scrape", "save", "discover"}, day : Nat, left : Nat]
      /\ file \in [OppFiles -> Seq(OppLine)] /\ MaxScans \in Nat
      /\ scans \in 0..MaxScans /\ scan.day \in 0..scans /\ scan.left \in 0..2
      /\ (scan.at # "off" => scans > 0)
      /\ \A f \in OppFiles : Entries(file[f]) \subseteq OppEntries
  BY OpportunitiesAssumption DEF OppInv, OppTyped, OppBounded
<1>2. UNCHANGED <<shell, commands>>
  BY DEF StartScan, ScoreOpportunities, SaveOpportunity, DraftProposals, DiscoverSource, EndScan,
         oppVars, ShellVars
<1>3. /\ scans' \in 0..MaxScans /\ scan'.day \in 0..scans' /\ scan'.left \in 0..2
      /\ scan'.at # "off" => scans' > 0
  <2>1. CASE StartScan
    BY <1>1, <2>1 DEF StartScan
  <2>2. CASE ScoreOpportunities
    <3>1. PICK scores \in Scraped :
            scan' = [scan EXCEPT !.at = "save", !.left = Cardinality(Ranked(scores))]
      BY <2>2 DEF ScoreOpportunities
    <3> DEFINE n == Cardinality(Ranked(scores))
    <3>2. n \in 0..2
      BY RankedTwo
    <3>3. scan' = [scan EXCEPT !.at = "save", !.left = n] /\ scans' = scans /\ scan.at # "off"
      BY <2>2, <3>1 DEF ScoreOpportunities
    <3> HIDE DEF n
    <3> QED BY <1>1, <3>2, <3>3
  <2>3. CASE SaveOpportunity \/ EndScan
    <3>1. /\ scans' = scans /\ scan.at # "off"
          /\ \/ scan' = [scan EXCEPT !.at = "off", !.left = 0]
             \/ scan.left > 0 /\ scan' = [scan EXCEPT !.left = scan.left - 1]
      BY <2>3 DEF SaveOpportunity, EndScan
    <3>2. CASE scan.left > 0 /\ scan' = [scan EXCEPT !.left = scan.left - 1]
      BY <1>1, <3>1, <3>2
    <3>3. CASE scan' = [scan EXCEPT !.at = "off", !.left = 0]
      <4> DEFINE y == [scan EXCEPT !.at = "off"]
      <4>1. DOMAIN y = {"at", "day", "left"} /\ y.day = scan.day
        BY <1>1
      <4>2. scan' = [y EXCEPT !.left = 0]
        BY <3>3
      <4> HIDE DEF y
      <4>3. scan'.day = scan.day /\ scan'.left = 0
        BY <4>1, <4>2
      <4> QED BY <1>1, <3>1, <4>3
    <3> QED BY <3>1, <3>2, <3>3
  <2>4. CASE DiscoverSource \/ DraftProposals
    BY <1>1, <2>4 DEF DiscoverSource, DraftProposals
  <2>5. CASE UNCHANGED oppVars
    BY <1>1, <2>5 DEF oppVars
  <2> QED BY <2>1, <2>2, <2>3, <2>4, <2>5
<1>4. ASSUME NEW f \in OppFiles, NEW line \in OppLine, <<line.id, line.by>> \in OppEntries,
             AppendLine(f, line)
      PROVE  \A g \in OppFiles : Entries(file'[g]) \subseteq OppEntries
  <2>1. file' = [file EXCEPT ![f] = Append(file[f], line)]
    BY <1>4 DEF AppendLine
  <2>2. Entries(Append(file[f], line)) \subseteq OppEntries
    BY <1>1, <1>4, AppendAdds
  <2> QED BY <1>1, <2>1, <2>2
<1>5. \A g \in OppFiles : Entries(file'[g]) \subseteq OppEntries
  <2>1. CASE SaveOpportunity
    <3> DEFINE line == [id |-> OpportunityId, by |-> scans, status |-> "new"]
    <3>0. /\ OpportunityId \in OppIds /\ OpportunityId \in Nat \X Nat
          /\ scans \in Nat /\ scans \in 1..MaxScans
      BY <1>1, <2>1 DEF SaveOpportunity, OpportunityId, OppIds
    <3>1. line \in OppLine /\ <<line.id, line.by>> \in OppEntries
      BY <3>0 DEF OppLine, OppStatus, OppEntries
    <3>2. AppendLine("pipeline", line) /\ "pipeline" \in OppFiles
      BY <2>1 DEF SaveOpportunity, OppFiles
    <3> HIDE DEF line
    <3> QED BY <1>4, <3>1, <3>2
  <2>2. CASE DiscoverSource
    <3>0. <<0, 1>> \in OppIds /\ <<0, 1>> \in Nat \X Nat /\ scans \in Nat /\ scans \in 1..MaxScans
      BY <1>1, <2>2 DEF DiscoverSource, OppIds
    <3>1. DiscoveredSource \in OppLine /\ <<DiscoveredSource.id, DiscoveredSource.by>> \in OppEntries
      BY <3>0 DEF DiscoveredSource, OppLine, OppStatus, OppEntries
    <3>2. AppendLine("sources", DiscoveredSource) /\ "sources" \in OppFiles
      BY <2>2 DEF DiscoverSource, OppFiles
    <3> QED BY <1>4, <3>1, <3>2
  <2>3. CASE DraftProposals
    <3>1. Entries(Updated(file["pipeline"], DraftId, "proposal_drafted"))
            = Entries(file["pipeline"])
      BY <1>1, UpdateKeepsEntries DEF OppFiles, OppStatus, OppCommands
    <3>2. \/ file' = file
          \/ file' = [file EXCEPT !["pipeline"] =
                        Updated(file["pipeline"], DraftId, "proposal_drafted")]
      BY <2>3 DEF DraftProposals
    <3> QED BY <1>1, <3>1, <3>2 DEF OppFiles
  <2>4. CASE StartScan \/ ScoreOpportunities \/ EndScan \/ UNCHANGED oppVars
    <3>1. file' = file
      BY <2>4 DEF StartScan, ScoreOpportunities, EndScan, oppVars
    <3> QED BY <1>1, <3>1
  <2> QED BY <2>1, <2>2, <2>3, <2>4
<1>6. OppIds' = OppIds /\ OppEntries' = OppEntries
  BY DEF OppIds, OppEntries
<1>7. \A f \in OppFiles : Entries(file[f])' \subseteq OppEntries
  BY <1>5 DEF Entries
<1>8. \A s \in Shells : shell'[s].id \in OppIds /\ Entries(shell[s].seen)' \subseteq OppEntries
  BY <1>2 DEF OppBounded, Entries
<1> QED BY <1>2, <1>3, <1>6, <1>7, <1>8 DEF OppBounded

(* Whatever runs and commands do to the files, a line is one that some run  *)
(* numbered, and a command is about a number some run gave.                 *)
THEOREM OppIsTyped == OppSpec => []OppTypeOK
<1>1. OppInit => OppBounded
  <2> SUFFICES ASSUME OppInit PROVE OppBounded
    OBVIOUS
  <2>1. /\ scan = NoScan /\ scans = 0 /\ commands = 0 /\ \A f \in OppFiles : file[f] = <<>>
        /\ \A s \in Shells : shell[s] = AtPrompt
    BY DEF OppInit, OppFiles
  <2> QED BY <2>1, NoEntries, PromptBounded, OpportunitiesAssumption DEF OppBounded, NoScan
<1>2. OppInv /\ OppBounded => OppTypeOK
  <2> SUFFICES ASSUME OppInv, OppBounded PROVE OppTypeOK
    OBVIOUS
  <2>1. /\ scan \in [at : {"off", "scrape", "save", "discover"}, day : Nat, left : Nat]
        /\ scans \in 0..MaxScans /\ scan.day \in 0..scans /\ scan.left \in 0..2
        /\ commands \in 0..MaxCommands /\ MaxScans \in Nat /\ exposed \in BOOLEAN
        /\ DOMAIN file = OppFiles
    BY OpportunitiesAssumption DEF OppInv, OppTyped, OppBounded
  <2>2. scan \in [at : {"off", "scrape", "save", "discover"}, day : 0..MaxScans, left : 0..2]
    BY <2>1
  <2>3. \A s \in Shells :
          /\ shell[s].at \in {"prompt", "draft", "read", "rewrite", "write", "revenue", "feedback"}
          /\ shell[s].id \in OppIds /\ shell[s].file \in DOMAIN file
    BY <2>1 DEF OppInv, OppTyped, OppBounded, ShellState
  <2>4. \A f \in OppFiles : \A i \in DOMAIN file[f] :
          file[f][i].id \in OppIds /\ file[f][i].by \in 1..MaxScans
    <3> TAKE f \in OppFiles
    <3> TAKE i \in DOMAIN file[f]
    <3>1. <<file[f][i].id, file[f][i].by>> \in OppEntries
      BY DEF OppBounded, Entries
    <3> QED BY <3>1 DEF OppEntries
  <2> QED BY <2>1, <2>2, <2>3, <2>4 DEF OppTypeOK
<1>3. OppInv /\ OppBounded /\ [OppNext]_oppVars => OppInv' /\ OppBounded'
  BY OppStep, ShellStepBounded, ScanStepBounded DEF OppNext
<1> QED BY OppInitial, <1>1, <1>2, <1>3, PTL DEF OppSpec
=============================================================================
