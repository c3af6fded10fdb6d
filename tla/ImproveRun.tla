---------------------------- MODULE ImproveRun ----------------------------
(***************************************************************************)
(* The nightly run of vxd-improve over its own repository: self-audit and  *)
(* self-heal, then one branch per finding, quality gates, push, pull       *)
(* request and a line in the changelog, then the summary and the mail that *)
(* decide whether the day is done.  All runs share one checkout, and one   *)
(* day's branches have one set of names.  Scraping, triage and the reports *)
(* are what they hand on.                                                  *)
(***************************************************************************)
EXTENDS Integers, FiniteSets

CONSTANTS
  ImproveFindings, \* what research and triage can hand on in a day
  MaxPRsPerRun,    \* cfg.MaxPRsPerRun
  MaxTries         \* bound on the runs of the day

ASSUME ImproveAssumption ==
  "heal" \notin ImproveFindings /\ MaxPRsPerRun \in Nat /\ MaxTries \in Nat

Branches == ImproveFindings \cup {"heal"}

VARIABLES
  night,      \* "off", "audit", "heal", "implement", "agent", "gates", "push",
              \* "pr", "record", "save", "email"
  todo,       \* the scored findings the run has not come to
  on,         \* the branch the run works at, "none" between two
  outcomeOf,  \* of that work: "none", "implemented", "aborted"
  branch,     \* per name: [at, sound, fits, propped]; at: "none", "local", "pushed", "open"
  checkedOut, \* the branch checked out
  dirty,      \* changes in the tree that are not committed
  prsCreated, \* of this run
  changelog,  \* entries: [name, disposition]
  summary,    \* runs/<date>.json: "none", "saved", "sent"
  nightRuns, killed \* runs started; whether one was killed

irVars == <<night, todo, on, outcomeOf, branch, checkedOut, dirty, prsCreated,
            changelog, summary, nightRuns, killed>>

NoBranch == [at |-> "none", sound |-> TRUE, fits |-> TRUE, propped |-> FALSE]

IrInit ==
  /\ night = "off" /\ todo = {} /\ on = "none" /\ outcomeOf = "none"
  /\ branch = [b \in Branches |-> NoBranch] /\ checkedOut = "main" /\ dirty = FALSE
  /\ prsCreated = 0 /\ changelog = {} /\ summary = "none" /\ nightRuns = 0 /\ killed = FALSE

Checkout == <<branch, checkedOut, dirty>>
Day == <<summary, nightRuns, killed>>

(* --- the checkout ------------------------------------------------------------------- *)

(* git checkout carries uncommitted changes along, or refuses because of    *)
(* them.                                                                    *)
Allows == IF dirty THEN BOOLEAN ELSE {TRUE}

BackToMain == \E back \in Allows : checkedOut' = IF back THEN "main" ELSE checkedOut

(* abandon: back to main and delete the branch, each best effort.           *)
Abandon(b) ==
  \E back \in Allows :
    /\ checkedOut' = IF back THEN "main" ELSE checkedOut
    /\ branch' = IF back THEN [branch EXCEPT ![b] = NoBranch] ELSE branch
    /\ UNCHANGED dirty

(* A failed step of the implementer or of the self-heal.                    *)
Aborts == outcomeOf' = "aborted" /\ night' = "record"

(* git checkout -b b main                                                    *)
NewBranch(b) == branch[b].at = "none"
NewBranchRefused(b) ==
  /\ branch[b].at # "none" \/ FALSE \in Allows
  /\ Aborts /\ BackToMain /\ UNCHANGED <<branch, dirty>>

(* The agent, or a fixing tool, fails in the new branch: it is abandoned,   *)
(* with the changes in the tree.                                            *)
FixesFail(b) ==
  /\ Aborts /\ dirty' \in {dirty, TRUE}
  /\ \/ checkedOut' = "main" /\ UNCHANGED branch
     \/ /\ dirty' /\ checkedOut' = b
        /\ branch' = [branch EXCEPT ![b].at = "local"]

(* Or it commits; not all of what it did need be in the commit.             *)
Works(b, sound, fits, left) ==
  /\ night' = "gates" /\ checkedOut' = b /\ dirty' \in left /\ UNCHANGED outcomeOf
  /\ \E s \in sound, x \in fits : branch' =
       [branch EXCEPT ![b] = [at |-> "local", sound |-> s, fits |-> x, propped |-> FALSE]]

(* qualityGates: build, vet and test see the tree as it stands, the size,   *)
(* file and secret checks see what is committed against main.               *)
TreeGates(b) == branch[b].sound \/ dirty
GatesPass(b) == TreeGates(b) /\ branch[b].fits

(* --- phase 0 ------------------------------------------------------------------------- *)

(* main: the day is done once its mail was sent.                            *)
IsRunComplete == summary = "sent"
StartRun ==
  /\ night = "off" /\ ~IsRunComplete /\ nightRuns < MaxTries
  /\ night' = "audit" /\ nightRuns' = nightRuns + 1 /\ prsCreated' = 0
  /\ on' = "none" /\ outcomeOf' = "none" /\ todo' = {}
  /\ UNCHANGED <<Checkout, changelog, summary, killed>>

(* Research: a source that cannot be scraped adds nothing, what smells of   *)
(* an injection is filtered.  Triage scores and keeps what is relevant.     *)
Research == SUBSET ImproveFindings
Triaged == UNION {SUBSET found : found \in Research}

(* Audit: what the checks make of the tools' output; a check whose tool     *)
(* failed says nothing.                                                     *)
Checks == {"build", "vet", "test", "gofmt", "modtidy", "vulncheck"}
IsDeterministic(check) == check \in {"gofmt", "modtidy"}
Reported == {{}, {"test", "gofmt"}} \cup {{check} : check \in Checks}

(* Only deterministic findings are healed; the others go to the changelog.  *)
AuditRepo ==
  /\ night = "audit" /\ \E found \in Reported :
       IF \E check \in found : IsDeterministic(check)
       THEN night' = "heal" /\ on' = "heal" /\ UNCHANGED todo
       ELSE night' = "implement" /\ todo' \in Triaged /\ UNCHANGED on
  /\ UNCHANGED <<outcomeOf, Checkout, prsCreated, changelog, Day>>

(* SelfHeal: the files it would touch must be unmodified, the branch new;   *)
(* a fix that fails half way leaves what the other tool changed.            *)
HealBranch ==
  /\ night = "heal" /\ UNCHANGED <<todo, on, prsCreated, changelog, Day>>
  /\ \/ dirty /\ Aborts /\ UNCHANGED Checkout
     \/ NewBranchRefused("heal")
     \/ NewBranch("heal") /\ (FixesFail("heal") \/ Works("heal", BOOLEAN, {TRUE}, {dirty}))

(* --- phase 3 ------------------------------------------------------------------------- *)

AuditEntry(name, disposition) == [name |-> name, disposition |-> disposition]

(* The next finding; one that needs no code change is only proposed.        *)
NextFinding ==
  /\ night = "implement" /\ prsCreated < MaxPRsPerRun
  /\ \E f \in todo :
       /\ todo' = todo \ {f}
       /\ \/ /\ changelog' = changelog \cup {AuditEntry(f, "proposed")}
             /\ UNCHANGED <<night, on>>
          \/ night' = "agent" /\ on' = f /\ UNCHANGED changelog
  /\ UNCHANGED <<outcomeOf, Checkout, prsCreated, Day>>

(* Implement: a finding that smells of an injection is not tried; then a    *)
(* branch from main and the agent in it.                                    *)
ImplementFinding ==
  /\ night = "agent" /\ UNCHANGED <<todo, on, prsCreated, changelog, Day>>
  /\ \/ Aborts /\ BackToMain /\ UNCHANGED <<branch, dirty>>
     \/ NewBranchRefused(on)
     \/ NewBranch(on) /\ (FixesFail(on) \/ Works(on, BOOLEAN, BOOLEAN, {dirty, TRUE}))

(* --- gates, push and pull request ------------------------------------------------------ *)

RunGates ==
  /\ night = "gates" /\ UNCHANGED <<todo, on, prsCreated, changelog, Day>>
  /\ IF GatesPass(on)
     THEN /\ night' = "push" /\ branch' = [branch EXCEPT ![on].propped = dirty]
          /\ UNCHANGED <<outcomeOf, checkedOut, dirty>>
     ELSE Aborts /\ Abandon(on)

(* After the gates a failure leaves the branch where it is.                 *)
PushImprovement ==
  /\ night = "push" /\ UNCHANGED <<todo, on, checkedOut, dirty, prsCreated, changelog, Day>>
  /\ \/ Aborts /\ UNCHANGED branch
     \/ night' = "pr" /\ branch' = [branch EXCEPT ![on].at = "pushed"] /\ UNCHANGED outcomeOf

OpenPR ==
  /\ night = "pr" /\ UNCHANGED <<todo, on, changelog, Day>>
  /\ \/ Aborts /\ UNCHANGED <<Checkout, prsCreated>>
     \/ /\ branch' = [branch EXCEPT ![on].at = "open"] /\ UNCHANGED dirty
        /\ BackToMain
        /\ outcomeOf' = "implemented" /\ night' = "record" /\ prsCreated' = prsCreated + 1

(* The entry of the changelog; after the self-heal come the findings.       *)
RecordResult ==
  /\ night = "record" /\ night' = "implement"
  /\ changelog' = changelog \cup {AuditEntry(on, outcomeOf)}
  /\ todo' \in IF on = "heal" THEN Triaged ELSE {todo}
  /\ on' = "none" /\ outcomeOf' = "none"
  /\ UNCHANGED <<Checkout, prsCreated, Day>>

(* --- the end of the run ------------------------------------------------------------------ *)

(* SaveRunSummary, before the opportunities and the mail.                   *)
SaveSummary ==
  /\ night = "implement" /\ (todo = {} \/ prsCreated >= MaxPRsPerRun)
  /\ night' = "email" /\ summary' = "saved" /\ todo' = {}
  /\ UNCHANGED <<on, outcomeOf, Checkout, prsCreated, changelog, nightRuns, killed>>

SendReport ==
  /\ night = "email" /\ night' = "off" /\ summary' \in {"saved", "sent"}
  /\ UNCHANGED <<todo, on, outcomeOf, Checkout, prsCreated, changelog, nightRuns, killed>>

KillNight ==
  /\ night # "off" /\ night' = "off" /\ on' = "none" /\ outcomeOf' = "none" /\ todo' = {}
  /\ killed' = TRUE
  /\ UNCHANGED <<Checkout, prsCreated, changelog, summary, nightRuns>>

(* Somebody cleans the checkout up between two runs.                        *)
CleanCheckout ==
  /\ night = "off" /\ dirty /\ dirty' = FALSE /\ checkedOut' = "main"
  /\ UNCHANGED <<night, todo, on, outcomeOf, branch, prsCreated, changelog, Day>>

IrNext ==
  \/ StartRun \/ AuditRepo \/ HealBranch \/ NextFinding \/ ImplementFinding
  \/ RunGates \/ PushImprovement \/ OpenPR \/ RecordResult
  \/ SaveSummary \/ SendReport \/ KillNight \/ CleanCheckout

IrSpec == IrInit /\ [][IrNext]_irVars

(* --- properties ------------------------------------------------------------------------- *)

IrTypeOK ==
  /\ night \in {"off", "audit", "heal", "implement", "agent", "gates", "push", "pr",
                "record", "email"}
  /\ todo \subseteq ImproveFindings /\ on \in Branches \cup {"none"}
  /\ outcomeOf \in {"none", "implemented", "aborted"} /\ checkedOut \in Branches \cup {"main"}
  /\ branch \in [Branches -> [at : {"none", "local", "pushed", "open"},
                              sound : BOOLEAN, fits : BOOLEAN, propped : BOOLEAN]]
  /\ dirty \in BOOLEAN /\ killed \in BOOLEAN /\ prsCreated \in 0..MaxPRsPerRun + 1
  /\ changelog \subseteq [name : Branches, disposition : {"implemented", "aborted", "proposed"}]
  /\ summary \in {"none", "saved", "sent"} /\ nightRuns \in 0..MaxTries

(* However the runs of a day fail, are killed and start over in the one     *)
(* checkout: an open pull request passed every gate (its tests, with the    *)
(* help of uncommitted files where the agent left some), the changelog      *)
(* calls nothing implemented that has no pull request, and a pull request   *)
(* missing from it means that a run was killed.                             *)
OpenPRsAccountedFor ==
  /\ \A b \in Branches : branch[b].at = "open" =>
       branch[b].fits /\ (branch[b].sound \/ branch[b].propped)
  /\ \A e \in changelog : e.disposition = "implemented" => branch[e.name].at = "open"
  /\ \A b \in Branches : (branch[b].at = "open" /\ on # b) =>
       killed \/ AuditEntry(b, "implemented") \in changelog
=============================================================================
