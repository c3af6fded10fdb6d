--------------------------- MODULE Opportunities ---------------------------
(***************************************************************************)
(* The opportunity pipeline: the nightly run appends what it scraped and   *)
(* scored and now and then a discovered source, while the operator's       *)
(* commands (status, propose, won, approve-source) read a whole file,      *)
(* truncate it and write it again, with no lock.  Files are sequences of   *)
(* lines [id, by, status], by the run that appended them.                  *)
(***************************************************************************)
EXTENDS Integers, Sequences, FiniteSets

CONSTANTS
  Shells,          \* terminals of the operator
  MaxScans,        \* bound on the nightly runs
  MaxCommands,     \* bound on the operator's commands
  LinesPerRun,     \* how many lines the code takes for one run
  DiscoveryEvery,  \* discovery on every so many runs
  ActiveBidding    \* cfg.ActiveBidding

ASSUME OpportunitiesAssumption ==
  /\ LinesPerRun \in Nat \ {0} /\ DiscoveryEvery \in Nat \ {0} /\ ActiveBidding \in BOOLEAN
  /\ {MaxScans, MaxCommands} \subseteq Nat

VARIABLES
  scan,     \* the run: [at, day, left]; at: "off", "scrape", "save", "discover"
  scans,    \* runs so far
  shell,    \* per shell: [at, cmd, id, file, seen]
  commands, \* commands so far
  file,     \* "pipeline", "sources" -> sequence of lines
  revenue,  \* revenue.jsonl: ids
  feedback, \* feedback.jsonl: outcomes
  saved,    \* history: lines appended, as [file, id, by]
  exposed   \* history: a process used a file another was rewriting, or was killed
            \* between truncating and writing it

oppVars == <<scan, scans, shell, commands, file, revenue, feedback, saved, exposed>>

NoScan == [at |-> "off", day |-> 0, left |-> 0]
AtPrompt == [at |-> "prompt", cmd |-> "", id |-> <<0, 0>>, file |-> "pipeline", seen |-> <<>>]

OppInit ==
  /\ scan = NoScan /\ scans = 0 /\ shell = [s \in Shells |-> AtPrompt] /\ commands = 0
  /\ file = [f \in {"pipeline", "sources"} |-> <<>>] /\ revenue = {} /\ feedback = {}
  /\ saved = {} /\ exposed = FALSE

Ledgers == <<revenue, feedback>>
ScanVars == <<scan, scans>>
ShellVars == <<shell, commands>>

(* --- the files -------------------------------------------------------------------- *)

HasId(lines, id) == \E i \in DOMAIN lines : lines[i].id = id

(* Who is between reading f and having written it.                           *)
Rewriting(f) == {s \in Shells : shell[s].at \in {"rewrite", "write"} /\ shell[s].file = f}
Touch(f, others) == exposed' = (exposed \/ others # {})

(* AppendOpportunity, AppendDiscoveredSource: O_APPEND, one line.            *)
AppendLine(f, line) ==
  /\ file' = [file EXCEPT ![f] = Append(@, line)]
  /\ saved' = saved \cup {[file |-> f, id |-> line.id, by |-> line.by]}
  /\ Touch(f, Rewriting(f))

(* The update: every line with the id gets the status, the others stay.      *)
Matching(lines, id, status) ==
  SelectSeq([i \in DOMAIN lines |-> [lines[i] EXCEPT !.status = status]],
            LAMBDA line : line.id = id)
Updated(lines, id, status) ==
  [i \in DOMAIN lines |->
     IF lines[i].id = id THEN [lines[i] EXCEPT !.status = status] ELSE lines[i]]

(* Written from the start of the file, over what somebody else put there.    *)
Overwritten(lines, new) == new \o SubSeq(lines, Len(new) + 1, Len(lines))

(* --- the nightly run --------------------------------------------------------------- *)

(* Several runs of one day, of a run that never got its mail out, number     *)
(* their opportunities alike.                                                *)
StartScan ==
  /\ scan.at = "off" /\ scans < MaxScans
  /\ scans' = scans + 1
  /\ \E day \in {scan.day, scan.day + 1} \ {0} :
       scan' = [at |-> "scrape", day |-> day, left |-> 0]
  /\ UNCHANGED <<ShellVars, file, Ledgers, saved, exposed>>

(* A source that fails is skipped, an opportunity that cannot be scored is   *)
(* dropped, one of little relevance filtered out; feedback changes ranks,    *)
(* never relevance.                                                          *)
Relevance == 0..10
MinRelevance == 5
Scraped == {<<0>>, <<10, 5>>}
Ranked(scores) == {i \in DOMAIN scores : scores[i] >= MinRelevance}
ScoreOpportunities ==
  /\ scan.at = "scrape"
  /\ \E scores \in Scraped :
       scan' = [scan EXCEPT !.at = "save", !.left = Cardinality(Ranked(scores))]
  /\ UNCHANGED <<scans, ShellVars, file, Ledgers, saved, exposed>>

(* GenerateOpportunityID: the day and the rank.                              *)
OpportunityId == <<scan.day, scan.left>>
SaveOpportunity ==
  /\ scan.at = "save" /\ scan.left > 0
  /\ scan' = [scan EXCEPT !.left = @ - 1]
  /\ AppendLine("pipeline", [id |-> OpportunityId, by |-> scans, status |-> "new"])
  /\ UNCHANGED <<scans, ShellVars, Ledgers>>

(* The drafts are made of the opportunities as filtered, before the loop     *)
(* above gave copies of them their ids: the update looks for an empty id.    *)
DraftId == <<0, 0>>
DraftProposals ==
  /\ scan.at = "save" /\ scan.left = 0 /\ scan' = [scan EXCEPT !.at = "discover"]
  /\ file' = IF ActiveBidding /\ HasId(file["pipeline"], DraftId)
             THEN [file EXCEPT !["pipeline"] = Updated(@, DraftId, "proposal_drafted")]
             ELSE file
  /\ IF ActiveBidding THEN Touch("pipeline", Rewriting("pipeline")) ELSE UNCHANGED exposed
  /\ UNCHANGED <<scans, ShellVars, Ledgers, saved>>

(* The number of runs is guessed from the length of the file.                *)
RunCount == Len(file["pipeline"]) \div LinesPerRun
IsDiscoveryDay == RunCount > 0 /\ RunCount % DiscoveryEvery = 0
DiscoveredSource == [id |-> <<0, 1>>, by |-> scans, status |-> "pending_approval"]
(* A source the model makes up is kept if it proves to list jobs.            *)
DiscoverSource ==
  /\ scan.at = "discover" /\ IsDiscoveryDay
  /\ AppendLine("sources", DiscoveredSource)
  /\ scan' = [scan EXCEPT !.at = "off"] /\ UNCHANGED <<scans, ShellVars, Ledgers>>
EndScan ==
  /\ scan.at # "off" /\ scan' = [scan EXCEPT !.at = "off", !.left = 0]
  /\ UNCHANGED <<scans, ShellVars, file, Ledgers, saved, exposed>>

(* --- the operator's commands ------------------------------------------------------- *)

Target(cmd) == IF cmd = "approved" THEN "sources" ELSE "pipeline"

(* A command of a shell, about a line it can find; propose asks for a draft  *)
(* first, which takes its time and may be refused.                           *)
Enter(s) ==
  /\ shell[s].at = "prompt" /\ commands < MaxCommands /\ commands' = commands + 1
  /\ \E cmd \in {"reviewed", "lost", "won", "proposal_drafted", "approved"} :
       \E i \in DOMAIN file[Target(cmd)] :
         shell' = [shell EXCEPT ![s] =
           [at |-> IF cmd = "proposal_drafted" THEN "draft" ELSE "read", cmd |-> cmd,
            id |-> file[Target(cmd)][i].id, file |-> Target(cmd), seen |-> <<>>]]
  /\ UNCHANGED <<ScanVars, file, Ledgers, saved, exposed>>

DraftProposal(s) ==
  /\ shell[s].at = "draft"
  /\ \E drafted \in BOOLEAN :
       shell' = [shell EXCEPT ![s] = IF drafted THEN [@ EXCEPT !.at = "read"] ELSE AtPrompt]
  /\ UNCHANGED <<ScanVars, commands, file, Ledgers, saved, exposed>>

(* ReadOpportunities; a line that is gone by now is an error.                *)
ReadFile(s) ==
  LET f == shell[s].file IN
  /\ shell[s].at = "read"
  /\ shell' = [shell EXCEPT ![s] =
       IF HasId(file[f], shell[s].id) THEN [@ EXCEPT !.at = "rewrite", !.seen = file[f]]
       ELSE AtPrompt]
  /\ Touch(f, Rewriting(f))
  /\ UNCHANGED <<ScanVars, commands, file, Ledgers, saved>>

(* writeOpportunities: os.Create empties the file,                           *)
Truncate(s) ==
  LET f == shell[s].file IN
  /\ shell[s].at = "rewrite" /\ shell' = [shell EXCEPT ![s].at = "write"]
  /\ file' = [file EXCEPT ![f] = <<>>] /\ Touch(f, Rewriting(f) \ {s})
  /\ UNCHANGED <<ScanVars, commands, Ledgers, saved>>

(* then the lines follow; won goes on to the ledger, lost to the feedback.   *)
WriteBack(s) ==
  LET f == shell[s].file IN
  /\ shell[s].at = "write" /\ Touch(f, Rewriting(f) \ {s})
  /\ file' = [file EXCEPT ![f] =
       Overwritten(@, Updated(shell[s].seen, shell[s].id, shell[s].cmd))]
  /\ shell' = [shell EXCEPT ![s] =
       CASE @.cmd = "won" -> [@ EXCEPT !.at = "revenue", !.seen = <<>>]
         [] @.cmd = "lost" -> [@ EXCEPT !.at = "feedback", !.seen = <<>>]
         [] OTHER -> AtPrompt]
  /\ UNCHANGED <<ScanVars, commands, Ledgers, saved>>

LogRevenue(s) ==
  /\ shell[s].at = "revenue" /\ revenue' = revenue \cup {shell[s].id}
  /\ shell' = [shell EXCEPT ![s].at = "feedback"]
  /\ UNCHANGED <<ScanVars, commands, file, feedback, saved, exposed>>

(* A failure is a warning.                                                   *)
AppendFeedback(result) == feedback' \in {feedback, feedback \cup {result}}
LogFeedback(s) ==
  /\ shell[s].at = "feedback" /\ shell' = [shell EXCEPT ![s] = AtPrompt]
  /\ AppendFeedback(shell[s].cmd)
  /\ UNCHANGED <<ScanVars, commands, file, revenue, saved, exposed>>

Interrupt(s) ==
  /\ shell[s].at \in {"write", "revenue"} /\ shell' = [shell EXCEPT ![s] = AtPrompt]
  /\ exposed' = (exposed \/ shell[s].at = "write")
  /\ UNCHANGED <<ScanVars, commands, file, Ledgers, saved>>

OppNext ==
  \/ StartScan \/ ScoreOpportunities \/ SaveOpportunity \/ DraftProposals
  \/ DiscoverSource \/ EndScan
  \/ \E s \in Shells : \/ Enter(s) \/ DraftProposal(s) \/ ReadFile(s) \/ Truncate(s)
                       \/ WriteBack(s) \/ LogRevenue(s) \/ LogFeedback(s) \/ Interrupt(s)

OppSpec == OppInit /\ [][OppNext]_oppVars

(* --- properties ---------------------------------------------------------------------- *)

OppIds == (0..MaxScans) \X (0..2)
OppTypeOK ==
  /\ scan \in [at : {"off", "scrape", "save", "discover"}, day : 0..MaxScans, left : 0..2]
  /\ \A s \in Shells :
       /\ shell[s].at \in {"prompt", "draft", "read", "rewrite", "write", "revenue", "feedback"}
       /\ shell[s].id \in OppIds /\ shell[s].file \in DOMAIN file
  /\ \A f \in DOMAIN file : \A i \in DOMAIN file[f] :
       file[f][i].id \in OppIds /\ file[f][i].by \in 1..MaxScans
  /\ scans \in 0..MaxScans /\ commands \in 0..MaxCommands
  /\ exposed \in BOOLEAN

(* An opportunity or a source that was saved stays in its file, however many *)
(* commands and runs follow and however a day's runs number theirs, unless   *)
(* two processes were in the file at once or one was killed while it wrote;  *)
(* and no revenue is booked for what is not in the pipeline.                 *)
SavedIsKept ==
  exposed \/
  /\ \A e \in saved :
       \/ \E i \in DOMAIN file[e.file] :
            file[e.file][i].id = e.id /\ file[e.file][i].by = e.by
       \/ \E s \in Shells : shell[s].at = "write" /\ shell[s].file = e.file
  /\ \A id \in revenue : \E s \in Shells :
       HasId(file["pipeline"], id) \/ shell[s].at = "write"
=============================================================================
