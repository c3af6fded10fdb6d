---------------------------- MODULE SecurityGate ----------------------------
(***************************************************************************)
(* The security agent: scanners and an LLM review of a story before its    *)
(* merge, judged against the gate's severity, and a knowledge base file    *)
(* that parallel pipelines and the scan command read, grow and write back. *)
(* A story's worktree is its defects, each with its class, its severity,   *)
(* the tool that would see it and whether a model would.                   *)
(***************************************************************************)
EXTENDS Integers, FiniteSets

CONSTANTS
  SecStories, \* stories whose pipelines reach the gate, side by side
  Defects,    \* sets of [class, severity, tool] a worktree can hold
  Baseline    \* classes of the shipped knowledge base

ASSUME SecurityAssumption ==
  \A ds \in Defects : ds \subseteq [class : STRING, severity : 0..4, tool : STRING]

Command == "security scan"
Reviews == SecStories \cup {Command}

VARIABLES
  config,   \* [require, autoLearn, client, gate] of the process
  kbFile,   \* knowledge.json: [at, rules]; at: "ok", "empty", "garbage"
  review,   \* per review: [at, langs, defects, kb, found, unseen, rules, since]
  secVerdict,  \* per review: "none", "passed", "flagged", "error", "merging"
  learned,  \* classes of SECURITY_RULE_LEARNED events
  kbRaced   \* history: two reviews had the file between reading and writing it,
            \* or a write failed or was cut

secVars == <<config, kbFile, review, secVerdict, learned, kbRaced>>

NoReview == [at |-> "off", langs |-> {}, defects |-> {}, kb |-> {}, found |-> {},
             unseen |-> {}, rules |-> {}]

BaselineKnowledgeBase == [at |-> "ok", rules |-> Baseline]

SecInit ==
  /\ config = [at |-> "off", require |-> FALSE, autoLearn |-> TRUE, client |-> TRUE, gate |-> 3]
  /\ kbFile = BaselineKnowledgeBase
  /\ review = [r \in Reviews |-> NoReview] /\ secVerdict = [r \in Reviews |-> "none"]
  /\ learned = {} /\ kbRaced = FALSE

(* --- severities, findings and scanners ------------------------------------------------ *)

SeverityMedium == 2
SeverityHigh == 3
Above(severity, min) == severity > min
AtLeast(severity, min) == severity >= min

(* allScanners: the languages a scanner is for; {} is all of them.           *)
ScannerLanguages ==
  [semgrep |-> {}, gosec |-> {"go"}, npm |-> {"javascript", "typescript"}]
Applicable(langs) ==
  {k \in DOMAIN ScannerLanguages :
     ScannerLanguages[k] = {} \/ ScannerLanguages[k] \cap langs # {}}

(* DetectLanguages: manifests and extensions.                                *)
Languages == {{"go"}, {"javascript"}}

(* What the tools and the model make of the same defect; a label no one      *)
(* knows is informational.                                                   *)
ParseSeverity(severity, known) == IF known THEN severity ELSE 0
Finding(d, severity) == [class |-> d.class, severity |-> severity]

(* --- the process ---------------------------------------------------------------------- *)

(* newResumeCmd builds the gate; the client may be missing.                  *)
BuildSecurityGate ==
  /\ config.at = "off"
  /\ \E require, client \in BOOLEAN, gate \in {SeverityMedium, SeverityHigh} :
       config' = [at |-> "built", require |-> require, autoLearn |-> TRUE,
                  client |-> client, gate |-> gate]
  /\ UNCHANGED <<kbFile, review, secVerdict, learned, kbRaced>>

(* QA has passed a story, or the operator scans the repository.              *)
StartReview(r) ==
  /\ config.at = "built" /\ review[r].at = "off" /\ secVerdict[r] = "none"
  /\ \E langs \in Languages, ds \in Defects :
       review' = [review EXCEPT ![r] = [NoReview EXCEPT
         !.at = "load", !.langs = langs, !.defects = ds]]
  /\ UNCHANGED <<config, kbFile, secVerdict, learned, kbRaced>>

(* LoadKnowledgeBase: a file that cannot be parsed is an error, with which   *)
(* the pipeline goes on and the command ends.                                *)
Learning == {r \in Reviews : review[r].at \in {"scan", "llm", "learn", "save", "write"}}
LoadKnowledge(r) ==
  /\ review[r].at = "load"
  /\ IF kbFile.at = "ok"
     THEN /\ review' = [review EXCEPT ![r].at = "scan", ![r].kb = kbFile.rules]
          /\ UNCHANGED secVerdict
     ELSE /\ review' = [review EXCEPT ![r] = [NoReview EXCEPT !.at = "ended"]]
          /\ secVerdict' = [secVerdict EXCEPT ![r] = "error"]
  /\ kbRaced' = (kbRaced \/ Learning # {})
  /\ UNCHANGED <<config, kbFile, learned>>

(* What the scanners that ran report, each with the severity it knows.       *)
Parsed(defects, ran) == {Finding(d, d.severity) : d \in {x \in defects : x.tool \in ran}}

(* RunScanners: an applicable scanner is not installed, fails, or runs and   *)
(* reports what it can see.  Strict coverage ends a story's review here.     *)
ScanWorktree(r) ==
  /\ review[r].at = "scan"
  /\ \E lost \in SUBSET Applicable(review[r].langs) :
       LET ran == Applicable(review[r].langs) \ lost
           strict == config.require /\ lost # {} /\ r # Command IN
       /\ review' = [review EXCEPT ![r] = [@ EXCEPT
            !.at = IF strict THEN "ended" ELSE "llm", !.found = Parsed(review[r].defects, ran),
            !.unseen = lost]]
       /\ secVerdict' = IF strict THEN [secVerdict EXCEPT ![r] = "flagged"] ELSE secVerdict
  /\ UNCHANGED <<config, kbFile, learned, kbRaced>>

(* callLLM: a failed call or an answer that cannot be parsed adds nothing;   *)
(* the model sees what it sees, with the labels it likes.                    *)
ReviewDiff(r) ==
  /\ review[r].at = "llm"
  /\ \E seen \in SUBSET (IF config.client THEN review[r].defects ELSE {}), known \in BOOLEAN :
       review' = [review EXCEPT ![r] = [@ EXCEPT !.at = "learn",
         !.found = review[r].found \cup
           {Finding(d, ParseSeverity(d.severity, known)) : d \in seen}]]
  /\ UNCHANGED <<config, kbFile, secVerdict, learned, kbRaced>>

(* --- judging and learning ------------------------------------------------------------- *)

(* HasAtLeast(gate): blocked is flagged, the rest has passed.                *)
Judged(r) ==
  IF \E x \in review[r].found : AtLeast(x.severity, config.gate) THEN "flagged" ELSE "passed"

(* A rule covers a class by its id or by its CWE; Add keeps what is there.    *)
Covers(rules, class) == class \in rules
Add(rules, classes) == rules \cup classes

(* upskill: the classes of high findings the loaded base does not cover; the *)
(* events go first, a finding without a class teaches nothing.               *)
NewClasses(r) ==
  {c \in {x.class : x \in {y \in review[r].found : AtLeast(y.severity, SeverityHigh)}} :
     c # "" /\ ~Covers(review[r].kb, c)}
Upskill(r) ==
  /\ review[r].at = "learn"
  /\ LET classes == IF config.autoLearn THEN NewClasses(r) ELSE {} IN
     /\ learned' = learned \cup classes
     /\ review' = [review EXCEPT ![r] = [@ EXCEPT !.kb = {},
          !.rules = IF classes = {} THEN {} ELSE Add(review[r].kb, classes),
          !.at = IF classes = {} THEN "judge" ELSE "save"]]
  /\ UNCHANGED <<config, kbFile, secVerdict, kbRaced>>

(* Save: WriteFile empties the file,                                         *)
OpenKnowledge(r) ==
  /\ review[r].at = "save"
  /\ \/ /\ review' = [review EXCEPT ![r].at = "write"]
        /\ kbFile' = [kbFile EXCEPT !.at = "empty"]
        /\ kbRaced' = (kbRaced \/ Learning \ {r} # {})
     \/ /\ review' = [review EXCEPT ![r].at = "judge", ![r].rules = {}]
        /\ kbRaced' = TRUE /\ UNCHANGED kbFile
  /\ UNCHANGED <<config, secVerdict, learned>>

(* and fills it, over what another has written meanwhile.                    *)
WriteKnowledge(r) ==
  /\ review[r].at = "write"
  /\ review' = [review EXCEPT ![r].at = "judge", ![r].rules = {}]
  /\ kbFile' \in [at : IF kbFile.at = "empty" THEN {"ok"} ELSE {"ok", "garbage"},
                  rules : {review[r].rules}]
  /\ kbRaced' = (kbRaced \/ Learning \ {r} # {})
  /\ UNCHANGED <<config, secVerdict, learned>>

JudgeReview(r) ==
  /\ review[r].at = "judge"
  /\ review' = [review EXCEPT ![r] =
       IF r = Command THEN [NoReview EXCEPT !.at = "ended"]
       ELSE [@ EXCEPT !.at = "ended", !.found = {}]]
  /\ secVerdict' = [secVerdict EXCEPT ![r] = Judged(r)]
  /\ UNCHANGED <<config, kbFile, learned, kbRaced>>

(* postExecutionPipeline: flagged pauses the requirement, an error that is   *)
(* not one of capacity is logged, and the merge follows.                     *)
GoOnToMerge(r) ==
  /\ r # Command /\ secVerdict[r] \in {"passed", "error"}
  /\ secVerdict' = [secVerdict EXCEPT ![r] = "merging"]
  /\ review' = [review EXCEPT ![r].at = IF secVerdict[r] = "error" THEN "unread" ELSE "ended"]
  /\ UNCHANGED <<config, kbFile, learned, kbRaced>>

(* The process dies in the middle of a write; another one starts over with   *)
(* the same configuration.                                                   *)
KillSecurity ==
  /\ \E r \in Reviews : review[r].at = "write"
  /\ review' = [r \in Reviews |->
       IF review[r].at \in {"off", "ended", "unread"} THEN review[r] ELSE NoReview]
  /\ kbRaced' = TRUE /\ UNCHANGED <<config, kbFile, secVerdict, learned>>

SecNext ==
  \/ BuildSecurityGate \/ KillSecurity
  \/ \E r \in Reviews :
       \/ StartReview(r) \/ LoadKnowledge(r) \/ ScanWorktree(r) \/ ReviewDiff(r)
       \/ Upskill(r) \/ OpenKnowledge(r) \/ WriteKnowledge(r) \/ JudgeReview(r)
       \/ GoOnToMerge(r)

SecSpec == SecInit /\ [][SecNext]_secVars

(* --- properties ------------------------------------------------------------------------- *)

SecTypeOK ==
  /\ config \in [at : {"off", "built"}, require : BOOLEAN, autoLearn : BOOLEAN,
                 client : BOOLEAN, gate : 0..4]
  /\ kbFile.at \in {"ok", "empty", "garbage"}
  /\ \A r \in Reviews :
       /\ review[r].at \in {"off", "load", "scan", "llm", "learn", "save", "write", "judge",
                            "ended", "unread"}
       /\ secVerdict[r] \in {"none", "passed", "flagged", "error", "merging"}
  /\ kbRaced \in BOOLEAN

(* A story that goes on to its merge hides nothing its scanners could see: a *)
(* defect of the gate's severity is still in it only where the scanner for   *)
(* it was lost, does not apply to its languages, or the knowledge base could *)
(* not be read; with require_scanners only the last two are left.  And what  *)
(* the agent says it learned is in the file once nobody is writing it,       *)
(* unless two reviews raced for it or a write came to nothing.               *)
MergedIsScanned ==
  /\ \A r \in SecStories : (secVerdict[r] = "merging" /\ review[r].at # "unread") =>
       /\ config.require => review[r].unseen = {}
       /\ \A d \in review[r].defects :
            d.severity >= config.gate =>
              d.tool \in review[r].unseen \/ d.tool \notin Applicable(review[r].langs)
  /\ \/ kbRaced \/ \E r \in Reviews : review[r].at \in {"save", "write"}
     \/ learned \subseteq kbFile.rules
=============================================================================
