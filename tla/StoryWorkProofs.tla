--------------------------- MODULE StoryWorkProofs ---------------------------
(***************************************************************************)
(* What a story goes through on its way to a merge, for any number of      *)
(* stories, defects, attempts and answers of a model: the security review, *)
(* the calls of its review and merge, and its branch from the first commit *)
(* to the push.                                                            *)
(***************************************************************************)
EXTENDS SecurityGate, ModelCalls, StoryBranch, SequenceTheorems, TLAPS

(* --- the security review ------------------------------------------------------ *)

SecClass == STRING \cup Baseline
DefectType == [class : STRING, severity : 0..4, tool : STRING]
FindingType == [class : STRING, severity : 0..4]
ReviewStep ==
  {"off", "load", "scan", "llm", "learn", "save", "write", "judge", "ended", "unread"}
ReviewType ==
  [at : ReviewStep, langs : SUBSET {"go", "javascript"}, defects : SUBSET DefectType,
   kb : SUBSET SecClass, found : SUBSET FindingType,
   unseen : SUBSET {"semgrep", "gosec", "npm"},
   rules : SUBSET SecClass]

SecTyped ==
  /\ config \in [at : {"off", "built"}, require : BOOLEAN, autoLearn : BOOLEAN,
                 client : BOOLEAN, gate : 0..4]
  /\ kbFile \in [at : {"ok", "empty", "garbage"}, rules : SUBSET SecClass]
  /\ review \in [Reviews -> ReviewType]
  /\ secVerdict \in [Reviews -> {"none", "passed", "flagged", "error", "merging"}]
  /\ learned \in SUBSET SecClass /\ kbRaced \in BOOLEAN

(* A review has a verdict when it is over, and none is under way before     *)
(* there is a gate.                                                         *)
VerdictEnds ==
  /\ \A r \in Reviews : secVerdict[r] # "none" => review[r].at \in {"ended", "unread"}
  /\ config.at = "off" => \A r \in Reviews : review[r].at = "off" /\ secVerdict[r] = "none"
  /\ \A r \in Reviews : secVerdict[r] = "merging" => r # Command

(* What the scanners that ran could see is among the findings until they    *)
(* are judged, and what passed shows nothing of it.                         *)
SeenIsFound(r) ==
  /\ config.require => review[r].unseen = {}
  /\ \A d \in review[r].defects :
       d.tool \in Applicable(review[r].langs) /\ d.tool \notin review[r].unseen =>
         Finding(d, d.severity) \in review[r].found
NothingSeen(r) ==
  /\ config.require => review[r].unseen = {}
  /\ \A d \in review[r].defects :
       d.severity >= config.gate =>
         d.tool \in review[r].unseen \/ d.tool \notin Applicable(review[r].langs)
Cleared(r) ==
  secVerdict[r] = "passed" \/ (secVerdict[r] = "merging" /\ review[r].at # "unread")
FindingsStay ==
  \A r \in SecStories : r # Command =>
    /\ review[r].at \in {"llm", "learn", "save", "write", "judge"} => SeenIsFound(r)
    /\ Cleared(r) => NothingSeen(r)

(* As long as nobody raced, one review at most has the knowledge base in    *)
(* hand: what it read is still in the file, and what it is going to write   *)
(* has all that was ever learned.                                           *)
LessonsStay ==
  ~kbRaced =>
    /\ \A r, q \in Learning : r = q
    /\ \A r \in Reviews :
         /\ review[r].at \in {"scan", "llm", "learn"} => review[r].kb = kbFile.rules
         /\ review[r].at \in {"save", "write"} => learned \subseteq review[r].rules
    /\ \/ \E r \in Reviews : review[r].at \in {"save", "write"}
       \/ learned \subseteq kbFile.rules

SecInv == SecTyped /\ VerdictEnds /\ FindingsStay /\ LessonsStay

LEMMA SecInitially == SecInit => SecInv
<1> SUFFICES ASSUME SecInit PROVE SecInv
  OBVIOUS
<1>1. SecTyped
  <2>1. NoReview \in ReviewType
    BY DEF NoReview, ReviewType, ReviewStep
  <2>2. kbFile \in [at : {"ok", "empty", "garbage"}, rules : SUBSET SecClass]
    BY DEF SecInit, BaselineKnowledgeBase, SecClass
  <2>3. config \in [at : {"off", "built"}, require : BOOLEAN, autoLearn : BOOLEAN,
                    client : BOOLEAN, gate : 0..4]
    BY DEF SecInit
  <2> QED BY <2>1, <2>2, <2>3 DEF SecInit, SecTyped
<1>2. VerdictEnds /\ FindingsStay
  BY DEF SecInit, VerdictEnds, FindingsStay, NoReview, Reviews, Cleared
<1>3. LessonsStay
  BY DEF SecInit, LessonsStay, NoReview, Learning
<1> QED BY <1>1, <1>2, <1>3 DEF SecInv

(* A step of one review that keeps the verdicts, the file and what was      *)
(* learned: all that is left to show is about that review.                  *)
LEMMA ReviewGoesOn ==
  ASSUME SecInv, NEW r \in Reviews, NEW x \in ReviewType,
         review' = [review EXCEPT ![r] = x],
         UNCHANGED <<config, kbFile, secVerdict, learned, kbRaced>>,
         config.at # "off", secVerdict[r] = "none",
         r # Command /\ x.at \in {"llm", "learn", "save", "write", "judge"} => SeenIsFound(r)',
         r \in Learning <=> x.at \in {"scan", "llm", "learn", "save", "write"},
         x.at \in {"scan", "llm", "learn"} => x.kb = review[r].kb /\ review[r].at \in {"scan", "llm", "learn"},
         x.at \in {"save", "write"} <=> review[r].at \in {"save", "write"},
         x.at \in {"save", "write"} => x.rules = review[r].rules
  PROVE  SecInv'
<1>1. review'[r] = x /\ \A q \in Reviews : q # r => review'[q] = review[q]
  BY DEF SecInv, SecTyped
<1>2. SecTyped'
  BY DEF SecInv, SecTyped
<1>3. VerdictEnds'
  BY <1>1 DEF SecInv, VerdictEnds
<1>4. FindingsStay'
  <2> SUFFICES ASSUME NEW q \in SecStories, q # Command
               PROVE  /\ review'[q].at \in {"llm", "learn", "save", "write", "judge"} => SeenIsFound(q)'
                      /\ Cleared(q)' => NothingSeen(q)'
    BY DEF FindingsStay
  <2>1. CASE q = r
    BY <1>1, <2>1 DEF Cleared
  <2>2. CASE q # r
    <3>1. review'[q] = review[q] /\ q \in Reviews
      BY <1>1, <2>2 DEF Reviews
    <3>2. (SeenIsFound(q)' <=> SeenIsFound(q)) /\ (NothingSeen(q)' <=> NothingSeen(q))
      BY <3>1 DEF SeenIsFound, NothingSeen
    <3> QED BY <3>1, <3>2 DEF SecInv, FindingsStay, Cleared
  <2> QED BY <2>1, <2>2
<1>5. LessonsStay'
  <2>1. Learning' = Learning
    BY <1>1 DEF Learning
  <2> SUFFICES ASSUME ~kbRaced
               PROVE  /\ \A q, p \in Learning' : q = p
                      /\ \A q \in Reviews :
                           /\ review'[q].at \in {"scan", "llm", "learn"} => review'[q].kb = kbFile.rules
                           /\ review'[q].at \in {"save", "write"} => learned \subseteq review'[q].rules
                      /\ \/ \E q \in Reviews : review'[q].at \in {"save", "write"}
                         \/ learned \subseteq kbFile.rules
    BY DEF LessonsStay
  <2>2. /\ \A q, p \in Learning : q = p
        /\ \A q \in Reviews :
             /\ review[q].at \in {"scan", "llm", "learn"} => review[q].kb = kbFile.rules
             /\ review[q].at \in {"save", "write"} => learned \subseteq review[q].rules
        /\ \/ \E q \in Reviews : review[q].at \in {"save", "write"}
           \/ learned \subseteq kbFile.rules
    BY DEF SecInv, LessonsStay
  <2>3. \A q \in Reviews : review'[q].at \in {"save", "write"} <=> review[q].at \in {"save", "write"}
    BY <1>1
  <2> QED BY <1>1, <2>1, <2>2, <2>3
<1> QED BY <1>2, <1>3, <1>4, <1>5 DEF SecInv

LEMMA ReviewKnown ==
  ASSUME SecInv, NEW r \in Reviews
  PROVE  /\ review[r] \in ReviewType
         /\ review[r].at \notin {"ended", "unread"} => secVerdict[r] = "none"
         /\ review[r].at # "off" => config.at # "off"
BY DEF SecInv, SecTyped, VerdictEnds

LEMMA BuildKeeps ==
  ASSUME SecInv, BuildSecurityGate
  PROVE  SecInv'
<1>1. /\ config.at = "off" /\ UNCHANGED <<kbFile, review, secVerdict, learned, kbRaced>>
      /\ config'.at = "built"
      /\ config' \in [at : {"off", "built"}, require : BOOLEAN, autoLearn : BOOLEAN,
                      client : BOOLEAN, gate : 0..4]
  BY DEF BuildSecurityGate, SeverityMedium, SeverityHigh
<1>2. SecTyped'
  BY <1>1 DEF SecInv, SecTyped
<1>3. VerdictEnds'
  BY <1>1 DEF SecInv, VerdictEnds
<1>4. FindingsStay'
  BY <1>1 DEF SecInv, VerdictEnds, FindingsStay, Reviews, Cleared
<1>5. LessonsStay'
  BY <1>1 DEF SecInv, LessonsStay, Learning
<1> QED BY <1>2, <1>3, <1>4, <1>5 DEF SecInv

LEMMA StartKeeps ==
  ASSUME SecInv, NEW r \in Reviews, StartReview(r)
  PROVE  SecInv'
<1>1. PICK langs \in Languages, ds \in Defects :
        review' = [review EXCEPT ![r] = [NoReview EXCEPT
                     !.at = "load", !.langs = langs, !.defects = ds]]
  BY DEF StartReview
<1> DEFINE x == [NoReview EXCEPT !.at = "load", !.langs = langs, !.defects = ds]
<1>2. x \in ReviewType /\ x.at = "load"
  <2>1. langs \subseteq {"go", "javascript"} /\ ds \subseteq DefectType
    BY SecurityAssumption DEF Languages, DefectType
  <2> QED BY <2>1 DEF NoReview, ReviewType, ReviewStep
<1>3. /\ UNCHANGED <<config, kbFile, secVerdict, learned, kbRaced>> /\ config.at = "built"
      /\ review[r].at = "off" /\ secVerdict[r] = "none"
  BY DEF StartReview
<1>4. review' = [review EXCEPT ![r] = x]
  BY <1>1
<1> HIDE DEF x
<1> QED BY <1>2, <1>3, <1>4, ReviewGoesOn DEF Learning

(* The first look at the knowledge base: without a race nobody else has it  *)
(* in hand.                                                                 *)
LEMMA LoadKeeps ==
  ASSUME SecInv, NEW r \in Reviews, LoadKnowledge(r)
  PROVE  SecInv'
<1>1. /\ review[r].at = "load" /\ UNCHANGED <<config, kbFile, learned>>
      /\ kbRaced' = (kbRaced \/ Learning # {})
  BY DEF LoadKnowledge
<1>2. review[r] \in ReviewType /\ secVerdict[r] = "none" /\ config.at # "off"
  BY <1>1, ReviewKnown
<1>3. kbRaced' \in BOOLEAN
  BY <1>1 DEF SecInv, SecTyped
<1>4. CASE kbFile.at = "ok"
  <2>1. /\ review' = [review EXCEPT ![r].at = "scan", ![r].kb = kbFile.rules]
        /\ secVerdict' = secVerdict
    BY <1>4 DEF LoadKnowledge
  <2>2. review' \in [Reviews -> ReviewType]
    BY <1>2, <2>1 DEF SecInv, SecTyped, ReviewType, ReviewStep
  <2>3. /\ review'[r].at = "scan" /\ review'[r].kb = kbFile.rules
        /\ \A q \in Reviews : q # r => review'[q] = review[q]
    BY <1>2, <2>1 DEF SecInv, SecTyped, ReviewType
  <2>4. SecTyped'
    BY <1>1, <1>3, <2>1, <2>2 DEF SecInv, SecTyped
  <2>5. VerdictEnds'
    BY <1>1, <1>2, <2>1, <2>3 DEF SecInv, VerdictEnds
  <2>6. FindingsStay'
    <3>1. \A q \in SecStories : q # r => (SeenIsFound(q)' <=> SeenIsFound(q))
                                         /\ (NothingSeen(q)' <=> NothingSeen(q))
      BY <1>1, <2>3 DEF SeenIsFound, NothingSeen, Reviews
    <3> QED BY <1>2, <2>1, <2>3, <3>1 DEF SecInv, FindingsStay, Cleared, Reviews
  <2>7. LessonsStay'
    <3> SUFFICES ASSUME ~kbRaced, Learning = {} PROVE LessonsStay'
      BY <1>1 DEF LessonsStay
    <3>1. \A q \in Reviews : review[q].at \notin {"scan", "llm", "learn", "save", "write"}
      BY DEF Learning
    <3>2. learned \subseteq kbFile.rules
      BY <3>1 DEF SecInv, LessonsStay
    <3>3. Learning' = {r}
      BY <2>3, <3>1 DEF Learning
    <3> QED BY <1>1, <2>3, <3>1, <3>2, <3>3 DEF LessonsStay
  <2> QED BY <2>4, <2>5, <2>6, <2>7 DEF SecInv
<1>5. CASE kbFile.at # "ok"
  <2>1. /\ review' = [review EXCEPT ![r] = [NoReview EXCEPT !.at = "ended"]]
        /\ secVerdict' = [secVerdict EXCEPT ![r] = "error"]
    BY <1>5 DEF LoadKnowledge
  <2>2. [NoReview EXCEPT !.at = "ended"] \in ReviewType
    BY DEF NoReview, ReviewType, ReviewStep
  <2>3. /\ review'[r].at = "ended" /\ secVerdict'[r] = "error"
        /\ \A q \in Reviews : q # r => review'[q] = review[q] /\ secVerdict'[q] = secVerdict[q]
    BY <2>1 DEF SecInv, SecTyped, NoReview
  <2>4. SecTyped'
    BY <1>1, <1>3, <2>1, <2>2 DEF SecInv, SecTyped
  <2>5. VerdictEnds'
    BY <1>1, <1>2, <2>3 DEF SecInv, VerdictEnds
  <2>6. FindingsStay'
    <3>1. \A q \in SecStories : q # r => (SeenIsFound(q)' <=> SeenIsFound(q))
                                         /\ (NothingSeen(q)' <=> NothingSeen(q))
      BY <1>1, <2>3 DEF SeenIsFound, NothingSeen, Reviews
    <3> QED BY <2>3, <3>1 DEF SecInv, FindingsStay, Cleared, Reviews
  <2>7. LessonsStay'
    <3>1. Learning' = Learning
      BY <1>1, <2>3 DEF Learning
    <3> QED BY <1>1, <2>3, <3>1 DEF SecInv, LessonsStay
  <2> QED BY <2>4, <2>5, <2>6, <2>7 DEF SecInv
<1> QED BY <1>4, <1>5

LEMMA ScanKeeps ==
  ASSUME SecInv, NEW r \in Reviews, ScanWorktree(r)
  PROVE  SecInv'
<1>1. /\ review[r].at = "scan" /\ UNCHANGED <<config, kbFile, learned, kbRaced>>
  BY DEF ScanWorktree
<1>2. review[r] \in ReviewType /\ secVerdict[r] = "none" /\ config.at # "off"
  BY <1>1, ReviewKnown
<1>3. PICK lost \in SUBSET Applicable(review[r].langs) :
        LET ran == Applicable(review[r].langs) \ lost
            strict == config.require /\ lost # {} /\ r # Command IN
        /\ review' = [review EXCEPT ![r] = [@ EXCEPT
             !.at = IF strict THEN "ended" ELSE "llm", !.found = Parsed(review[r].defects, ran),
             !.unseen = lost]]
        /\ secVerdict' = IF strict THEN [secVerdict EXCEPT ![r] = "flagged"] ELSE secVerdict
  BY DEF ScanWorktree
<1> DEFINE strict == config.require /\ lost # {} /\ r # Command
           found == Parsed(review[r].defects, Applicable(review[r].langs) \ lost)
           x == [review[r] EXCEPT !.at = IF strict THEN "ended" ELSE "llm", !.found = found,
                                  !.unseen = lost]
<1>4. review' = [review EXCEPT ![r] = x]
  BY <1>3 DEF SecInv, SecTyped
<1>5. found \subseteq FindingType
  BY <1>2 DEF Parsed, Finding, FindingType, ReviewType, DefectType
<1>6. lost \subseteq {"semgrep", "gosec", "npm"}
  BY DEF Applicable, ScannerLanguages
<1>7. \A d \in review[r].defects :
        d.tool \in Applicable(review[r].langs) /\ d.tool \notin lost =>
          Finding(d, d.severity) \in found
  BY DEF Parsed
<1> HIDE DEF found
<1>8. /\ x \in ReviewType /\ x.at = (IF strict THEN "ended" ELSE "llm")
      /\ x.found = found /\ x.unseen = lost /\ x.defects = review[r].defects
      /\ x.langs = review[r].langs /\ x.kb = review[r].kb /\ x.rules = review[r].rules
  BY <1>2, <1>5, <1>6 DEF ReviewType, ReviewStep
<1> HIDE DEF x
<1>9. review'[r] = x /\ \A q \in Reviews : q # r => review'[q] = review[q]
  BY <1>4 DEF SecInv, SecTyped
<1>10. CASE strict
  <2>1. secVerdict' = [secVerdict EXCEPT ![r] = "flagged"] /\ x.at = "ended"
    BY <1>3, <1>8, <1>10
  <2>2. /\ secVerdict'[r] = "flagged"
        /\ \A q \in Reviews : q # r => secVerdict'[q] = secVerdict[q]
    BY <2>1 DEF SecInv, SecTyped
  <2>3. SecTyped'
    BY <1>1, <1>4, <1>8, <2>1 DEF SecInv, SecTyped
  <2>4. VerdictEnds'
    BY <1>1, <1>2, <1>9, <2>1, <2>2 DEF SecInv, VerdictEnds
  <2>5. FindingsStay'
    <3>1. \A q \in SecStories : q # r => (SeenIsFound(q)' <=> SeenIsFound(q))
                                         /\ (NothingSeen(q)' <=> NothingSeen(q))
      BY <1>1, <1>9 DEF SeenIsFound, NothingSeen, Reviews
    <3> QED BY <1>9, <2>1, <2>2, <3>1 DEF SecInv, FindingsStay, Cleared, Reviews
  <2>6. LessonsStay'
    <3> SUFFICES ASSUME ~kbRaced PROVE LessonsStay'
      BY <1>1 DEF LessonsStay
    <3>1. Learning' \subseteq Learning
      BY <1>9, <2>1 DEF Learning
    <3>2. \A q \in Reviews : review'[q].at \in {"save", "write"} <=> review[q].at \in {"save", "write"}
      BY <1>1, <1>9, <2>1
    <3> QED BY <1>1, <1>9, <2>1, <3>1, <3>2 DEF SecInv, LessonsStay
  <2> QED BY <2>3, <2>4, <2>5, <2>6 DEF SecInv
<1>11. CASE ~strict
  <2>1. secVerdict' = secVerdict /\ x.at = "llm"
    BY <1>3, <1>8, <1>11
  <2>2. r # Command => SeenIsFound(r)'
    BY <1>1, <1>7, <1>8, <1>9, <1>11 DEF SeenIsFound
  <2> QED BY <1>1, <1>2, <1>4, <1>8, <2>1, <2>2, ReviewGoesOn DEF Learning
<1> QED BY <1>10, <1>11

LEMMA OthersKeepFindings ==
  ASSUME SecInv, NEW r \in Reviews, config' = config,
         \A q \in Reviews : q # r => review'[q] = review[q] /\ secVerdict'[q] = secVerdict[q],
         r # Command /\ review'[r].at \in {"llm", "learn", "save", "write", "judge"}
           => SeenIsFound(r)',
         r # Command /\ Cleared(r)' => NothingSeen(r)'
  PROVE  FindingsStay'
<1> SUFFICES ASSUME NEW q \in SecStories, q # Command
             PROVE  /\ review'[q].at \in {"llm", "learn", "save", "write", "judge"} => SeenIsFound(q)'
                    /\ Cleared(q)' => NothingSeen(q)'
  BY DEF FindingsStay
<1>1. CASE q = r
  BY <1>1
<1>2. CASE q # r
  <2>1. review'[q] = review[q] /\ secVerdict'[q] = secVerdict[q]
    BY <1>2 DEF Reviews
  <2>2. (SeenIsFound(q)' <=> SeenIsFound(q)) /\ (NothingSeen(q)' <=> NothingSeen(q))
    BY <2>1 DEF SeenIsFound, NothingSeen
  <2> QED BY <2>1, <2>2 DEF SecInv, FindingsStay, Cleared
<1> QED BY <1>1, <1>2

LEMMA DiffKeeps ==
  ASSUME SecInv, NEW r \in Reviews, ReviewDiff(r)
  PROVE  SecInv'
<1>1. /\ review[r].at = "llm" /\ UNCHANGED <<config, kbFile, secVerdict, learned, kbRaced>>
  BY DEF ReviewDiff
<1>2. review[r] \in ReviewType /\ secVerdict[r] = "none" /\ config.at # "off"
  BY <1>1, ReviewKnown
<1>3. PICK seen \in SUBSET (IF config.client THEN review[r].defects ELSE {}), known \in BOOLEAN :
        review' = [review EXCEPT ![r] = [@ EXCEPT !.at = "learn",
          !.found = review[r].found \cup
            {Finding(d, ParseSeverity(d.severity, known)) : d \in seen}]]
  BY DEF ReviewDiff
<1> DEFINE added == {Finding(d, ParseSeverity(d.severity, known)) : d \in seen}
           x == [review[r] EXCEPT !.at = "learn", !.found = review[r].found \cup added]
<1>4. review' = [review EXCEPT ![r] = x]
  BY <1>3 DEF SecInv, SecTyped
<1>5. added \subseteq FindingType
  <2>1. seen \subseteq DefectType
    BY <1>2 DEF ReviewType
  <2>2. \A d \in seen : ParseSeverity(d.severity, known) \in 0..4 /\ d.class \in STRING
    BY <2>1 DEF DefectType, ParseSeverity
  <2> QED BY <2>2 DEF Finding, FindingType
<1> HIDE DEF added
<1>6. /\ x \in ReviewType /\ x.at = "learn" /\ x.found = review[r].found \cup added
      /\ x.unseen = review[r].unseen /\ x.defects = review[r].defects
      /\ x.langs = review[r].langs /\ x.kb = review[r].kb
  BY <1>2, <1>5 DEF ReviewType, ReviewStep
<1> HIDE DEF x
<1>7. review'[r] = x
  BY <1>4 DEF SecInv, SecTyped
<1>8. r # Command => SeenIsFound(r)
  BY <1>1 DEF SecInv, FindingsStay, Cleared, Reviews
<1>9. r # Command => SeenIsFound(r)'
  BY <1>1, <1>6, <1>7, <1>8 DEF SeenIsFound
<1> QED BY <1>1, <1>2, <1>4, <1>6, <1>9, ReviewGoesOn DEF Learning

(* What is new is recorded, and merged into the base that was read, which   *)
(* is the file's as long as nobody raced.                                   *)
LEMMA UpskillKeeps ==
  ASSUME SecInv, NEW r \in Reviews, Upskill(r)
  PROVE  SecInv'
<1> DEFINE classes == IF config.autoLearn THEN NewClasses(r) ELSE {}
           x == [review[r] EXCEPT !.kb = {},
                   !.rules = IF classes = {} THEN {} ELSE Add(review[r].kb, classes),
                   !.at = IF classes = {} THEN "judge" ELSE "save"]
<1>1. /\ review[r].at = "learn" /\ learned' = learned \cup classes
      /\ UNCHANGED <<config, kbFile, secVerdict, kbRaced>>
  BY DEF Upskill
<1>2. review[r] \in ReviewType /\ secVerdict[r] = "none" /\ config.at # "off"
  BY <1>1, ReviewKnown
<1>3. review' = [review EXCEPT ![r] = x]
  BY DEF Upskill, SecInv, SecTyped
<1>4. classes \subseteq SecClass
  <2>1. review[r].found \subseteq FindingType
    BY <1>2 DEF ReviewType
  <2>2. \A c \in NewClasses(r) : \E y \in review[r].found : c = y.class
    BY DEF NewClasses
  <2> QED BY <2>1, <2>2 DEF FindingType, SecClass
<1> HIDE DEF classes
<1>5. /\ x \in ReviewType /\ x.at = (IF classes = {} THEN "judge" ELSE "save")
      /\ x.found = review[r].found /\ x.unseen = review[r].unseen
      /\ x.defects = review[r].defects /\ x.langs = review[r].langs
      /\ classes # {} => x.rules = review[r].kb \cup classes
  BY <1>2, <1>4 DEF ReviewType, ReviewStep, Add
<1> HIDE DEF x
<1>6. review'[r] = x /\ \A q \in Reviews : q # r => review'[q] = review[q]
  BY <1>3 DEF SecInv, SecTyped
<1>7. SecTyped'
  BY <1>1, <1>3, <1>4, <1>5 DEF SecInv, SecTyped
<1>8. VerdictEnds'
  BY <1>1, <1>2, <1>6 DEF SecInv, VerdictEnds
<1>9. FindingsStay'
  <2>1. r # Command => SeenIsFound(r)
    BY <1>1 DEF SecInv, FindingsStay, Cleared, Reviews
  <2>2. r # Command => SeenIsFound(r)'
    BY <1>1, <1>5, <1>6, <2>1 DEF SeenIsFound
  <2> QED BY <1>1, <1>2, <1>6, <2>2, OthersKeepFindings DEF Cleared
<1>10. LessonsStay'
  <2> SUFFICES ASSUME ~kbRaced PROVE LessonsStay'
    BY <1>1 DEF LessonsStay
  <2>1. r \in Learning /\ \A q \in Learning : q = r
    BY <1>1 DEF Learning, SecInv, LessonsStay
  <2>2. \A q \in Reviews : q # r =>
          review[q].at \notin {"scan", "llm", "learn", "save", "write"}
    BY <2>1 DEF Learning
  <2>3. review[r].kb = kbFile.rules /\ learned \subseteq kbFile.rules
    BY <1>1, <2>2 DEF SecInv, LessonsStay
  <2>4. Learning' \subseteq {r}
    BY <1>6, <2>2 DEF Learning
  <2>5. \A q \in Reviews : review'[q].at \notin {"scan", "llm", "learn"}
    BY <1>5, <1>6, <2>2
  <2>6. CASE classes = {}
    <3>1. learned' \subseteq kbFile'.rules
      BY <1>1, <2>3, <2>6
    <3>2. \A q \in Reviews : review'[q].at \notin {"save", "write"}
      BY <1>5, <1>6, <2>2, <2>6
    <3> QED BY <2>4, <2>5, <3>1, <3>2 DEF LessonsStay
  <2>7. CASE classes # {}
    <3>1. learned' \subseteq review'[r].rules /\ review'[r].at = "save"
      BY <1>1, <1>5, <1>6, <2>3, <2>7
    <3>2. \A q \in Reviews : review'[q].at \in {"save", "write"} => q = r
      BY <1>6, <2>2
    <3> QED BY <2>4, <2>5, <3>1, <3>2 DEF LessonsStay
  <2> QED BY <2>6, <2>7
<1> QED BY <1>7, <1>8, <1>9, <1>10 DEF SecInv

LEMMA OpenKeeps ==
  ASSUME SecInv, NEW r \in Reviews, OpenKnowledge(r)
  PROVE  SecInv'
<1>1. review[r].at = "save" /\ UNCHANGED <<config, secVerdict, learned>>
  BY DEF OpenKnowledge
<1>2. review[r] \in ReviewType /\ secVerdict[r] = "none" /\ config.at # "off"
  BY <1>1, ReviewKnown
<1>3. r # Command => SeenIsFound(r)
  BY <1>1 DEF SecInv, FindingsStay, Cleared, Reviews
<1>4. CASE /\ review' = [review EXCEPT ![r].at = "write"]
           /\ kbFile' = [kbFile EXCEPT !.at = "empty"]
           /\ kbRaced' = (kbRaced \/ Learning \ {r} # {})
  <2>1. /\ review' \in [Reviews -> ReviewType]
        /\ kbFile' \in [at : {"ok", "empty", "garbage"}, rules : SUBSET SecClass]
        /\ kbFile'.rules = kbFile.rules /\ kbRaced' \in BOOLEAN
    BY <1>2, <1>4 DEF SecInv, SecTyped, ReviewType, ReviewStep
  <2>2. /\ review'[r].at = "write" /\ review'[r].rules = review[r].rules
        /\ review'[r].found = review[r].found /\ review'[r].unseen = review[r].unseen
        /\ review'[r].defects = review[r].defects /\ review'[r].langs = review[r].langs
        /\ \A q \in Reviews : q # r => review'[q] = review[q]
    BY <1>2, <1>4 DEF SecInv, SecTyped, ReviewType
  <2>3. SecTyped'
    BY <1>1, <2>1 DEF SecInv, SecTyped
  <2>4. VerdictEnds'
    BY <1>1, <1>2, <2>2 DEF SecInv, VerdictEnds
  <2>5. FindingsStay'
    <3>1. r # Command => SeenIsFound(r)'
      BY <1>1, <1>3, <2>2 DEF SeenIsFound
    <3> QED BY <1>1, <1>2, <2>2, <3>1, OthersKeepFindings DEF Cleared
  <2>6. LessonsStay'
    <3> SUFFICES ASSUME ~kbRaced PROVE LessonsStay'
      BY <1>4 DEF LessonsStay
    <3>1. Learning' = Learning
      BY <1>1, <2>2 DEF Learning
    <3>2. \A q, p \in Learning : q = p
      BY DEF SecInv, LessonsStay
    <3>3. \A q \in Reviews :
            /\ review'[q].at \in {"scan", "llm", "learn"} => review'[q].kb = kbFile'.rules
            /\ review'[q].at \in {"save", "write"} => learned' \subseteq review'[q].rules
      BY <1>1, <2>1, <2>2 DEF SecInv, LessonsStay
    <3> QED BY <2>2, <3>1, <3>2, <3>3 DEF LessonsStay
  <2> QED BY <2>3, <2>4, <2>5, <2>6 DEF SecInv
<1>5. CASE /\ review' = [review EXCEPT ![r].at = "judge", ![r].rules = {}]
           /\ kbRaced' = TRUE /\ UNCHANGED kbFile
  <2>1. review' \in [Reviews -> ReviewType]
    BY <1>2, <1>5 DEF SecInv, SecTyped, ReviewType, ReviewStep
  <2>2. /\ review'[r].at = "judge"
        /\ review'[r].found = review[r].found /\ review'[r].unseen = review[r].unseen
        /\ review'[r].defects = review[r].defects /\ review'[r].langs = review[r].langs
        /\ \A q \in Reviews : q # r => review'[q] = review[q]
    BY <1>2, <1>5 DEF SecInv, SecTyped, ReviewType
  <2>3. SecTyped'
    BY <1>1, <1>5, <2>1 DEF SecInv, SecTyped
  <2>4. VerdictEnds'
    BY <1>1, <1>2, <2>2 DEF SecInv, VerdictEnds
  <2>5. FindingsStay'
    <3>1. r # Command => SeenIsFound(r)'
      BY <1>1, <1>3, <2>2 DEF SeenIsFound
    <3> QED BY <1>1, <1>2, <2>2, <3>1, OthersKeepFindings DEF Cleared
  <2>6. LessonsStay'
    BY <1>5 DEF LessonsStay
  <2> QED BY <2>3, <2>4, <2>5, <2>6 DEF SecInv
<1> QED BY <1>4, <1>5 DEF OpenKnowledge

LEMMA WriteKbKeeps ==
  ASSUME SecInv, NEW r \in Reviews, WriteKnowledge(r)
  PROVE  SecInv'
<1>1. /\ review[r].at = "write" /\ UNCHANGED <<config, secVerdict, learned>>
      /\ review' = [review EXCEPT ![r].at = "judge", ![r].rules = {}]
      /\ kbRaced' = (kbRaced \/ Learning \ {r} # {})
      /\ kbFile' \in [at : IF kbFile.at = "empty" THEN {"ok"} ELSE {"ok", "garbage"},
                      rules : {review[r].rules}]
  BY DEF WriteKnowledge
<1>2. review[r] \in ReviewType /\ secVerdict[r] = "none" /\ config.at # "off"
  BY <1>1, ReviewKnown
<1>3. review' \in [Reviews -> ReviewType] /\ kbRaced' \in BOOLEAN
  BY <1>1, <1>2 DEF SecInv, SecTyped, ReviewType, ReviewStep
<1>4. /\ kbFile' \in [at : {"ok", "empty", "garbage"}, rules : SUBSET SecClass]
      /\ kbFile'.rules = review[r].rules
  BY <1>1, <1>2 DEF ReviewType
<1>5. /\ review'[r].at = "judge"
      /\ review'[r].found = review[r].found /\ review'[r].unseen = review[r].unseen
      /\ review'[r].defects = review[r].defects /\ review'[r].langs = review[r].langs
      /\ \A q \in Reviews : q # r => review'[q] = review[q]
  BY <1>1, <1>2 DEF SecInv, SecTyped, ReviewType
<1>6. SecTyped'
  BY <1>1, <1>3, <1>4 DEF SecInv, SecTyped
<1>7. VerdictEnds'
  BY <1>1, <1>2, <1>5 DEF SecInv, VerdictEnds
<1>8. FindingsStay'
  <2>1. r # Command => SeenIsFound(r)
    BY <1>1 DEF SecInv, FindingsStay, Cleared, Reviews
  <2>2. r # Command => SeenIsFound(r)'
    BY <1>1, <1>5, <2>1 DEF SeenIsFound
  <2> QED BY <1>1, <1>2, <1>5, <2>2, OthersKeepFindings DEF Cleared
<1>9. LessonsStay'
  <2> SUFFICES ASSUME ~kbRaced, Learning \subseteq {r} PROVE LessonsStay'
    BY <1>1 DEF LessonsStay
  <2>1. \A q \in Reviews : review'[q].at \notin {"scan", "llm", "learn", "save", "write"}
    BY <1>5 DEF Learning
  <2>2. learned' \subseteq kbFile'.rules
    BY <1>1, <1>4 DEF SecInv, LessonsStay
  <2> QED BY <2>1, <2>2 DEF LessonsStay, Learning
<1> QED BY <1>6, <1>7, <1>8, <1>9 DEF SecInv

(* Passed: no finding is of the gate's severity, and what could be seen is  *)
(* among the findings.                                                      *)
LEMMA JudgeKeeps ==
  ASSUME SecInv, NEW r \in Reviews, JudgeReview(r)
  PROVE  SecInv'
<1> DEFINE x == IF r = Command THEN [NoReview EXCEPT !.at = "ended"]
                ELSE [review[r] EXCEPT !.at = "ended", !.found = {}]
<1>1. /\ review[r].at = "judge" /\ UNCHANGED <<config, kbFile, learned, kbRaced>>
      /\ review' = [review EXCEPT ![r] = x]
      /\ secVerdict' = [secVerdict EXCEPT ![r] = Judged(r)]
  BY DEF JudgeReview, SecInv, SecTyped
<1>2. review[r] \in ReviewType /\ secVerdict[r] = "none" /\ config.at # "off"
  BY <1>1, ReviewKnown
<1>3. /\ x \in ReviewType /\ x.at = "ended"
      /\ r # Command => /\ x.unseen = review[r].unseen /\ x.defects = review[r].defects
                        /\ x.langs = review[r].langs
  BY <1>2 DEF NoReview, ReviewType, ReviewStep
<1> HIDE DEF x
<1>4. /\ review'[r] = x /\ secVerdict'[r] = Judged(r)
      /\ \A q \in Reviews : q # r => review'[q] = review[q] /\ secVerdict'[q] = secVerdict[q]
  BY <1>1 DEF SecInv, SecTyped
<1>5. Judged(r) \in {"passed", "flagged"}
  BY DEF Judged
<1>6. SecTyped'
  BY <1>1, <1>3, <1>5 DEF SecInv, SecTyped
<1>7. VerdictEnds'
  BY <1>1, <1>2, <1>3, <1>4, <1>5 DEF SecInv, VerdictEnds
<1>8. FindingsStay'
  <2>1. ASSUME r # Command, Judged(r) = "passed" PROVE NothingSeen(r)'
    <3>1. SeenIsFound(r)
      BY <1>1, <2>1 DEF SecInv, FindingsStay, Cleared, Reviews
    <3>2. \A y \in review[r].found : ~(y.severity >= config.gate)
      BY <2>1 DEF Judged, AtLeast
    <3>3. \A d \in review[r].defects : Finding(d, d.severity).severity = d.severity
      BY DEF Finding
    <3>4. \A d \in review[r].defects :
            d.severity >= config.gate =>
              d.tool \in review[r].unseen \/ d.tool \notin Applicable(review[r].langs)
      BY <3>1, <3>2, <3>3 DEF SeenIsFound
    <3>5. config.require => review[r].unseen = {}
      BY <3>1 DEF SeenIsFound
    <3> QED BY <1>1, <1>3, <1>4, <2>1, <3>4, <3>5 DEF NothingSeen
  <2> QED BY <1>1, <1>3, <1>4, <1>5, <2>1, OthersKeepFindings DEF Cleared
<1>9. LessonsStay'
  <2>1. Learning' = Learning
    BY <1>1, <1>3, <1>4 DEF Learning
  <2>2. \A q \in Reviews : review'[q].at \in {"scan", "llm", "learn", "save", "write"}
                             => review'[q] = review[q]
    BY <1>3, <1>4
  <2>3. \A q \in Reviews : review'[q].at \in {"save", "write"} <=> review[q].at \in {"save", "write"}
    BY <1>1, <1>3, <1>4
  <2> QED BY <1>1, <2>1, <2>2, <2>3 DEF SecInv, LessonsStay
<1> QED BY <1>6, <1>7, <1>8, <1>9 DEF SecInv

LEMMA MergeKeeps ==
  ASSUME SecInv, NEW r \in Reviews, GoOnToMerge(r)
  PROVE  SecInv'
<1> DEFINE at == IF secVerdict[r] = "error" THEN "unread" ELSE "ended"
<1>1. /\ r # Command /\ secVerdict[r] \in {"passed", "error"}
      /\ secVerdict' = [secVerdict EXCEPT ![r] = "merging"]
      /\ review' = [review EXCEPT ![r].at = at]
      /\ UNCHANGED <<config, kbFile, learned, kbRaced>>
  BY DEF GoOnToMerge
<1>2. /\ review[r] \in ReviewType /\ config.at # "off"
      /\ review[r].at \in {"ended", "unread"}
  BY <1>1 DEF SecInv, SecTyped, VerdictEnds
<1>3. /\ review'[r].at = at /\ secVerdict'[r] = "merging"
      /\ review'[r].unseen = review[r].unseen /\ review'[r].defects = review[r].defects
      /\ review'[r].langs = review[r].langs
      /\ \A q \in Reviews : q # r => review'[q] = review[q] /\ secVerdict'[q] = secVerdict[q]
  BY <1>1, <1>2 DEF SecInv, SecTyped, ReviewType
<1>4. SecTyped'
  BY <1>1, <1>2 DEF SecInv, SecTyped, ReviewType, ReviewStep
<1>5. VerdictEnds'
  BY <1>1, <1>2, <1>3 DEF SecInv, VerdictEnds
<1>6. FindingsStay'
  <2>1. ASSUME at # "unread" PROVE NothingSeen(r)'
    <3>1. secVerdict[r] = "passed"
      BY <1>1, <2>1
    <3>2. NothingSeen(r)
      BY <1>1, <3>1 DEF SecInv, FindingsStay, Cleared, Reviews
    <3> QED BY <1>1, <1>3, <3>2 DEF NothingSeen
  <2> QED BY <1>1, <1>3, <2>1, OthersKeepFindings DEF Cleared
<1>7. LessonsStay'
  <2>1. Learning' = Learning
    BY <1>2, <1>3 DEF Learning
  <2>2. \A q \in Reviews : review'[q].at \in {"scan", "llm", "learn", "save", "write"}
                             => review'[q] = review[q]
    BY <1>3
  <2>3. \A q \in Reviews : review'[q].at \in {"save", "write"} <=> review[q].at \in {"save", "write"}
    BY <1>2, <1>3
  <2> QED BY <1>1, <2>1, <2>2, <2>3 DEF SecInv, LessonsStay
<1> QED BY <1>4, <1>5, <1>6, <1>7 DEF SecInv

LEMMA KillKeeps ==
  ASSUME SecInv, KillSecurity
  PROVE  SecInv'
<1>1. /\ kbRaced' = TRUE /\ UNCHANGED <<config, kbFile, secVerdict, learned>>
      /\ review' = [r \in Reviews |->
           IF review[r].at \in {"off", "ended", "unread"} THEN review[r] ELSE NoReview]
  BY DEF KillSecurity
<1>2. NoReview \in ReviewType /\ NoReview.at = "off"
  BY DEF NoReview, ReviewType, ReviewStep
<1>3. \A r \in Reviews : review'[r] = review[r] \/ (review'[r] = NoReview /\ secVerdict[r] = "none")
  BY <1>1, ReviewKnown
<1>4. SecTyped'
  BY <1>1, <1>2 DEF SecInv, SecTyped
<1>5. VerdictEnds'
  BY <1>1, <1>2, <1>3 DEF SecInv, VerdictEnds
<1>6. FindingsStay'
  <2>1. \A q \in SecStories : review'[q] = review[q] =>
          (SeenIsFound(q)' <=> SeenIsFound(q)) /\ (NothingSeen(q)' <=> NothingSeen(q))
    BY <1>1 DEF SeenIsFound, NothingSeen
  <2> QED BY <1>1, <1>2, <1>3, <2>1 DEF SecInv, FindingsStay, Cleared, Reviews
<1>7. LessonsStay'
  BY <1>1 DEF LessonsStay
<1> QED BY <1>4, <1>5, <1>6, <1>7 DEF SecInv

LEMMA SecStepKeeps == SecInv /\ [SecNext]_secVars => SecInv'
<1> SUFFICES ASSUME SecInv, [SecNext]_secVars PROVE SecInv'
  OBVIOUS
<1>1. CASE UNCHANGED secVars
  <2>1. UNCHANGED <<config, kbFile, review, secVerdict, learned, kbRaced>>
    BY <1>1 DEF secVars
  <2>2. SecTyped' /\ VerdictEnds'
    BY <2>1 DEF SecInv, SecTyped, VerdictEnds
  <2>3. FindingsStay'
    BY <2>1 DEF SecInv, FindingsStay, Cleared, SeenIsFound, NothingSeen
  <2>4. LessonsStay'
    BY <2>1 DEF SecInv, LessonsStay, Learning
  <2> QED BY <2>2, <2>3, <2>4 DEF SecInv
<1>2. CASE BuildSecurityGate \/ KillSecurity
  BY <1>2, BuildKeeps, KillKeeps
<1>3. ASSUME NEW r \in Reviews,
             \/ StartReview(r) \/ LoadKnowledge(r) \/ ScanWorktree(r) \/ ReviewDiff(r)
             \/ Upskill(r)
      PROVE  SecInv'
  BY <1>3, StartKeeps, LoadKeeps, ScanKeeps, DiffKeeps, UpskillKeeps
<1>4. ASSUME NEW r \in Reviews,
             \/ OpenKnowledge(r) \/ WriteKnowledge(r) \/ JudgeReview(r) \/ GoOnToMerge(r)
      PROVE  SecInv'
  BY <1>4, OpenKeeps, WriteKbKeeps, JudgeKeeps, MergeKeeps
<1> QED BY <1>1, <1>2, <1>3, <1>4 DEF SecNext

(* For any number of stories and reviews side by side and any defects: a    *)
(* story that goes on to its merge hides nothing its scanners could see,    *)
(* and what the agent says it learned is in the knowledge base, with the    *)
(* exceptions MergedIsScanned names.                                        *)
THEOREM MergesAreScanned == SecSpec => []MergedIsScanned
<1>1. SecInv => MergedIsScanned
  <2> SUFFICES ASSUME SecInv PROVE MergedIsScanned
    OBVIOUS
  <2>1. ASSUME NEW r \in SecStories, secVerdict[r] = "merging", review[r].at # "unread"
        PROVE  NothingSeen(r)
    <3>1. r # Command
      BY <2>1 DEF SecInv, VerdictEnds, Reviews
    <3> QED BY <2>1, <3>1 DEF SecInv, FindingsStay, Cleared
  <2>2. kbRaced \/ (\E r \in Reviews : review[r].at \in {"save", "write"})
        \/ learned \subseteq kbFile.rules
    BY DEF SecInv, LessonsStay
  <2> QED BY <2>1, <2>2 DEF MergedIsScanned, NothingSeen
<1> QED BY <1>1, SecInitially, SecStepKeeps, PTL DEF SecSpec

(* --- the calls of a model ---------------------------------------------------------- *)

(* What a call returns is an answer it has met, or one that was worded anew *)
(* on the way.                                                              *)
ResultWasHeard ==
  result \notin {"none", "deadline"} =>
    result \in heard \/ (result = "plain" /\ "denied" \in heard)

McInv == charges \in Nat /\ ResultWasHeard

LEMMA AnswerIsHeard ==
  ASSUME McInv, NEW answer, Answer(answer)
  PROVE  McInv'
<1>1. result = "none" /\ heard' = heard \cup {answer} /\ charges' = charges
  BY DEF Answer
<1>2. result' = result \/ result' \in Wrapped(answer)
  BY DEF Answer, Returns
<1>3. CASE result' = result
  BY <1>1, <1>3 DEF McInv, ResultWasHeard
<1>4. CASE result' \in Wrapped(answer)
  <2>1. result' = answer \/ (answer = "denied" /\ result' = "plain")
    BY <1>4 DEF Wrapped
  <2> QED BY <1>1, <2>1 DEF McInv, ResultWasHeard
<1> QED BY <1>2, <1>3, <1>4

(* How a call is settled: the attempts go up by what is charged, and the    *)
(* next call has met nothing yet.                                           *)
LEMMA SettledCall ==
  ASSUME McInv, NEW at, NEW charged \in {0, 1}, NEW pauses, Settles(at, charged, pauses)
  PROVE  McInv' /\ (charged = 0 => charges' = charges)
BY DEF Settles, McInv, ResultWasHeard

(* Every return of a call, and what it may have charged.                    *)
LEMMA ReturnsCharge ==
  ASSUME McInv,
         \/ PlanReturns \/ ReviewReturns \/ MergeReturns \/ ManualReturns
         \/ DiagnosisReturns \/ RePlanReturns \/ EmptyAgent
  PROVE  /\ McInv'
         /\ \/ charges' = charges
            \/ caller \in {"none", "manual"}
            \/ /\ result \notin {"none", "ok", "denied", "limited", "down"}
<1>1. CASE PlanReturns
  BY <1>1, SettledCall DEF PlanReturns
<1>2. CASE ReviewReturns
  BY <1>2, SettledCall DEF ReviewReturns, Charge, Pause, IsFatalAPIError, IsCapacityError
<1>3. CASE MergeReturns
  BY <1>3, SettledCall DEF MergeReturns, Charge, Pause, IsFatalAPIError, IsCapacityError,
                           Completions
<1>4. CASE ManualReturns
  BY <1>4, SettledCall DEF ManualReturns, Charge, Pause
<1>5. CASE DiagnosisReturns
  BY <1>5, SettledCall DEF DiagnosisReturns, Charge, Pause, IsFatalAPIError, IsCapacityError
<1>6. CASE RePlanReturns
  BY <1>6, SettledCall DEF RePlanReturns, Pause
<1>7. CASE EmptyAgent
  BY <1>7, SettledCall DEF EmptyAgent, Charge, Pause
<1> QED BY <1>1, <1>2, <1>3, <1>4, <1>5, <1>6, <1>7

LEMMA McStep ==
  ASSUME McInv, [McNext]_mcVars
  PROVE  /\ McInv'
         /\ \/ charges' = charges
            \/ caller \in {"none", "manual"}
            \/ /\ result \notin {"none", "ok", "denied", "limited", "down"}
<1>1. CASE \/ BuildClients \/ SkipPrimary \/ RetryAgain \/ MinutePasses \/ CooldownEnds
           \/ Dispatch \/ ResumePaused \/ UNCHANGED mcVars
  <2>1. UNCHANGED <<heard, result, charges>>
    BY <1>1 DEF BuildClients, SkipPrimary, RetryAgain, MinutePasses, CooldownEnds, Dispatch,
                ResumePaused, mcVars, Outside
  <2> QED BY <2>1 DEF McInv, ResultWasHeard
<1>2. CASE AskPlan \/ AskReview \/ AskMerge \/ AskDiagnosis \/ AskRePlan
  <2>1. result' = "none" /\ charges' = charges
    BY <1>2 DEF AskPlan, AskReview, AskMerge, AskDiagnosis, AskRePlan, Asks, Outside
  <2> QED BY <2>1 DEF McInv, ResultWasHeard
<1>3. CASE ProviderAnswers
  <2>1. PICK answer \in APIAnswers : Answer(answer)
    BY <1>3 DEF ProviderAnswers
  <2>2. charges' = charges
    BY <2>1 DEF Answer
  <2> QED BY <2>1, <2>2, AnswerIsHeard
<1>4. CASE Deadline
  <2>1. result' = "deadline" /\ charges' = charges
    BY <1>4 DEF Deadline, Outside
  <2> QED BY <2>1 DEF McInv, ResultWasHeard
<1> QED BY <1>1, <1>2, <1>3, <1>4, ReturnsCharge DEF McNext

(* Whatever stacks, retries, quotas and deadlines: an outage the code can   *)
(* tell, by its type or signature, never costs a story an attempt.          *)
THEOREM OutagesAreFree == McSpec => OutageCostsNothing
<1> DEFINE Free == (charges' > charges /\ caller \notin {"none", "manual"})
                     => (result = "deadline" \/ heard \ {"limited", "down"} # {})
<1>1. McInit => McInv
  BY DEF McInit, McInv, ResultWasHeard
<1>2. McInv /\ [McNext]_mcVars => McInv'
  BY McStep
<1>3. McInv /\ [McNext]_mcVars => [Free]_mcVars
  <2> SUFFICES ASSUME McInv, [McNext]_mcVars, charges' > charges,
                      caller \notin {"none", "manual"}, result # "deadline"
               PROVE  heard \ {"limited", "down"} # {}
    OBVIOUS
  <2>1. charges' # charges
    BY DEF McInv
  <2>2. result \notin {"none", "ok", "denied", "limited", "down"}
    BY <2>1, McStep
  <2>3. result \in heard \/ "denied" \in heard
    BY <2>2 DEF McInv, ResultWasHeard
  <2> QED BY <2>2, <2>3
<1> QED BY <1>1, <1>2, <1>3, PTL DEF McSpec, OutageCostsNothing

(* --- the branch ------------------------------------------------------------------ *)

(* Every tree is one in which the story's side was given up for files of    *)
(* the three kinds only.                                                    *)
RuleKinds == {"lock", "binary", "compiled"}
TreeType ==
  [work : SUBSET Nat, onto : Nat, markers : BOOLEAN, lost : SUBSET RuleKinds,
   copied : BOOLEAN]
HeadOn(places) == [on : places, tree : TreeType, orig : {<<>>}]
InRebase == [on : {"rebasing"}, tree : TreeType, orig : HeadOn({"branch", "detached"})]
PipelineStep ==
  {"idle", "agent", "hygiene", "rebase", "rounds", "premerge", "basecheck", "push", "merge"}
JobType ==
  [at : PipelineStep,
   round : Nat, fetched : Nat, green : BOOLEAN, base : BOOLEAN]
BranchTyped ==
  /\ head \in HeadOn({"none", "branch", "detached", "merged"}) \cup InRebase
  /\ branchTip \in TreeType
  /\ baseTip \in [n : Nat, green : BOOLEAN]
  /\ job \in JobType
  /\ attempt \in Nat /\ moves \in Nat /\ strayed \in BOOLEAN

(* Where HEAD can be at each point of the pipeline.                         *)
HeadFits ==
  /\ job.at # "idle" => head.on \in {"branch", "detached", "rebasing"}
  /\ job.at \in {"premerge", "push", "merge"} => head.on # "rebasing"
  /\ job.at = "rounds" => head.on = "rebasing"
  /\ job.at = "basecheck" => head.on = "detached"

(* The branch is what HEAD shows, or what an abort of the rebase returns    *)
(* to; HEAD is elsewhere only while the base is checked, or since a check   *)
(* of the base that did not end.                                            *)
Rebases(place) == head.on = "rebasing" /\ head.orig.on = place
TipIsHead ==
  /\ head.on = "branch" => head.tree = branchTip
  /\ Rebases("branch") => head.orig.tree = branchTip
  /\ head.on = "detached" => strayed \/ job.at = "basecheck"
  /\ Rebases("detached") => strayed

(* Markers of a conflict are committed in a rebase that was left open, and  *)
(* go with it.                                                              *)
MarkersStayOut ==
  /\ ~branchTip.markers
  /\ head.on # "rebasing" => ~head.tree.markers
  /\ head.on = "rebasing" => ~head.orig.tree.markers
  /\ job.at = "rounds" => ~head.tree.markers

(* From review to merge the work stays the reviewed work.                   *)
WorkStands ==
  /\ job.at \in {"rebase", "rounds", "premerge"} => head.tree.work = checked
  /\ job.at \in {"basecheck", "push", "merge"} => strayed \/ branchTip.work = checked

(* A story that fails its checks goes on only if the base fails them too.   *)
RedIsRed ==
  /\ job.fetched <= baseTip.n
  /\ job.at = "basecheck" => ~job.green
  /\ job.at \in {"push", "merge"} /\ ~job.green /\ job.base /\ job.fetched = baseTip.n =>
       ~baseTip.green

BranchInv ==
  BranchTyped /\ HeadFits /\ TipIsHead /\ MarkersStayOut /\ WorkStands /\ RedIsRed

(* --- the branch: trees and resolutions --------------------------------------------- *)

LEMMA FreshTree ==
  ASSUME NEW n \in Nat
  PROVE  /\ Tree(n) \in TreeType /\ Tree(n).work = {} /\ Tree(n).lost = {}
         /\ ~Tree(n).markers
BY DEF Tree, TreeType

LEMMA AmendedTree ==
  ASSUME NEW t \in TreeType
  PROVE  /\ Amended(t) \in TreeType /\ Amended(t).work = t.work
         /\ Amended(t).markers = t.markers
BY DEF Amended, TreeType

LEMMA RebasedTree ==
  ASSUME NEW t \in TreeType, NEW n \in Nat
  PROVE  /\ Rebased(t, n) \in TreeType /\ Rebased(t, n).work = t.work
         /\ Rebased(t, n).markers = t.markers
BY DEF Rebased, TreeType

LEMMA JobMoves ==
  ASSUME NEW j \in JobType, NEW place \in PipelineStep
  PROVE  /\ [j EXCEPT !.at = place] \in JobType
         /\ [j EXCEPT !.at = place].at = place
BY DEF JobType

LEMMA IdleJobTyped == IdleJob \in JobType /\ IdleJob.at = "idle"
BY DEF JobType, IdleJob, PipelineStep

(* The models never give up the story's side of a file: they keep both, or  *)
(* the story's, or refuse.                                                  *)
LEMMA ModelsKeepStory ==
  ASSUME NEW wide, NEW r \in AskModels(wide), r.ok
  PROVE  r.side \in {"both", "story"}
<1>1. r = Kept("both") \/ r = Kept("story") \/ r = Refused
  BY DEF AskModels, FallBack
<1>2. ~Refused.ok /\ Kept("both").side = "both" /\ Kept("story").side = "story"
  BY DEF Refused, Kept
<1> QED BY <1>1, <1>2

LEMMA ResolutionKeepsStory ==
  ASSUME NEW kind, NEW wide, NEW r \in Resolve(kind, wide), r.ok,
         kind \notin RuleKinds
  PROVE  r.side \in {"both", "story"}
<1>1. ~Refused.ok /\ Kept("both").side = "both"
  BY DEF Refused, Kept
<1>2. kind # "compiled" /\ kind \notin {"binary", "lock"}
  BY DEF RuleKinds
<1>3. r \in {Kept("both"), Refused} \cup AskModels(wide)
  BY <1>2, ZenonT(30) DEF Resolve
<1> QED BY <1>1, <1>3, ModelsKeepStory

(* A round in which nothing was refused drops what the rules say, no more.  *)
LEMMA RoundKeepsStory ==
  ASSUME NEW files, NEW wide, NEW res \in [files -> UNION {Resolve(k, wide) : k \in files}],
         \A k \in files : res[k] \in Resolve(k, wide) /\ res[k].ok
  PROVE  Dropped(res) \subseteq RuleKinds
<1> SUFFICES ASSUME NEW k \in Dropped(res), k \notin RuleKinds
             PROVE  FALSE
  OBVIOUS
<1>1. k \in files /\ res[k].side \in {"base", "none"}
  BY DEF Dropped
<1>2. res[k].side \in {"both", "story"}
  BY <1>1, ResolutionKeepsStory
<1> QED BY <1>1, <1>2

(* --- the branch: every step keeps the invariant ------------------------------------- *)

LEMMA BranchInitial == BranchInit => BranchInv
<1> SUFFICES ASSUME BranchInit PROVE BranchInv
  OBVIOUS
<1>1. BranchTyped
  BY FreshTree, IdleJobTyped DEF BranchInit, BranchTyped, HeadOn
<1>2. MarkersStayOut
  BY FreshTree DEF BranchInit, MarkersStayOut, IdleJob
<1> QED
  BY <1>1, <1>2 DEF BranchInit, BranchInv, HeadFits, TipIsHead, Rebases, WorkStands,
                    RedIsRed, IdleJob

(* Everything that leaves the pipeline with HEAD where it is.               *)
LEMMA GivingUp ==
  ASSUME BranchInv, Stay, Give, job.at # "basecheck", UNCHANGED <<checked, strayed>>
  PROVE  BranchInv'
<1> USE DEF BranchInv, Stay, Give, IdleJob
<1>1. BranchTyped'
  BY IdleJobTyped DEF BranchTyped
<1>2. HeadFits'
  BY DEF HeadFits
<1>3. TipIsHead'
  BY DEF TipIsHead, Rebases
<1>4. MarkersStayOut'
  BY DEF MarkersStayOut
<1>5. WorkStands' /\ RedIsRed'
  BY DEF WorkStands, RedIsRed, BranchTyped
<1> QED BY <1>1, <1>2, <1>3, <1>4, <1>5

(* An abort of the rebase: HEAD is back where it was.                       *)
LEMMA Aborting ==
  ASSUME BranchInv, head.on = "rebasing", Aborted, Give, UNCHANGED <<checked, strayed>>
  PROVE  BranchInv'
<1> USE DEF BranchInv, Give, IdleJob
<1>1. /\ head.orig.on \in {"branch", "detached"} /\ head.orig.tree \in TreeType
      /\ head' = [on |-> head.orig.on, tree |-> head.orig.tree, orig |-> <<>>]
      /\ branchTip' = IF head.orig.on = "branch" THEN head.orig.tree ELSE branchTip
  BY DEF BranchTyped, HeadOn, InRebase, Aborted, HeadAt
<1>2. BranchTyped'
  BY <1>1, IdleJobTyped DEF BranchTyped, HeadOn
<1>3. HeadFits'
  BY <1>1 DEF HeadFits
<1>4. TipIsHead'
  BY <1>1 DEF TipIsHead, Rebases
<1>5. MarkersStayOut'
  BY <1>1 DEF MarkersStayOut
<1>6. WorkStands' /\ RedIsRed'
  BY DEF WorkStands, RedIsRed, BranchTyped
<1> QED BY <1>2, <1>3, <1>4, <1>5, <1>6

LEMMA CreateWorktreeKeeps ==
  ASSUME BranchInv, CreateWorktree
  PROVE  BranchInv'
<1> USE DEF BranchInv, IdleJob
<1>0. job.at = "idle" /\ head.on # "merged" /\ UNCHANGED <<baseTip, pushed, checked, moves, strayed>>
      /\ attempt' = attempt + 1
      /\ job' = [IdleJob EXCEPT !.at = "agent"]
  BY DEF CreateWorktree
<1>a. job' \in JobType /\ attempt' \in Nat
  <2>1. "agent" \in PipelineStep
    BY DEF PipelineStep
  <2>2. job' \in JobType
    BY <1>0, <2>1, IdleJobTyped, JobMoves
  <2> QED BY <1>0, <2>2 DEF BranchTyped
<1>1. CASE head.on # "none"
  <2>1. UNCHANGED <<head, branchTip>>
    BY <1>1 DEF CreateWorktree, Stay
  <2>2. BranchTyped'
    BY <1>0, <1>a, <2>1 DEF BranchTyped
  <2>3. HeadFits'
    BY <1>0, <1>1, <2>1 DEF HeadFits, BranchTyped, HeadOn, InRebase
  <2>4. TipIsHead'
    BY <1>0, <2>1 DEF TipIsHead, Rebases
  <2>5. MarkersStayOut'
    BY <1>0, <2>1 DEF MarkersStayOut
  <2>6. WorkStands' /\ RedIsRed'
    BY <1>0 DEF WorkStands, RedIsRed, BranchTyped
  <2> QED BY <2>2, <2>3, <2>4, <2>5, <2>6
<1>2. CASE head.on = "none"
  <2>1. PICK n \in 0..baseTip.n : HeadAt("branch", Tree(n))
    BY <1>2 DEF CreateWorktree
  <2>2. /\ Tree(n) \in TreeType /\ ~Tree(n).markers
    BY FreshTree DEF BranchTyped
  <2>3. /\ head' = [on |-> "branch", tree |-> Tree(n), orig |-> <<>>]
        /\ branchTip' = Tree(n)
    BY <2>1 DEF HeadAt
  <2>4. BranchTyped'
    BY <1>0, <1>a, <2>2, <2>3 DEF BranchTyped, HeadOn
  <2>5. HeadFits'
    BY <1>0, <2>3 DEF HeadFits
  <2>6. TipIsHead'
    BY <1>0, <2>3 DEF TipIsHead, Rebases
  <2>7. MarkersStayOut'
    BY <1>0, <2>2, <2>3 DEF MarkersStayOut
  <2>8. WorkStands' /\ RedIsRed'
    BY <1>0 DEF WorkStands, RedIsRed, BranchTyped
  <2> QED BY <2>4, <2>5, <2>6, <2>7, <2>8
<1> QED BY <1>1, <1>2

(* A commit on HEAD, wherever HEAD is.                                      *)
LEMMA Committing ==
  ASSUME BranchInv, NEW t \in TreeType, CommitTree(t),
         head.on # "rebasing" => ~t.markers
  PROVE  /\ head'.on = head.on /\ head'.orig = head.orig /\ head'.tree = t
         /\ branchTip' = IF head.on = "branch" THEN t ELSE branchTip
         /\ head' \in HeadOn({"none", "branch", "detached", "merged"}) \cup InRebase
         /\ branchTip' \in TreeType
         /\ ~branchTip'.markers
         /\ head'.on # "rebasing" => ~head'.tree.markers
         /\ head'.on = "rebasing" => ~head'.orig.tree.markers
<1>1. /\ head'.on = head.on /\ head'.orig = head.orig /\ head'.tree = t
      /\ branchTip' = IF head.on = "branch" THEN t ELSE branchTip
      /\ head' \in HeadOn({"none", "branch", "detached", "merged"}) \cup InRebase
  BY DEF BranchInv, BranchTyped, CommitTree, HeadOn, InRebase
<1>2. branchTip' \in TreeType /\ ~branchTip'.markers
  BY <1>1 DEF BranchInv, BranchTyped, MarkersStayOut
<1> QED BY <1>1, <1>2 DEF BranchInv, MarkersStayOut

LEMMA AgentWorksKeeps ==
  ASSUME BranchInv, AgentWorks
  PROVE  BranchInv'
<1> USE DEF BranchInv
<1>1. PICK w \in {{}, {attempt}} :
        CommitTree([head.tree EXCEPT !.work = @ \cup w,
                      !.markers = @ \/ (head.on = "rebasing" /\ w = {})])
  BY DEF AgentWorks
<1> DEFINE t == [head.tree EXCEPT !.work = @ \cup w,
                   !.markers = @ \/ (head.on = "rebasing" /\ w = {})]
<1>2. head.tree \in TreeType
  BY DEF BranchTyped, HeadOn, InRebase
<1>3. t \in TreeType /\ (head.on # "rebasing" => t.markers = head.tree.markers)
  BY <1>2 DEF TreeType, BranchTyped
<1>4. head.on # "rebasing" => ~t.markers
  BY <1>3 DEF MarkersStayOut
<1>5. CommitTree(t)
  BY <1>1
<1> HIDE DEF t
<1>6. /\ job.at = "agent" /\ job' = [job EXCEPT !.at = "hygiene"]
      /\ UNCHANGED <<baseTip, pushed, checked, attempt, moves, strayed>>
  BY DEF AgentWorks
<1>a. job' \in JobType
  <2>1. "hygiene" \in PipelineStep
    BY DEF PipelineStep
  <2> QED BY <1>6, <2>1, JobMoves DEF BranchTyped
<1>7. BranchTyped'
  BY <1>3, <1>4, <1>5, <1>6, <1>a, Committing DEF BranchTyped
<1>8. HeadFits'
  BY <1>3, <1>4, <1>5, <1>6, Committing DEF HeadFits, BranchTyped
<1>9. TipIsHead'
  BY <1>3, <1>4, <1>5, <1>6, Committing DEF TipIsHead, Rebases, BranchTyped
<1>10. MarkersStayOut'
  BY <1>3, <1>4, <1>5, <1>6, Committing DEF MarkersStayOut, BranchTyped
<1>11. WorkStands' /\ RedIsRed'
  BY <1>6 DEF WorkStands, RedIsRed, BranchTyped
<1> QED BY <1>7, <1>8, <1>9, <1>10, <1>11

LEMMA HygieneKeeps ==
  ASSUME BranchInv, Hygiene
  PROVE  BranchInv'
<1> USE DEF BranchInv
<1>1. PICK amend \in BOOLEAN, late \in BOOLEAN, pass \in BOOLEAN :
        LET t == IF amend THEN Amended(head.tree) ELSE head.tree
            caught == t.markers /\ ~late IN
        /\ CommitTree(t)
        /\ IF caught \/ EmptyDiff(t) \/ ~pass
           THEN Give /\ UNCHANGED <<checked, strayed>>
           ELSE /\ checked' = t.work /\ job' = [job EXCEPT !.at = "rebase"]
                /\ UNCHANGED <<baseTip, pushed, attempt, moves, strayed>>
  BY DEF Hygiene
<1> DEFINE t == IF amend THEN Amended(head.tree) ELSE head.tree
<1>2. head.tree \in TreeType
  BY DEF BranchTyped, HeadOn, InRebase
<1>3. t \in TreeType /\ (head.on # "rebasing" => ~t.markers)
  BY <1>2, AmendedTree DEF MarkersStayOut
<1>4. CommitTree(t)
  BY <1>1
<1>5. \/ Give /\ UNCHANGED <<checked, strayed>>
      \/ /\ checked' = t.work /\ job' = [job EXCEPT !.at = "rebase"]
         /\ UNCHANGED <<baseTip, pushed, attempt, moves, strayed>>
  BY <1>1
<1>6. job.at = "hygiene"
  BY DEF Hygiene
<1> HIDE DEF t
<1>a. job' \in JobType /\ job'.at \in {"idle", "rebase"}
  <2>1. CASE Give
    BY <2>1, IdleJobTyped DEF Give
  <2>2. CASE job' = [job EXCEPT !.at = "rebase"]
    BY <2>2, JobMoves DEF BranchTyped, PipelineStep
  <2> QED BY <1>5, <2>1, <2>2
<1>b. UNCHANGED <<baseTip, attempt, moves, strayed>>
  BY <1>5 DEF Give
<1>7. BranchTyped'
  BY <1>3, <1>4, <1>a, <1>b, Committing DEF BranchTyped
<1>8. HeadFits'
  BY <1>3, <1>4, <1>5, <1>6, <1>a, Committing DEF HeadFits, BranchTyped, Give, IdleJob, JobType
<1>9. TipIsHead'
  BY <1>3, <1>4, <1>5, <1>6, <1>a, Committing DEF TipIsHead, Rebases, BranchTyped, Give, IdleJob, JobType
<1>10. MarkersStayOut'
  BY <1>3, <1>4, <1>5, <1>6, <1>a, Committing DEF MarkersStayOut, BranchTyped, Give, IdleJob, JobType
<1>11. WorkStands' /\ RedIsRed'
  BY <1>3, <1>4, <1>5, <1>6, <1>a, Committing DEF WorkStands, RedIsRed, BranchTyped, Give, IdleJob, JobType
<1> QED BY <1>7, <1>8, <1>9, <1>10, <1>11

LEMMA BaseMovesKeeps ==
  ASSUME BranchInv, BaseMoves
  PROVE  BranchInv'
<1> USE DEF BranchInv
<1>1. PICK g \in BOOLEAN : baseTip' = [n |-> baseTip.n + 1, green |-> g]
  BY DEF BaseMoves
<1>2. moves' = moves + 1 /\ UNCHANGED <<head, branchTip, pushed, job, checked, attempt, strayed>>
  BY DEF BaseMoves
<1>3. BranchTyped'
  BY <1>1, <1>2 DEF BranchTyped
<1>4. HeadFits' /\ TipIsHead' /\ MarkersStayOut' /\ WorkStands'
  BY <1>2 DEF HeadFits, TipIsHead, Rebases, MarkersStayOut, WorkStands
<1>5. RedIsRed'
  BY <1>1, <1>2 DEF RedIsRed, BranchTyped, JobType
<1> QED BY <1>3, <1>4, <1>5

(* HEAD leaves for the rebased tree, on the branch or detached.             *)
LEMMA RebaseEnds ==
  ASSUME BranchInv, NEW t \in TreeType, NEW place \in {"branch", "detached"},
         NEW n \in Nat, n <= baseTip.n, job.at \in {"rebase", "rounds"},
         HeadAt(place, Rebased(t, n)), t.work = checked, ~t.markers,
         place = "detached" => strayed,
         job' \in JobType, job'.at = "premerge", job'.fetched = n,
         UNCHANGED <<baseTip, attempt, moves, checked, strayed>>
  PROVE  BranchInv'
<1> USE DEF BranchInv
<1>1. /\ Rebased(t, n) \in TreeType /\ Rebased(t, n).work = checked
      /\ ~Rebased(t, n).markers
  BY RebasedTree
<1>2. /\ head' = [on |-> place, tree |-> Rebased(t, n), orig |-> <<>>]
      /\ branchTip' = IF place = "branch" THEN Rebased(t, n) ELSE branchTip
  BY DEF HeadAt
<1>3. BranchTyped'
  BY <1>1, <1>2 DEF BranchTyped, HeadOn
<1>4. HeadFits'
  BY <1>2 DEF HeadFits
<1>5. TipIsHead'
  BY <1>2 DEF TipIsHead, Rebases
<1>6. MarkersStayOut'
  BY <1>1, <1>2 DEF MarkersStayOut
<1>7. WorkStands'
  BY <1>1, <1>2 DEF WorkStands
<1>8. RedIsRed'
  BY DEF RedIsRed
<1> QED BY <1>3, <1>4, <1>5, <1>6, <1>7, <1>8

LEMMA StartRebaseKeeps ==
  ASSUME BranchInv, StartRebase
  PROVE  BranchInv'
<1> USE DEF BranchInv
<1>0. job.at = "rebase" /\ UNCHANGED <<checked, strayed>> /\ head.tree.work = checked
      /\ head.on \in {"branch", "detached", "rebasing"}
  BY DEF StartRebase, WorkStands, HeadFits
<1>a. baseTip.n \in Nat /\ job \in JobType /\ head.tree \in TreeType
  BY DEF BranchTyped, HeadOn, InRebase
<1>1. CASE head.on = "rebasing" /\ RebaseRefused
  BY <1>0, <1>1, Aborting DEF RebaseRefused
<1>2. CASE Stay /\ Give
  BY <1>0, <1>2, GivingUp
<1>3. CASE /\ head.on # "rebasing" /\ HeadAt(head.on, Rebased(head.tree, baseTip.n))
           /\ job' = [job EXCEPT !.at = "premerge", !.fetched = baseTip.n]
           /\ UNCHANGED <<baseTip, pushed, attempt, moves>>
  <2>1. job' \in JobType /\ job'.at = "premerge" /\ job'.fetched = baseTip.n
    BY <1>3, <1>a DEF JobType, PipelineStep
  <2>2. head.on = "detached" => strayed
    BY <1>0 DEF TipIsHead
  <2>3. ~head.tree.markers
    BY <1>3 DEF MarkersStayOut
  <2> QED BY <1>0, <1>a, <1>3, <2>1, <2>2, <2>3, RebaseEnds
<1>4. CASE /\ head.on # "rebasing" /\ head.tree.onto # baseTip.n /\ head.tree.work # {}
           /\ head' = [on |-> "rebasing", tree |-> head.tree, orig |-> head]
           /\ UNCHANGED branchTip
           /\ job' = [job EXCEPT !.at = "rounds", !.round = 0, !.fetched = baseTip.n]
           /\ UNCHANGED <<baseTip, pushed, attempt, moves>>
  <2>1. job' \in JobType /\ job'.at = "rounds" /\ job'.fetched = baseTip.n
    BY <1>4, <1>a DEF JobType, PipelineStep
  <2>2. head \in HeadOn({"branch", "detached"})
    BY <1>0, <1>4 DEF BranchTyped, HeadOn, InRebase
  <2>3. BranchTyped'
    BY <1>0, <1>a, <1>4, <2>1, <2>2 DEF BranchTyped, InRebase
  <2>4. HeadFits'
    BY <1>4, <2>1 DEF HeadFits
  <2>5. TipIsHead'
    BY <1>0, <1>4, <2>1 DEF TipIsHead, Rebases
  <2>6. MarkersStayOut'
    BY <1>4, <2>1 DEF MarkersStayOut
  <2>7. WorkStands'
    BY <1>0, <1>4, <2>1 DEF WorkStands
  <2>8. RedIsRed'
    BY <1>4, <1>a, <2>1 DEF RedIsRed
  <2> QED BY <2>3, <2>4, <2>5, <2>6, <2>7, <2>8
<1> QED BY <1>1, <1>2, <1>3, <1>4 DEF StartRebase

LEMMA ResolveRoundKeeps ==
  ASSUME BranchInv, ResolveRound
  PROVE  BranchInv'
<1> USE DEF BranchInv
<1>0. /\ job.at = "rounds" /\ UNCHANGED <<checked, strayed>> /\ head.on = "rebasing"
      /\ head.tree.work = checked /\ ~head.tree.markers
  BY DEF ResolveRound, WorkStands, HeadFits, MarkersStayOut
<1>a. /\ job \in JobType /\ job.fetched \in Nat /\ job.fetched <= baseTip.n
      /\ head \in InRebase /\ head.tree \in TreeType
      /\ head.orig.on \in {"branch", "detached"}
  BY <1>0 DEF BranchTyped, HeadOn, InRebase, JobType, RedIsRed
<1>1. PICK files \in Conflicts, wide \in BOOLEAN :
        \E res \in Resolutions(files, wide) :
          /\ \A k \in files : res[k] \in Resolve(k, wide)
          /\ LET t == [head.tree EXCEPT !.lost = @ \cup Dropped(res)]
                 done == Rebased(t, job.fetched) IN
             \/ (job.round >= MaxRounds \/ \E k \in files : ~res[k].ok) /\ AbortRebase
             \/ /\ \A k \in files : res[k].ok
                /\ job.round < MaxRounds
                /\ \/ AbortRebase
                   \/ /\ head' = [head EXCEPT !.tree = t] /\ UNCHANGED branchTip
                      /\ job' = [job EXCEPT !.round = @ + 1]
                      /\ UNCHANGED <<baseTip, pushed, attempt, moves>>
                   \/ /\ HeadAt(head.orig.on, done)
                      /\ job' = [job EXCEPT !.at = "premerge"]
                      /\ UNCHANGED <<baseTip, pushed, attempt, moves>>
  BY DEF ResolveRound
<1>2. PICK res \in Resolutions(files, wide) :
          /\ \A k \in files : res[k] \in Resolve(k, wide)
          /\ LET t == [head.tree EXCEPT !.lost = @ \cup Dropped(res)]
                 done == Rebased(t, job.fetched) IN
             \/ (job.round >= MaxRounds \/ \E k \in files : ~res[k].ok) /\ AbortRebase
             \/ /\ \A k \in files : res[k].ok
                /\ job.round < MaxRounds
                /\ \/ AbortRebase
                   \/ /\ head' = [head EXCEPT !.tree = t] /\ UNCHANGED branchTip
                      /\ job' = [job EXCEPT !.round = @ + 1]
                      /\ UNCHANGED <<baseTip, pushed, attempt, moves>>
                   \/ /\ HeadAt(head.orig.on, done)
                      /\ job' = [job EXCEPT !.at = "premerge"]
                      /\ UNCHANGED <<baseTip, pushed, attempt, moves>>
  BY <1>1
<1> DEFINE t == [head.tree EXCEPT !.lost = @ \cup Dropped(res)]
<1>3. CASE AbortRebase
  BY <1>0, <1>3, Aborting DEF AbortRebase
<1>4. CASE \A k \in files : res[k].ok
  <2>1. res \in [files -> UNION {Resolve(k, wide) : k \in files}]
    BY DEF Resolutions
  <2>2. \A k \in files : res[k] \in Resolve(k, wide) /\ res[k].ok
    BY <1>2, <1>4
  <2>3. Dropped(res) \subseteq RuleKinds
    BY <2>1, <2>2, RoundKeepsStory
  <2>4. t \in TreeType /\ t.work = checked /\ ~t.markers
    BY <1>0, <1>a, <2>3 DEF TreeType
  <2>5. CASE /\ head' = [head EXCEPT !.tree = t] /\ UNCHANGED branchTip
             /\ job' = [job EXCEPT !.round = @ + 1]
             /\ UNCHANGED <<baseTip, pushed, attempt, moves>>
    <3> HIDE DEF t
    <3>1. job' \in JobType /\ job'.at = "rounds" /\ job'.fetched = job.fetched
      BY <1>0, <1>a, <2>5 DEF JobType
    <3>2. /\ head' \in InRebase /\ head'.on = "rebasing" /\ head'.orig = head.orig
          /\ head'.tree = t
      BY <1>a, <2>4, <2>5 DEF InRebase
    <3>3. BranchTyped'
      BY <1>0, <2>5, <3>1, <3>2 DEF BranchTyped
    <3>4. HeadFits'
      BY <3>1, <3>2 DEF HeadFits
    <3>5. TipIsHead'
      BY <1>0, <2>5, <3>1, <3>2 DEF TipIsHead, Rebases
    <3>6. MarkersStayOut'
      BY <1>0, <2>4, <2>5, <3>1, <3>2 DEF MarkersStayOut
    <3>7. WorkStands'
      BY <1>0, <2>4, <3>1, <3>2 DEF WorkStands
    <3>8. RedIsRed'
      BY <2>5, <3>1 DEF RedIsRed
    <3> QED BY <3>3, <3>4, <3>5, <3>6, <3>7, <3>8
  <2>6. CASE /\ HeadAt(head.orig.on, Rebased(t, job.fetched))
             /\ job' = [job EXCEPT !.at = "premerge"]
             /\ UNCHANGED <<baseTip, pushed, attempt, moves>>
    <3> HIDE DEF t
    <3>1. job' \in JobType /\ job'.at = "premerge" /\ job'.fetched = job.fetched
      BY <1>a, <2>6 DEF JobType, PipelineStep
    <3>2. head.orig.on = "detached" => strayed
      BY <1>0 DEF TipIsHead, Rebases
    <3> QED BY <1>0, <1>a, <2>4, <2>6, <3>1, <3>2, RebaseEnds
  <2> QED BY <1>2, <1>3, <1>4, <2>5, <2>6
<1> QED BY <1>2, <1>3, <1>4

LEMMA CheckRebasedKeeps ==
  ASSUME BranchInv, CheckRebased
  PROVE  BranchInv'
<1> USE DEF BranchInv
<1>0. /\ job.at = "premerge" /\ UNCHANGED <<baseTip, pushed, checked, attempt, moves, strayed>>
      /\ head.on \in {"branch", "detached"} /\ head.tree.work = checked
      /\ job \in JobType /\ job.fetched \in Nat
  BY DEF CheckRebased, HeadFits, WorkStands, BranchTyped, JobType
<1>1. CASE /\ Stay
           /\ \/ job' = [job EXCEPT !.at = "push", !.green = TRUE]
              \/ job' = [job EXCEPT !.at = "push", !.green = FALSE, !.base = FALSE]
  <2>1. /\ job' \in JobType /\ job'.at = "push" /\ job'.fetched = job.fetched
        /\ job'.green \/ ~job'.base
    BY <1>0, <1>1 DEF JobType, PipelineStep
  <2>2. BranchTyped'
    BY <1>0, <1>1, <2>1 DEF BranchTyped, Stay
  <2>3. HeadFits'
    BY <1>0, <1>1, <2>1 DEF HeadFits, Stay
  <2>4. TipIsHead'
    BY <1>0, <1>1, <2>1 DEF TipIsHead, Rebases, Stay
  <2>5. MarkersStayOut'
    BY <1>1, <2>1 DEF MarkersStayOut, Stay
  <2>6. strayed \/ branchTip.work = checked
    BY <1>0 DEF TipIsHead
  <2>7. WorkStands'
    BY <1>0, <1>1, <2>1, <2>6 DEF WorkStands, Stay
  <2>8. RedIsRed'
    BY <1>0, <2>1 DEF RedIsRed
  <2> QED BY <2>2, <2>3, <2>4, <2>5, <2>7, <2>8
<1>2. CASE /\ HeadAt("detached", Tree(job.fetched))
           /\ job' = [job EXCEPT !.at = "basecheck", !.green = FALSE]
  <2>1. /\ job' \in JobType /\ job'.at = "basecheck" /\ job'.fetched = job.fetched
        /\ ~job'.green
    BY <1>0, <1>2 DEF JobType, PipelineStep
  <2>2. /\ head' = [on |-> "detached", tree |-> Tree(job.fetched), orig |-> <<>>]
        /\ branchTip' = branchTip
    BY <1>2 DEF HeadAt
  <2>3. Tree(job.fetched) \in TreeType /\ ~Tree(job.fetched).markers
    BY <1>0, FreshTree
  <2>4. BranchTyped'
    BY <1>0, <2>1, <2>2, <2>3 DEF BranchTyped, HeadOn
  <2>5. HeadFits'
    BY <2>1, <2>2 DEF HeadFits
  <2>6. TipIsHead'
    BY <2>1, <2>2 DEF TipIsHead, Rebases
  <2>7. MarkersStayOut'
    BY <2>1, <2>2, <2>3 DEF MarkersStayOut
  <2>8. strayed \/ branchTip.work = checked
    BY <1>0 DEF TipIsHead
  <2>9. WorkStands' /\ RedIsRed'
    BY <1>0, <2>1, <2>2, <2>8 DEF WorkStands, RedIsRed
  <2> QED BY <2>4, <2>5, <2>6, <2>7, <2>9
<1> QED BY <1>1, <1>2 DEF CheckRebased

LEMMA CheckBaseKeeps ==
  ASSUME BranchInv, CheckBase
  PROVE  BranchInv'
<1> USE DEF BranchInv
<1>0. /\ job.at = "basecheck" /\ UNCHANGED checked /\ head.on = "detached"
      /\ job \in JobType /\ ~job.green
  BY DEF CheckBase, HeadFits, BranchTyped, RedIsRed
<1>1. CASE Stay /\ Give /\ strayed' = TRUE
  <2>1. BranchTyped'
    BY <1>1, IdleJobTyped DEF BranchTyped, Stay, Give
  <2>2. job'.at = "idle" /\ job'.fetched = 0 /\ baseTip'.n \in Nat
    BY <1>1 DEF Give, IdleJob, BranchTyped
  <2>3. HeadFits' /\ TipIsHead' /\ MarkersStayOut'
    BY <1>0, <1>1, <2>2 DEF HeadFits, TipIsHead, Rebases, MarkersStayOut, Stay
  <2>4. WorkStands' /\ RedIsRed'
    BY <2>2 DEF WorkStands, RedIsRed
  <2> QED BY <2>1, <2>3, <2>4
<1>2. CASE \E g \in BaseGreenAt(job.fetched), late \in BOOLEAN :
             /\ HeadAt("branch", branchTip) /\ UNCHANGED strayed
             /\ IF PreMergeDecision(job.green, g /\ ~late) THEN Give
                ELSE /\ job' = [job EXCEPT !.at = "push", !.base = ~late]
                     /\ UNCHANGED <<baseTip, pushed, attempt, moves>>
  <2>1. PICK g \in BaseGreenAt(job.fetched), late \in BOOLEAN :
             /\ HeadAt("branch", branchTip) /\ UNCHANGED strayed
             /\ IF PreMergeDecision(job.green, g /\ ~late) THEN Give
                ELSE /\ job' = [job EXCEPT !.at = "push", !.base = ~late]
                     /\ UNCHANGED <<baseTip, pushed, attempt, moves>>
    BY <1>2
  <2>2. /\ head' = [on |-> "branch", tree |-> branchTip, orig |-> <<>>]
        /\ branchTip' = branchTip /\ UNCHANGED strayed
    BY <2>1 DEF HeadAt
  <2>3. branchTip \in TreeType /\ ~branchTip.markers
    BY DEF BranchTyped, MarkersStayOut
  <2>4. UNCHANGED <<baseTip, attempt, moves>>
    BY <2>1 DEF Give
  <2>5. /\ job' \in JobType /\ job'.at \in {"idle", "push"}
        /\ job'.fetched \in {0, job.fetched}
        /\ job'.at = "push" => /\ job'.fetched = job.fetched
                               /\ job'.base /\ job.fetched = baseTip.n => ~baseTip.green
    <3>1. CASE Give
      BY <3>1, IdleJobTyped DEF Give, IdleJob
    <3>2. CASE ~(g /\ ~late) /\ job' = [job EXCEPT !.at = "push", !.base = ~late]
      <4>1. /\ job' \in JobType /\ job'.at = "push" /\ job'.fetched = job.fetched
            /\ job'.base = ~late
        BY <1>0, <3>2 DEF JobType, PipelineStep
      <4>2. job.fetched = baseTip.n => g = baseTip.green
        BY <2>1 DEF BaseGreenAt
      <4>3. job'.base => ~g
        BY <3>2, <4>1
      <4> QED BY <4>1, <4>2, <4>3
    <3> QED BY <1>0, <2>1, <3>1, <3>2 DEF PreMergeDecision
  <2>6. BranchTyped'
    BY <2>2, <2>3, <2>4, <2>5 DEF BranchTyped, HeadOn
  <2>7. HeadFits' /\ TipIsHead'
    BY <2>2, <2>5 DEF HeadFits, TipIsHead, Rebases
  <2>8. MarkersStayOut'
    BY <2>2, <2>3, <2>5 DEF MarkersStayOut
  <2>9. WorkStands'
    BY <1>0, <2>2, <2>5 DEF WorkStands
  <2>10. job'.fetched <= baseTip.n
    BY <2>5 DEF RedIsRed, BranchTyped
  <2>11. RedIsRed'
    BY <2>4, <2>5, <2>10 DEF RedIsRed
  <2> QED BY <2>6, <2>7, <2>8, <2>9, <2>11
<1> QED BY <1>1, <1>2 DEF CheckBase

LEMMA PushBranchKeeps ==
  ASSUME BranchInv, PushBranch
  PROVE  /\ BranchInv'
         /\ pushed' # pushed => strayed \/ (pushed'.work = checked /\ ~pushed'.markers)
<1> USE DEF BranchInv
<1>0. job.at = "push" /\ Stay /\ UNCHANGED <<checked, strayed>> /\ job \in JobType
  BY DEF PushBranch, BranchTyped
<1>1. CASE Give
  BY <1>0, <1>1, GivingUp DEF Give
<1>2. CASE /\ pushed' = branchTip /\ job' = [job EXCEPT !.at = "merge"]
           /\ UNCHANGED <<baseTip, attempt, moves>>
  <2>1. /\ job' \in JobType /\ job'.at = "merge" /\ job'.fetched = job.fetched
        /\ job'.green = job.green /\ job'.base = job.base
    BY <1>0, <1>2 DEF JobType, PipelineStep
  <2>2. BranchTyped'
    BY <1>0, <1>2, <2>1 DEF BranchTyped, Stay
  <2>3. HeadFits' /\ TipIsHead'
    BY <1>0, <2>1 DEF HeadFits, TipIsHead, Rebases, Stay
  <2>4. MarkersStayOut' /\ WorkStands'
    BY <1>0, <2>1 DEF MarkersStayOut, WorkStands, Stay
  <2>5. RedIsRed'
    BY <1>0, <1>2, <2>1 DEF RedIsRed
  <2>6. strayed \/ (pushed'.work = checked /\ ~pushed'.markers)
    BY <1>0, <1>2 DEF WorkStands, MarkersStayOut
  <2> QED BY <2>2, <2>3, <2>4, <2>5, <2>6
<1> QED BY <1>1, <1>2 DEF PushBranch, Give

LEMMA MergePRKeeps ==
  ASSUME BranchInv, MergePR
  PROVE  /\ BranchInv'
         /\ baseTip.green /\ ~baseTip'.green =>
              job.fetched # baseTip.n \/ ~job.base \/ strayed
<1> USE DEF BranchInv
<1>0. /\ job.at = "merge" /\ UNCHANGED <<pushed, checked, attempt, moves, strayed>>
      /\ head.on \in {"branch", "detached"} /\ job' = IdleJob
      /\ baseTip.n \in Nat /\ baseTip.green \in BOOLEAN
      /\ job.green \in BOOLEAN /\ UNCHANGED branchTip
  BY DEF MergePR, HeadFits, BranchTyped, JobType, Stay
<1>1. CASE Stay /\ UNCHANGED baseTip
  BY <1>0, <1>1, GivingUp DEF Give
<1>2. CASE /\ head' = [head EXCEPT !.on = "merged"]
           /\ \E g \in IF baseTip.n = job.fetched /\ job.base THEN {job.green} ELSE BOOLEAN :
                baseTip' = [baseTip EXCEPT !.green = g]
  <2>1. PICK g \in IF baseTip.n = job.fetched /\ job.base THEN {job.green} ELSE BOOLEAN :
                baseTip' = [baseTip EXCEPT !.green = g]
    BY <1>2
  <2>2. g \in BOOLEAN
    BY <1>0, <2>1
  <2>3. /\ baseTip' \in [n : Nat, green : BOOLEAN] /\ baseTip'.n = baseTip.n
        /\ baseTip'.green = g
    BY <1>0, <2>1, <2>2 DEF BranchTyped
  <2>4. /\ head' \in HeadOn({"merged"}) /\ head'.on = "merged" /\ head'.tree = head.tree
    BY <1>0, <1>2 DEF BranchTyped, HeadOn, InRebase
  <2>5. BranchTyped'
    BY <1>0, <2>3, <2>4, IdleJobTyped DEF BranchTyped, HeadOn
  <2>6. HeadFits' /\ TipIsHead' /\ WorkStands'
    BY <1>0, <2>4, IdleJobTyped DEF HeadFits, TipIsHead, Rebases, WorkStands
  <2>7. MarkersStayOut'
    BY <1>0, <2>4, IdleJobTyped DEF MarkersStayOut
  <2>8. RedIsRed'
    BY <1>0, <2>3 DEF RedIsRed, IdleJob
  <2>9. baseTip.green /\ ~baseTip'.green => job.fetched # baseTip.n \/ ~job.base
    <3> SUFFICES ASSUME baseTip.green, ~baseTip'.green, job.fetched = baseTip.n, job.base
                 PROVE  FALSE
      OBVIOUS
    <3>1. g = job.green
      BY <2>1
    <3>2. ~job.green
      BY <2>3, <3>1
    <3> QED BY <1>0, <3>2 DEF RedIsRed
  <2> QED BY <2>5, <2>6, <2>7, <2>8, <2>9
<1> QED BY <1>1, <1>2 DEF MergePR

LEMMA KillPipelineKeeps ==
  ASSUME BranchInv, KillPipeline
  PROVE  BranchInv'
<1> USE DEF BranchInv
<1>0. Stay /\ Give /\ strayed' = (strayed \/ job.at = "basecheck") /\ UNCHANGED checked
  BY DEF KillPipeline
<1>1. BranchTyped'
  BY <1>0, IdleJobTyped DEF BranchTyped, Stay, Give
<1>2. job'.at = "idle" /\ job'.fetched = 0 /\ baseTip'.n \in Nat
  BY <1>0 DEF Give, IdleJob, BranchTyped
<1>3. HeadFits' /\ MarkersStayOut'
  BY <1>0, <1>2 DEF HeadFits, MarkersStayOut, Stay
<1>4. TipIsHead'
  BY <1>0, <1>2 DEF TipIsHead, Rebases, Stay
<1>5. WorkStands' /\ RedIsRed'
  BY <1>2 DEF WorkStands, RedIsRed
<1> QED BY <1>1, <1>3, <1>4, <1>5

(* What a step may do to the forge, besides: a push is of reviewed work,    *)
(* and a merge turns no green base red.                                     *)
LEMMA BranchStep ==
  ASSUME BranchInv, [BranchNext]_branchVars
  PROVE  /\ BranchInv'
         /\ pushed' # pushed => strayed \/ (pushed'.work = checked /\ ~pushed'.markers)
         /\ (job.at = "merge" /\ baseTip.green /\ ~baseTip'.green) =>
              moves' # moves \/ job.fetched # baseTip.n \/ ~job.base \/ strayed
<1>1. CASE CreateWorktree \/ AgentWorks \/ Hygiene \/ StartRebase
  <2>1. BranchInv'
    BY <1>1, CreateWorktreeKeeps, AgentWorksKeeps, HygieneKeeps, StartRebaseKeeps
  <2>2. UNCHANGED <<baseTip, pushed>>
    BY <1>1 DEF CreateWorktree, AgentWorks, Hygiene, StartRebase, Give, RebaseRefused
  <2> QED BY <2>1, <2>2
<1>2. CASE ResolveRound \/ CheckRebased \/ CheckBase \/ KillPipeline
  <2>1. BranchInv'
    BY <1>2, ResolveRoundKeeps, CheckRebasedKeeps, CheckBaseKeeps, KillPipelineKeeps
  <2>2. UNCHANGED <<baseTip, pushed>>
    BY <1>2 DEF ResolveRound, CheckRebased, CheckBase, KillPipeline, Give, AbortRebase
  <2> QED BY <2>1, <2>2
<1>3. CASE BaseMoves
  <2>1. UNCHANGED pushed /\ moves' = moves + 1 /\ moves \in Nat
    BY <1>3 DEF BaseMoves, BranchInv, BranchTyped
  <2> QED BY <1>3, <2>1, BaseMovesKeeps
<1>4. CASE PushBranch
  <2>1. UNCHANGED baseTip
    BY <1>4 DEF PushBranch, Give
  <2> QED BY <1>4, <2>1, PushBranchKeeps
<1>5. CASE MergePR
  <2>1. UNCHANGED pushed
    BY <1>5 DEF MergePR
  <2> QED BY <1>5, <2>1, MergePRKeeps
<1>6. CASE UNCHANGED branchVars
  <2>1. UNCHANGED <<head, branchTip, baseTip, pushed, job, checked, attempt, moves, strayed>>
    BY <1>6 DEF branchVars
  <2>2. BranchTyped' /\ HeadFits' /\ TipIsHead'
    BY <2>1 DEF BranchInv, BranchTyped, HeadFits, TipIsHead, Rebases
  <2>3. MarkersStayOut' /\ WorkStands' /\ RedIsRed'
    BY <2>1 DEF BranchInv, MarkersStayOut, WorkStands, RedIsRed
  <2> QED BY <2>1, <2>2, <2>3 DEF BranchInv
<1> QED BY <1>1, <1>2, <1>3, <1>4, <1>5, <1>6 DEF BranchNext

(* Whatever was killed, refused or left open before: what is pushed is the  *)
(* work that review and QA passed, without markers.                         *)
THEOREM PushesAreReviewed == BranchSpec => PushedIsReviewed
<1> DEFINE Reviewed == pushed' # pushed => strayed \/ (pushed'.work = checked /\ ~pushed'.markers)
<1>1. BranchInv /\ [BranchNext]_branchVars => BranchInv' /\ [Reviewed]_branchVars
  BY BranchStep
<1> QED BY BranchInitial, <1>1, PTL DEF BranchSpec, PushedIsReviewed

(* Conflict resolution never drops the story's side of a file the rules do  *)
(* not give up.                                                             *)
THEOREM StoryIsKept == BranchSpec => []ConflictKeepsStory
<1>1. BranchInv => ConflictKeepsStory
  BY DEF BranchInv, BranchTyped, TreeType, ConflictKeepsStory, RuleKinds
<1>2. BranchInv /\ [BranchNext]_branchVars => BranchInv'
  BY BranchStep
<1> QED BY BranchInitial, <1>1, <1>2, PTL DEF BranchSpec

(* A merge does not turn a green base red, as long as the base it is pushed *)
(* to is the one that was fetched and checked, and HEAD never strayed.      *)
THEOREM BaseStaysGreen == BranchSpec => GreenStaysGreen
<1> DEFINE Stays == (job.at = "merge" /\ baseTip.green /\ ~baseTip'.green) =>
                      moves' # moves \/ job.fetched # baseTip.n \/ ~job.base \/ strayed
<1>1. BranchInv /\ [BranchNext]_branchVars => BranchInv' /\ [Stays]_branchVars
  BY BranchStep
<1> QED BY BranchInitial, <1>1, PTL DEF BranchSpec, GreenStaysGreen

(* --- the types of the reviews, the calls and the branch ----------------------------- *)

(* A review is at one of the points the gate knows, with a verdict the      *)
(* pipeline knows, and the configuration and the knowledge base are what    *)
(* they can be read as.                                                     *)
THEOREM SecIsTyped == SecSpec => []SecTypeOK
<1>1. SecInv => SecTypeOK
  BY DEF SecInv, SecTyped, ReviewType, ReviewStep, SecTypeOK
<1> QED BY SecInitially, SecStepKeeps, <1>1, PTL DEF SecSpec

(* A call is at a client its stack has, no call is under way when nobody    *)
(* asks, and a back-off is one that another attempt follows.                *)
CallFits ==
  /\ caller = "none" => call = NoCall /\ result = "none"
  /\ result # "none" => call = NoCall
  /\ route \in Routes \cup {"none"} /\ (caller # "none" => route # "none")
  /\ call.leg > 0 => call.leg <= Len(Legs)
  /\ call.wait => call.tries < MaxRetries
McTyped == McTypeOK /\ CallFits

SeniorOf(who, r) == IF who \in {"plan", "replan"} THEN <<>> ELSE Stack[r]
LegsOf(who, r) ==
  IF who \in {"review", "diagnose"} THEN SeniorOf(who, r)
  ELSE SeniorOf(who, r) \o Stack["planning"]

LEMMA LegsCounted ==
  ASSUME NEW who, NEW r \in Routes
  PROVE  /\ Len(LegsOf(who, r)) \in 1..5 /\ Len(SeniorOf(who, r)) \in 0..2
         /\ Len(SeniorOf(who, r)) <= Len(LegsOf(who, r))
         /\ (r = "google" /\ who \notin {"plan", "replan"}) => Len(LegsOf(who, r)) >= 2
<1> DEFINE S == SeniorOf(who, r)
           L == LegsOf(who, r)
<1>1. /\ Stack["planning"] = <<"cli", "api", "cli">>
      /\ Stack[r] \in {<<"cli">>, <<"api">>, <<"api", "cli">>, <<"cli", "cli">>}
      /\ r = "google" => Stack[r] = <<"api", "cli">>
  BY ModelCallsAssumption DEF Stack
<1>2. S \in {<<>>, <<"cli">>, <<"api">>, <<"api", "cli">>, <<"cli", "cli">>}
  BY <1>1 DEF SeniorOf
<1>3. S \in Seq({"cli", "api"}) /\ Len(S) \in 0..2
  <2> HIDE DEF S
  <2>1. CASE S = <<>>
    BY <2>1
  <2>2. CASE S \in {<<"cli">>, <<"api">>}
    BY <2>2
  <2>3. CASE S = <<"api", "cli">> \/ S = <<"cli", "cli">>
    <3>1. /\ <<"api", "cli">> \in Seq({"cli", "api"}) /\ Len(<<"api", "cli">>) = 2
          /\ <<"cli", "cli">> \in Seq({"cli", "api"}) /\ Len(<<"cli", "cli">>) = 2
          /\ Len(<<"api", "cli">>) \in 0..2 /\ Len(<<"cli", "cli">>) \in 0..2
      OBVIOUS
    <3>2. CASE S = <<"api", "cli">>
      BY <3>1, <3>2, Zenon
    <3>3. CASE S = <<"cli", "cli">>
      BY <3>1, <3>3, Zenon
    <3> QED BY <2>3, <3>2, <3>3
  <2> QED BY <1>2, <2>1, <2>2, <2>3
<1>4. Stack["planning"] \in Seq({"cli", "api"}) /\ Len(Stack["planning"]) = 3
  <2>1. <<"cli", "api", "cli">> \in Seq({"cli", "api"}) /\ Len(<<"cli", "api", "cli">>) = 3
    OBVIOUS
  <2> QED BY <1>1, <2>1
<1>5. Len(S \o Stack["planning"]) = Len(S) + 3
  <2> DEFINE P == Stack["planning"]
  <2> HIDE DEF S, P
  <2>1. S \in Seq({"cli", "api"}) /\ P \in Seq({"cli", "api"}) /\ Len(P) = 3
    BY <1>3, <1>4 DEF P
  <2>2. Len(S \o P) = Len(S) + Len(P)
    BY <2>1, ConcatProperties
  <2> QED BY <2>1, <2>2 DEF P
<1>6. who \in {"review", "diagnose"} => Len(L) = Len(S) /\ Len(S) > 0
  <2>1. who \in {"review", "diagnose"} => S = Stack[r] /\ L = S
    BY DEF SeniorOf, LegsOf
  <2>2. Stack[r] \in {<<"cli">>, <<"api">>, <<"api", "cli">>, <<"cli", "cli">>} =>
          Len(Stack[r]) > 0
    <3> DEFINE x == Stack[r]
    <3> HIDE DEF x
    <3>1. x \in {<<"cli">>, <<"api">>, <<"api", "cli">>, <<"cli", "cli">>} => Len(x) > 0
      OBVIOUS
    <3> QED BY <3>1 DEF x
  <2> QED BY <1>1, <2>1, <2>2
<1>7. who \notin {"review", "diagnose"} => Len(L) = Len(S) + 3
  BY <1>5 DEF LegsOf
<1>8. (r = "google" /\ who \notin {"plan", "replan"}) => Len(S) = 2
  <2>1. (r = "google" /\ who \notin {"plan", "replan"}) => S = <<"api", "cli">>
    BY <1>1 DEF SeniorOf
  <2> QED BY <2>1
<1> DEFINE n == Len(S)
           m == Len(L)
<1>9. n \in 0..2 /\ ((m = n /\ n > 0) \/ m = n + 3)
  BY <1>3, <1>6, <1>7
<1>10. (r = "google" /\ who \notin {"plan", "replan"}) => n = 2
  BY <1>8
<1> HIDE DEF n, m
<1>11. n \in 0..2 /\ m \in 1..5 /\ n <= m
  BY <1>9
<1>12. n = 2 => m >= 2
  BY <1>9
<1> QED BY <1>10, <1>11, <1>12 DEF n, m

LEMMA LegsAreOf == Legs = LegsOf(caller, route) /\ SeniorLegs = SeniorOf(caller, route)
BY DEF Legs, LegsOf, SeniorLegs, SeniorOf, ForPlan

(* An answer is counted towards the quota only where it is not exhausted.   *)
LEMMA QuotaCounts ==
  ASSUME McTyped, NEW answer, ~PrimarySkipped(call.leg)
  PROVE  Tracked(answer) \in [used : 0..QuotaLimit, cooling : BOOLEAN]
<1> DEFINE Q == [used : 0..QuotaLimit, cooling : BOOLEAN]
<1>0. quota \in Q /\ QuotaLimit \in Nat
  BY ModelCallsAssumption DEF McTyped, McTypeOK
<1>1. CASE route # "google" \/ ForPlan \/ call.leg # 1
  BY <1>0, <1>1 DEF Tracked
<1>2. CASE ~(route # "google" \/ ForPlan \/ call.leg # 1)
  <2>1. quota.used < QuotaLimit
    BY <1>0, <1>2 DEF PrimarySkipped, IsExhausted
  <2>2. [quota EXCEPT !.used = @ + 1] \in Q
    BY <1>0, <2>1
  <2>3. [quota EXCEPT !.cooling = @ \/ IsRateLimited(answer)] \in Q
    <3>1. (quota.cooling \/ IsRateLimited(answer)) \in BOOLEAN
      BY Zenon
    <3> QED BY <1>0, <3>1
  <2> QED BY <1>2, <2>2, <2>3 DEF Tracked
<1> QED BY <1>1, <1>2

LEMMA AnswerTyped ==
  ASSUME McTyped, NEW answer \in APIAnswers, Answer(answer)
  PROVE  McTyped'
<1>0. /\ result = "none" /\ call.leg > 0 /\ ~call.wait /\ ~PrimarySkipped(call.leg)
      /\ heard' = heard \cup {answer}
      /\ UNCHANGED <<caller, route, story, charges, paused>>
      /\ spent' = Recorded(answer)
  BY DEF Answer
<1>1. /\ caller # "none" /\ route \in Routes
      /\ Len(Legs) \in 1..5 /\ Len(SeniorLegs) \in 0..2
  <2>1. caller # "none" /\ route \in Routes
    BY <1>0 DEF McTyped, CallFits, NoCall
  <2> QED BY <2>1, LegsAreOf, LegsCounted
<1>2. /\ call \in [leg : 0..5, tries : 0..MaxRetries, wait : BOOLEAN]
      /\ quota \in [used : 0..QuotaLimit, cooling : BOOLEAN]
      /\ call.leg <= Len(Legs) /\ MaxRetries \in Nat /\ NoCall.leg = 0 /\ MaxUSDPerReq \in Nat
  BY <1>0, ModelCallsAssumption DEF McTyped, McTypeOK, CallFits, NoCall
<1>3. Legs' = Legs /\ NoCall' = NoCall
  BY <1>0 DEF Legs, SeniorLegs, ForPlan, NoCall, Stack
<1>4. spent' \in 0..MaxUSDPerReq + 1
  BY <1>0, <1>2 DEF Recorded, McTyped, McTypeOK
<1>5. NoCall \in [leg : 0..5, tries : 0..MaxRetries, wait : BOOLEAN] /\ ~NoCall.wait
  BY <1>2 DEF NoCall
<1>6. /\ call' \in [leg : 0..5, tries : 0..MaxRetries, wait : BOOLEAN]
      /\ quota' \in [used : 0..QuotaLimit, cooling : BOOLEAN]
      /\ result' \in APIAnswers \cup {"none", "deadline"}
      /\ result' # "none" => call' = NoCall
      /\ call'.leg > 0 => call'.leg <= Len(Legs)
      /\ call'.wait => call'.tries < MaxRetries
  <2>1. CASE /\ call.tries < MaxRetries
             /\ call' = [call EXCEPT !.wait = TRUE] /\ UNCHANGED <<result, quota>>
    BY <1>0, <1>2, <2>1
  <2>2. CASE Returns(answer) /\ quota' = Tracked(answer)
    <3>1. quota' \in [used : 0..QuotaLimit, cooling : BOOLEAN]
      BY <1>0, <2>2, QuotaCounts
    <3>2. CASE SeniorGivesUp(answer)
      <4>1. call' = [NoCall EXCEPT !.leg = Len(SeniorLegs) + 1] /\ result' = "none"
        BY <1>0, <2>2, <3>2 DEF Returns
      <4> DEFINE n == Len(SeniorLegs)
                 m == Len(Legs)
      <4>a. n \in 0..2 /\ m \in 1..5 /\ m > n
        BY <1>1, <3>2 DEF SeniorGivesUp
      <4> HIDE DEF n, m
      <4>2. n + 1 \in 0..5 /\ n + 1 <= m
        BY <4>a
      <4> QED BY <1>2, <1>5, <3>1, <4>1, <4>2 DEF n, m
    <3>3. CASE ~SeniorGivesUp(answer) /\ (answer \in Completions \/ call.leg = Len(Legs))
      <4>1. call' = NoCall /\ result' \in Wrapped(answer)
        BY <2>2, <3>3 DEF Returns
      <4>2. result' \in APIAnswers
        BY <4>1 DEF Wrapped, APIAnswers, HTTPErrors, CLIErrors
      <4> QED BY <1>2, <1>5, <3>1, <4>1, <4>2
    <3>4. CASE ~SeniorGivesUp(answer) /\ ~(answer \in Completions \/ call.leg = Len(Legs))
      <4>1. call' = [NoCall EXCEPT !.leg = call.leg + 1] /\ result' = "none"
        BY <1>0, <2>2, <3>4 DEF Returns
      <4> DEFINE n == call.leg
                 m == Len(Legs)
      <4>a. n \in 0..5 /\ m \in 1..5 /\ n <= m /\ n # m
        BY <1>1, <1>2, <3>4
      <4> HIDE DEF n, m
      <4>2. n + 1 \in 0..5 /\ n + 1 <= m
        BY <4>a
      <4> QED BY <1>2, <1>5, <3>1, <4>1, <4>2 DEF n, m
    <3> QED BY <3>2, <3>3, <3>4
  <2> QED BY <2>1, <2>2 DEF Answer
<1> QED BY <1>0, <1>1, <1>3, <1>4, <1>6 DEF McTyped, McTypeOK, CallFits

(* Whatever a caller makes of a result, the next call starts from nothing.  *)
LEMMA SettlesTyped ==
  ASSUME McTyped, NEW at, NEW charged \in {0, 1}, NEW pauses \in BOOLEAN,
         Settles(at, charged, pauses), result # "none" \/ caller = "none",
         at \in {"unplanned", "draft", "review", "merge", "merged", "split"},
         charged = 1 => charges < MaxCharges + 1
  PROVE  McTyped'
<1>1. /\ caller' = "none" /\ heard' = {} /\ result' = "none" /\ call = NoCall
      /\ story' = at /\ charges' = charges + charged /\ paused' = (paused \/ pauses)
      /\ UNCHANGED <<route, call, quota, spent>>
  BY DEF Settles, McTyped, CallFits
<1>2. charges' \in 0..MaxCharges + 1
  BY <1>1, ModelCallsAssumption DEF McTyped, McTypeOK
<1>3. paused' \in BOOLEAN
  BY <1>1, Zenon
<1>4. CallFits'
  <2>1. NoCall.leg = 0 /\ ~NoCall.wait /\ NoCall' = NoCall
    BY DEF NoCall
  <2> QED BY <1>1, <2>1 DEF McTyped, CallFits
<1> QED BY <1>1, <1>2, <1>3, <1>4 DEF McTyped, McTypeOK

LEMMA ReturnsTyped ==
  ASSUME McTyped,
         \/ PlanReturns \/ ReviewReturns \/ MergeReturns \/ ManualReturns
         \/ DiagnosisReturns \/ RePlanReturns \/ EmptyAgent
  PROVE  McTyped'
<1>0. story \in {"unplanned", "draft", "review", "merge", "merged", "split"}
  BY DEF McTyped, McTypeOK
<1>1. result # "none" \/ caller = "none"
  BY DEF PlanReturns, ReviewReturns, MergeReturns, ManualReturns, DiagnosisReturns,
         RePlanReturns, EmptyAgent
<1>2. \E at \in {"unplanned", "draft", "review", "merge", "merged", "split"},
         charged \in {0, 1}, pauses \in BOOLEAN :
           /\ Settles(at, charged, pauses)
           /\ charged = 1 => charges < MaxCharges + 1
  <2> DEFINE Good(at, charged, pauses) ==
               /\ at \in {"unplanned", "draft", "review", "merge", "merged", "split"}
               /\ charged \in {0, 1} /\ pauses \in BOOLEAN
               /\ Settles(at, charged, pauses)
               /\ charged = 1 => charges < MaxCharges + 1
  <2>1. OverBudget \in BOOLEAN
    BY Zenon DEF OverBudget
  <2>2. Charge => Good("draft", 1, FALSE)
    BY DEF Charge
  <2>3. Pause => Good(story, 0, TRUE)
    <3>1. 0 \in {0, 1} /\ 0 # 1
      OBVIOUS
    <3> QED BY <1>0, <3>1, Zenon DEF Pause
  <2>4. \A at \in {"unplanned", "draft", "review", "merge", "merged", "split"},
           b \in BOOLEAN : Settles(at, 0, b) => Good(at, 0, b)
    OBVIOUS
  <2> HIDE DEF Good
  <2>5. \/ Charge \/ Pause
        \/ \E at \in {"unplanned", "draft", "review", "merge", "merged", "split"},
              b \in BOOLEAN : Settles(at, 0, b)
    <3>1. CASE PlanReturns
      BY <3>1 DEF PlanReturns
    <3>2. CASE ReviewReturns
      BY <3>2 DEF ReviewReturns
    <3>3. CASE MergeReturns
      BY <2>1, <3>3 DEF MergeReturns
    <3>4. CASE ManualReturns
      BY <3>4 DEF ManualReturns
    <3>5. CASE DiagnosisReturns
      BY <3>5 DEF DiagnosisReturns
    <3>6. CASE RePlanReturns
      BY <3>6 DEF RePlanReturns
    <3>7. CASE EmptyAgent
      BY <3>7 DEF EmptyAgent
    <3> QED BY <3>1, <3>2, <3>3, <3>4, <3>5, <3>6, <3>7
  <2>6. \E at, charged, pauses : Good(at, charged, pauses)
    BY <2>2, <2>3, <2>4, <2>5
  <2> QED BY <2>6 DEF Good
<1> QED BY <1>1, <1>2, SettlesTyped

LEMMA AsksTyped ==
  ASSUME McTyped, NEW who \in {"plan", "review", "merge", "manual", "diagnose", "replan"},
         Asks(who)
  PROVE  McTyped'
<1>1. /\ route # "none" /\ caller' = who /\ heard' = {} /\ result' = "none"
      /\ call' = [NoCall EXCEPT !.leg = 1]
      /\ UNCHANGED <<route, quota, story, charges, paused, spent>>
  BY DEF Asks, Outside
<1>2. route' \in Routes /\ MaxRetries \in Nat
  BY <1>1, ModelCallsAssumption DEF McTyped, CallFits
<1>3. Legs' = LegsOf(who, route')
  BY <1>1 DEF Legs, LegsOf, SeniorLegs, SeniorOf, ForPlan, Stack
<1>4. Len(Legs') \in 1..5
  BY <1>2, <1>3, LegsCounted
<1>5. /\ call' \in [leg : 0..5, tries : 0..MaxRetries, wait : BOOLEAN]
      /\ call'.leg = 1 /\ ~call'.wait
  <2>1. call' = [leg |-> 1, tries |-> 0, wait |-> FALSE]
    BY <1>1 DEF NoCall
  <2> QED BY <1>2, <2>1
<1>6. CallFits'
  <2>1. who # "none" /\ 1 <= Len(Legs')
    BY <1>4
  <2>2. route' # "none"
    BY <1>1
  <2> QED BY <1>1, <1>2, <1>5, <2>1, <2>2 DEF CallFits
<1> QED BY <1>1, <1>5, <1>6 DEF McTyped, McTypeOK

LEMMA McTypedStep == McTyped /\ [McNext]_mcVars => McTyped'
<1> SUFFICES ASSUME McTyped, [McNext]_mcVars PROVE McTyped'
  OBVIOUS
<1>0. /\ call \in [leg : 0..5, tries : 0..MaxRetries, wait : BOOLEAN] /\ MaxRetries \in Nat
      /\ quota \in [used : 0..QuotaLimit, cooling : BOOLEAN] /\ QuotaLimit \in Nat
  BY ModelCallsAssumption DEF McTyped, McTypeOK
<1>1. CASE UNCHANGED mcVars
  <2>1. UNCHANGED <<route, caller, call, heard, result, quota, story, charges, paused, spent>>
    BY <1>1 DEF mcVars
  <2>2. CallFits'
    BY <2>1 DEF McTyped, CallFits, Legs, SeniorLegs, ForPlan
  <2>3. McTypeOK'
    BY <2>1 DEF McTyped, McTypeOK
  <2> QED BY <2>2, <2>3 DEF McTyped
<1>2. CASE BuildClients
  <2>1. /\ route = "none" /\ route' \in Routes
        /\ UNCHANGED <<caller, call, heard, result, quota, story, charges, paused, spent>>
    BY <1>2 DEF BuildClients
  <2>2. caller = "none" /\ call = NoCall
    BY <2>1 DEF McTyped, CallFits
  <2>3. route' \in DOMAIN Stack
    BY <2>1, ModelCallsAssumption DEF Stack
  <2>4. CallFits'
    <3>1. call'.leg = 0 /\ ~call'.wait /\ call' = NoCall
      BY <2>1, <2>2 DEF NoCall
    <3>2. result' = "none" /\ caller' = "none"
      BY <2>1, <2>2 DEF McTyped, CallFits
    <3> QED BY <2>1, <3>1, <3>2 DEF CallFits
  <2>5. route' \in DOMAIN Stack \cup {"none"}
    BY <2>3
  <2>6. UNCHANGED <<caller, call, heard, result, quota, story, charges, paused, spent>>
    BY <2>1
  <2> HIDE <2>1
  <2> QED BY <2>4, <2>5, <2>6 DEF McTyped, McTypeOK
<1>3. CASE SkipPrimary
  <2>1. /\ result = "none" /\ call.leg > 0 /\ PrimarySkipped(call.leg)
        /\ call' = [NoCall EXCEPT !.leg = call.leg + 1]
        /\ UNCHANGED <<caller, heard, result, route, quota, story, charges, paused, spent>>
    BY <1>3 DEF SkipPrimary, Outside
  <2>2. /\ route = "google" /\ caller \notin {"plan", "replan"} /\ call.leg = 1
        /\ caller # "none" /\ route \in Routes
    BY <2>1 DEF PrimarySkipped, ForPlan, McTyped, CallFits, NoCall
  <2>3. Len(Legs) >= 2 /\ Legs' = Legs
    BY <2>1, <2>2, LegsAreOf, LegsCounted DEF Legs, SeniorLegs, ForPlan, Stack
  <2>4. /\ call' \in [leg : 0..5, tries : 0..MaxRetries, wait : BOOLEAN]
        /\ call'.leg = 2 /\ ~call'.wait
    <3>1. call.leg + 1 = 2
      BY <2>2
    <3>2. call' = [NoCall EXCEPT !.leg = 2]
      BY <2>1, <3>1
    <3>3. call' = [leg |-> 2, tries |-> 0, wait |-> FALSE]
      BY <3>2 DEF NoCall
    <3> QED BY <1>0, <3>3
  <2>5. 2 <= Len(Legs)
    <3>1. Len(Legs) \in 1..5
      BY <2>2, LegsAreOf, LegsCounted
    <3> QED BY <2>3, <3>1
  <2> QED BY <2>1, <2>2, <2>3, <2>4, <2>5 DEF McTyped, McTypeOK, CallFits
<1>4. CASE ProviderAnswers
  BY <1>4, AnswerTyped DEF ProviderAnswers
<1>5. CASE RetryAgain
  <2>1. /\ call.wait /\ call' = [call EXCEPT !.tries = @ + 1, !.wait = FALSE]
        /\ UNCHANGED <<caller, heard, result, route, quota, story, charges, paused, spent>>
    BY <1>5 DEF RetryAgain, Outside
  <2>2. call.tries < MaxRetries /\ result = "none" /\ caller # "none"
    BY <2>1 DEF McTyped, CallFits, NoCall
  <2>3. /\ call' \in [leg : 0..5, tries : 0..MaxRetries, wait : BOOLEAN]
        /\ call'.leg = call.leg /\ ~call'.wait
    <3>1. call' = [leg |-> call.leg, tries |-> call.tries + 1, wait |-> FALSE]
      BY <1>0, <2>1
    <3>2. call.tries + 1 \in 0..MaxRetries /\ call.leg \in 0..5
      BY <1>0, <2>2
    <3> QED BY <3>1, <3>2
  <2>4. Legs' = Legs
    BY <2>1 DEF Legs, SeniorLegs, ForPlan
  <2> QED BY <2>1, <2>2, <2>3, <2>4 DEF McTyped, McTypeOK, CallFits
<1>6. CASE Deadline
  <2>1. /\ call' = NoCall /\ result' = "deadline" /\ caller # "none"
        /\ UNCHANGED <<caller, heard, route, quota, story, charges, paused, spent>>
    BY <1>6 DEF Deadline, Outside
  <2>2. /\ NoCall \in [leg : 0..5, tries : 0..MaxRetries, wait : BOOLEAN]
        /\ NoCall.leg = 0 /\ ~NoCall.wait /\ NoCall' = NoCall
    BY <1>0 DEF NoCall
  <2> QED BY <2>1, <2>2 DEF McTyped, McTypeOK, CallFits
<1>7. CASE MinutePasses \/ CooldownEnds
  <2>1. /\ quota' \in [used : 0..QuotaLimit, cooling : BOOLEAN]
        /\ UNCHANGED <<route, caller, call, heard, result, story, charges, paused, spent>>
    <3>1. CASE MinutePasses
      <4>1. quota' = [used |-> 0, cooling |-> quota.cooling]
        BY <1>0, <3>1 DEF MinutePasses
      <4> QED BY <1>0, <3>1, <4>1 DEF MinutePasses
    <3>2. CASE CooldownEnds
      <4>1. quota' = [used |-> quota.used, cooling |-> FALSE]
        BY <1>0, <3>2 DEF CooldownEnds
      <4> QED BY <1>0, <3>2, <4>1 DEF CooldownEnds
    <3> QED BY <1>7, <3>1, <3>2
  <2> QED BY <2>1 DEF McTyped, McTypeOK, CallFits, Legs, SeniorLegs, ForPlan
<1>8. CASE AskPlan \/ AskReview \/ AskMerge \/ AskDiagnosis \/ AskRePlan
  BY <1>8, AsksTyped DEF AskPlan, AskReview, AskMerge, AskDiagnosis, AskRePlan
<1>9. CASE Dispatch \/ ResumePaused
  <2>1. /\ UNCHANGED <<route, caller, call, heard, result, quota, charges, spent>>
        /\ story' \in {story, "review"} /\ paused' \in {paused, FALSE}
    BY <1>9 DEF Dispatch, ResumePaused
  <2>2. CallFits'
    BY <2>1 DEF McTyped, CallFits, Legs, SeniorLegs, ForPlan
  <2>3. /\ story' \in {"unplanned", "draft", "review", "merge", "merged", "split"}
        /\ paused' \in BOOLEAN
    BY <2>1 DEF McTyped, McTypeOK
  <2> QED BY <2>1, <2>2, <2>3 DEF McTyped, McTypeOK
<1> QED BY <1>1, <1>2, <1>3, <1>4, <1>5, <1>6, <1>7, <1>8, <1>9, ReturnsTyped DEF McNext

(* No call leaves its stack of clients, no client is asked more often than  *)
(* its retries allow, no quota is overdrawn, and what is counted stays      *)
(* within the limits it is compared with.                                   *)
THEOREM McIsTyped == McSpec => []McTypeOK
<1>1. McInit => McTyped
  <2> SUFFICES ASSUME McInit PROVE McTyped
    OBVIOUS
  <2>1. /\ NoCall \in [leg : 0..5, tries : 0..MaxRetries, wait : BOOLEAN]
        /\ NoCall.leg = 0 /\ ~NoCall.wait
    BY ModelCallsAssumption DEF NoCall
  <2>2. quota \in [used : 0..QuotaLimit, cooling : BOOLEAN]
    BY ModelCallsAssumption DEF McInit
  <2>3. CallFits
    BY <2>1 DEF McInit, CallFits
  <2>4. charges \in 0..MaxCharges + 1 /\ spent \in 0..MaxUSDPerReq + 1
    BY ModelCallsAssumption DEF McInit
  <2>5. paused \in BOOLEAN
    BY Zenon DEF McInit
  <2> QED BY <2>1, <2>2, <2>3, <2>4, <2>5 DEF McInit, McTyped, McTypeOK
<1>2. McTyped => McTypeOK
  BY DEF McTyped
<1> QED BY <1>1, <1>2, McTypedStep, PTL DEF McSpec

(* No attempt but those made has commits in a tree, and attempts, rounds    *)
(* and the moves of the base are counted to their limits.                   *)
TreeOfAttempts(t) == t.work \subseteq 1..MaxAttempts
BranchBounds ==
  /\ attempt <= MaxAttempts /\ (job.at = "agent" => attempt > 0)
  /\ baseTip.n = moves /\ moves <= MaxMoves
  /\ job.round <= MaxRounds
  /\ TreeOfAttempts(head.tree) /\ TreeOfAttempts(branchTip)
  /\ head.on = "rebasing" => TreeOfAttempts(head.orig.tree)

(* Where HEAD goes to a tree of attempts, all trees stay such.              *)
LEMMA HeadAtAttempts ==
  ASSUME BranchBounds, NEW on, NEW tree, on # "rebasing", TreeOfAttempts(tree), HeadAt(on, tree)
  PROVE  /\ TreeOfAttempts(head'.tree) /\ TreeOfAttempts(branchTip')
         /\ head'.on # "rebasing"
BY DEF BranchBounds, HeadAt, TreeOfAttempts

(* An abort returns to the tree the rebase started from; when none is under *)
(* way, it is not reached.                                                  *)
LEMMA AbortedAttempts ==
  ASSUME BranchTyped, BranchBounds, head.on = "rebasing", Aborted
  PROVE  /\ TreeOfAttempts(head'.tree) /\ TreeOfAttempts(branchTip')
         /\ head'.on # "rebasing"
<1>1. head.orig \in HeadOn({"branch", "detached"})
  BY DEF BranchTyped, InRebase, HeadOn
<1>2. head.orig.on # "rebasing" /\ TreeOfAttempts(head.orig.tree)
  BY <1>1 DEF HeadOn, BranchBounds
<1> QED BY <1>2, HeadAtAttempts DEF Aborted

LEMMA GiveBounds ==
  ASSUME BranchBounds, Give,
         TreeOfAttempts(head'.tree), TreeOfAttempts(branchTip'),
         head'.on = "rebasing" => TreeOfAttempts(head'.orig.tree)
  PROVE  BranchBounds'
<1>1. job'.round = 0 /\ job'.at = "idle" /\ UNCHANGED <<baseTip, attempt, moves>>
  BY DEF Give, IdleJob
<1> QED BY <1>1, StoryBranchAssumption DEF BranchBounds, TreeOfAttempts

(* Steps of the pipeline that move neither the base nor the attempts.       *)
LEMMA PipelineBounds ==
  ASSUME BranchBounds, UNCHANGED <<baseTip, attempt, moves>>, job'.at # "agent",
         job'.round = job.round \/ job'.round <= MaxRounds,
         TreeOfAttempts(head'.tree), TreeOfAttempts(branchTip'),
         head'.on = "rebasing" => TreeOfAttempts(head'.orig.tree)
  PROVE  BranchBounds'
BY DEF BranchBounds, TreeOfAttempts

LEMMA CommitAttempts ==
  ASSUME BranchTyped, BranchBounds, NEW tree, TreeOfAttempts(tree), CommitTree(tree)
  PROVE  /\ TreeOfAttempts(head'.tree) /\ TreeOfAttempts(branchTip')
         /\ head'.on = "rebasing" => TreeOfAttempts(head'.orig.tree)
<1>1. head'.tree = tree /\ head'.on = head.on /\ head'.orig = head.orig
  BY DEF CommitTree, BranchTyped, InRebase, HeadOn
<1> QED BY <1>1 DEF CommitTree, BranchBounds, TreeOfAttempts

LEMMA BranchBoundsStep ==
  BranchInv /\ BranchBounds /\ [BranchNext]_branchVars => BranchBounds'
<1> SUFFICES ASSUME BranchInv, BranchBounds, [BranchNext]_branchVars PROVE BranchBounds'
  OBVIOUS
<1>0. /\ BranchTyped /\ HeadFits /\ job \in JobType /\ attempt \in Nat /\ moves \in Nat
      /\ MaxAttempts \in Nat /\ MaxRounds \in Nat /\ MaxMoves \in Nat
      /\ TreeOfAttempts(head.tree) /\ TreeOfAttempts(branchTip)
  BY StoryBranchAssumption DEF BranchInv, BranchTyped, BranchBounds
<1>s. Stay => /\ TreeOfAttempts(head'.tree) /\ TreeOfAttempts(branchTip')
              /\ head'.on = "rebasing" => TreeOfAttempts(head'.orig.tree)
  BY DEF Stay, BranchBounds, TreeOfAttempts
<1>e. \A n : TreeOfAttempts(Tree(n))
  BY DEF Tree, TreeOfAttempts
<1>r. \A t \in TreeType, n \in Nat : TreeOfAttempts(t) => TreeOfAttempts(Rebased(t, n))
  BY RebasedTree DEF TreeOfAttempts
<1>t. head.tree \in TreeType
  BY <1>0 DEF BranchTyped, HeadOn, InRebase
<1>1. CASE CreateWorktree
  <2>1. /\ attempt < MaxAttempts /\ attempt' = attempt + 1 /\ job' = [IdleJob EXCEPT !.at = "agent"]
        /\ UNCHANGED <<baseTip, moves>>
        /\ Stay \/ \E n \in 0..baseTip.n : HeadAt("branch", Tree(n))
    BY <1>1 DEF CreateWorktree
  <2>2. /\ TreeOfAttempts(head'.tree) /\ TreeOfAttempts(branchTip')
        /\ head'.on = "rebasing" => TreeOfAttempts(head'.orig.tree)
    BY <1>s, <1>e, <2>1, HeadAtAttempts
  <2>3. attempt' > 0 /\ attempt' <= MaxAttempts /\ job'.round = 0
    BY <1>0, <2>1 DEF IdleJob
  <2> QED BY <1>0, <2>1, <2>2, <2>3 DEF BranchBounds, TreeOfAttempts
<1>2. CASE AgentWorks
  <2>1. PICK w \in {{}, {attempt}} :
          CommitTree([head.tree EXCEPT !.work = @ \cup w,
                       !.markers = @ \/ (head.on = "rebasing" /\ w = {})])
    BY <1>2 DEF AgentWorks
  <2>2. attempt \in 1..MaxAttempts
    BY <1>0, <1>2 DEF AgentWorks, BranchBounds
  <2> DEFINE t == [head.tree EXCEPT !.work = @ \cup w,
                     !.markers = @ \/ (head.on = "rebasing" /\ w = {})]
  <2>3. t.work = head.tree.work \cup w
    BY <1>t DEF TreeType
  <2>4. TreeOfAttempts(t)
    BY <1>0, <2>2, <2>3 DEF TreeOfAttempts
  <2>5. CommitTree(t)
    BY <2>1
  <2>6. job'.round = job.round /\ job'.at = "hygiene" /\ UNCHANGED <<baseTip, attempt, moves>>
    BY <1>0, <1>2 DEF AgentWorks, JobType
  <2> HIDE DEF t
  <2>7. /\ TreeOfAttempts(head'.tree) /\ TreeOfAttempts(branchTip')
        /\ head'.on = "rebasing" => TreeOfAttempts(head'.orig.tree)
    BY <1>0, <2>4, <2>5, CommitAttempts
  <2> QED BY <1>0, <2>6, <2>7, PipelineBounds
<1>3. CASE Hygiene
  <2>1. PICK amend \in BOOLEAN, late \in BOOLEAN, pass \in BOOLEAN :
          LET t == IF amend THEN Amended(head.tree) ELSE head.tree
              caught == t.markers /\ ~late IN
          /\ CommitTree(t)
          /\ IF caught \/ EmptyDiff(t) \/ ~pass
             THEN Give /\ UNCHANGED <<checked, strayed>>
             ELSE /\ checked' = t.work /\ job' = [job EXCEPT !.at = "rebase"]
                  /\ UNCHANGED <<baseTip, pushed, attempt, moves, strayed>>
    BY <1>3 DEF Hygiene
  <2> DEFINE t == IF amend THEN Amended(head.tree) ELSE head.tree
  <2>2. TreeOfAttempts(t)
    BY <1>0, <1>t, AmendedTree DEF TreeOfAttempts
  <2>3. CommitTree(t)
    BY <2>1
  <2>4. \/ Give
        \/ /\ job' = [job EXCEPT !.at = "rebase"] /\ UNCHANGED <<baseTip, attempt, moves>>
    BY <2>1
  <2> HIDE DEF t
  <2>5. /\ TreeOfAttempts(head'.tree) /\ TreeOfAttempts(branchTip')
        /\ head'.on = "rebasing" => TreeOfAttempts(head'.orig.tree)
    BY <1>0, <2>2, <2>3, CommitAttempts
  <2>6. CASE Give
    BY <2>5, <2>6, GiveBounds
  <2>7. CASE job' = [job EXCEPT !.at = "rebase"] /\ UNCHANGED <<baseTip, attempt, moves>>
    <3>1. job'.round = job.round /\ job'.at = "rebase"
      BY <1>0, <2>7 DEF JobType
    <3> QED BY <2>5, <2>7, <3>1, PipelineBounds
  <2> QED BY <2>4, <2>6, <2>7
<1>4. CASE BaseMoves
  <2>1. /\ moves < MaxMoves /\ moves' = moves + 1 /\ baseTip'.n = baseTip.n + 1
        /\ UNCHANGED <<head, branchTip, job, attempt>>
    BY <1>4 DEF BaseMoves
  <2> QED BY <1>0, <2>1 DEF BranchBounds, TreeOfAttempts
<1>5. CASE StartRebase
  <2>1. CASE head.on = "rebasing" /\ RebaseRefused
    BY <1>0, <2>1, AbortedAttempts, GiveBounds DEF RebaseRefused
  <2>2. CASE Stay /\ Give
    BY <1>s, <2>2, GiveBounds
  <2>3. CASE /\ head.on # "rebasing" /\ HeadAt(head.on, Rebased(head.tree, baseTip.n))
             /\ job' = [job EXCEPT !.at = "premerge", !.fetched = baseTip.n]
             /\ UNCHANGED <<baseTip, pushed, attempt, moves>>
    <3>1. job'.round = job.round /\ job'.at = "premerge"
      BY <1>0, <2>3 DEF JobType
    <3>2. TreeOfAttempts(Rebased(head.tree, baseTip.n))
      BY <1>0, <1>r, <1>t DEF BranchTyped
    <3> QED BY <2>3, <3>1, <3>2, HeadAtAttempts, PipelineBounds
  <2>4. CASE /\ head.on # "rebasing"
             /\ head' = [on |-> "rebasing", tree |-> head.tree, orig |-> head]
             /\ UNCHANGED branchTip
             /\ job' = [job EXCEPT !.at = "rounds", !.round = 0, !.fetched = baseTip.n]
             /\ UNCHANGED <<baseTip, pushed, attempt, moves>>
    <3>1. job'.round = 0 /\ job'.at = "rounds"
      BY <1>0, <2>4 DEF JobType
    <3>2. /\ head'.tree = head.tree /\ head'.orig.tree = head.tree
      BY <2>4
    <3> QED BY <1>0, <2>4, <3>1, <3>2, PipelineBounds DEF TreeOfAttempts
  <2> QED BY <1>5, <2>1, <2>2, <2>3, <2>4 DEF StartRebase
<1>6. CASE ResolveRound
  <2>0. head.on = "rebasing"
    BY <1>0, <1>6 DEF ResolveRound, HeadFits
  <2>1. PICK files, res :
          LET t == [head.tree EXCEPT !.lost = @ \cup Dropped(res)]
              done == Rebased(t, job.fetched) IN
          \/ AbortRebase
          \/ /\ job.round < MaxRounds
             /\ head' = [head EXCEPT !.tree = t] /\ UNCHANGED branchTip
             /\ job' = [job EXCEPT !.round = @ + 1]
             /\ UNCHANGED <<baseTip, pushed, attempt, moves>>
          \/ /\ HeadAt(head.orig.on, done)
             /\ job' = [job EXCEPT !.at = "premerge"]
             /\ UNCHANGED <<baseTip, pushed, attempt, moves>>
    BY <1>6 DEF ResolveRound
  <2> DEFINE t == [head.tree EXCEPT !.lost = @ \cup Dropped(res)]
             done == Rebased(t, job.fetched)
  <2>2. t.work = head.tree.work /\ done.work = head.tree.work
    BY <1>t DEF TreeType, Rebased
  <2>3. TreeOfAttempts(t) /\ TreeOfAttempts(done)
    BY <1>0, <2>2 DEF TreeOfAttempts
  <2>4. CASE AbortRebase
    BY <1>0, <2>0, <2>4, AbortedAttempts, GiveBounds DEF AbortRebase
  <2>5. CASE /\ job.round < MaxRounds
             /\ head' = [head EXCEPT !.tree = t] /\ UNCHANGED branchTip
             /\ job' = [job EXCEPT !.round = @ + 1]
             /\ UNCHANGED <<baseTip, pushed, attempt, moves>>
    <3> HIDE DEF t, done
    <3>1. job'.round = job.round + 1 /\ job'.at = job.at /\ job.round \in Nat /\ job.at = "rounds"
      BY <1>0, <1>6, <2>5 DEF JobType, ResolveRound
    <3>2. head'.tree = t /\ head'.orig = head.orig
      BY <1>0, <2>5 DEF BranchTyped, HeadOn, InRebase
    <3>3. TreeOfAttempts(head.orig.tree)
      BY <2>0 DEF BranchBounds
    <3>4. job'.round <= MaxRounds /\ job'.at # "agent"
      BY <1>0, <2>5, <3>1
    <3> QED BY <1>0, <2>3, <2>5, <3>2, <3>3, <3>4, PipelineBounds DEF TreeOfAttempts
  <2>6. CASE /\ HeadAt(head.orig.on, done)
             /\ job' = [job EXCEPT !.at = "premerge"]
             /\ UNCHANGED <<baseTip, pushed, attempt, moves>>
    <3> HIDE DEF t, done
    <3>1. job'.round = job.round /\ job'.at = "premerge"
      BY <1>0, <2>6 DEF JobType
    <3>2. head.orig.on # "rebasing"
      BY <1>0, <2>0 DEF BranchTyped, InRebase, HeadOn
    <3> QED BY <2>3, <2>6, <3>1, <3>2, HeadAtAttempts, PipelineBounds
  <2> QED BY <2>1, <2>4, <2>5, <2>6
<1>7. CASE CheckRebased
  <2>1. /\ Stay \/ HeadAt("detached", Tree(job.fetched))
        /\ UNCHANGED <<baseTip, attempt, moves>>
        /\ job'.round = job.round /\ job'.at \in {"push", "basecheck"}
    BY <1>0, <1>7 DEF CheckRebased, JobType
  <2> QED BY <1>s, <1>e, <2>1, HeadAtAttempts, PipelineBounds
<1>8. CASE CheckBase
  <2>1. /\ Stay \/ HeadAt("branch", branchTip)
        /\ \/ Give
           \/ /\ job'.round = job.round /\ job'.at = "push"
              /\ UNCHANGED <<baseTip, attempt, moves>>
    BY <1>0, <1>8 DEF CheckBase, JobType
  <2>2. /\ TreeOfAttempts(head'.tree) /\ TreeOfAttempts(branchTip')
        /\ head'.on = "rebasing" => TreeOfAttempts(head'.orig.tree)
    BY <1>0, <1>s, <2>1, HeadAtAttempts
  <2> QED BY <2>1, <2>2, GiveBounds, PipelineBounds
<1>9. CASE PushBranch
  <2>1. /\ Stay
        /\ \/ Give
           \/ /\ job'.round = job.round /\ job'.at = "merge"
              /\ UNCHANGED <<baseTip, attempt, moves>>
    BY <1>0, <1>9 DEF PushBranch, JobType
  <2> QED BY <1>s, <2>1, GiveBounds, PipelineBounds
<1>10. CASE MergePR
  <2>1. /\ job'.round = 0 /\ job'.at = "idle" /\ UNCHANGED <<attempt, moves, branchTip>>
        /\ baseTip'.n = baseTip.n
    BY <1>0, <1>10 DEF MergePR, IdleJob, Stay, BranchTyped
  <2>2. /\ head'.tree = head.tree
        /\ head'.on = "rebasing" => head' = head
    BY <1>0, <1>10 DEF MergePR, Stay, BranchTyped, HeadOn, InRebase
  <2> QED BY <1>0, <2>1, <2>2 DEF BranchBounds, TreeOfAttempts
<1>11. CASE KillPipeline
  BY <1>s, <1>11, GiveBounds DEF KillPipeline
<1>12. CASE UNCHANGED branchVars
  BY <1>12 DEF branchVars, BranchBounds, TreeOfAttempts
<1> QED BY <1>1, <1>2, <1>3, <1>4, <1>5, <1>6, <1>7, <1>8, <1>9, <1>10, <1>11, <1>12
        DEF BranchNext

(* The resolver stops within its rounds, and no tree has the work of an     *)
(* attempt that was never made, through kills, refusals and rebases left    *)
(* open.                                                                    *)
THEOREM BranchIsTyped == BranchSpec => []BranchTypeOK
<1>1. BranchInit => BranchBounds
  BY StoryBranchAssumption DEF BranchInit, BranchBounds, TreeOfAttempts, Tree, IdleJob
<1>2. BranchInv /\ BranchBounds => BranchTypeOK
  <2> SUFFICES ASSUME BranchInv, BranchBounds PROVE BranchTypeOK
    OBVIOUS
  <2>1. BranchTyped
    BY DEF BranchInv
  <2>2. head.on \in {"none", "branch", "detached", "rebasing", "merged"}
    BY <2>1 DEF BranchTyped, HeadOn, InRebase
  <2>3. branchTip.lost \subseteq Kinds
    BY <2>1 DEF BranchTyped, TreeType, RuleKinds, Kinds
  <2>4. job.at \in PipelineStep /\ job.round \in 0..MaxRounds
    BY <2>1, StoryBranchAssumption DEF BranchTyped, JobType, BranchBounds
  <2>5. baseTip.n \in 0..MaxMoves /\ attempt \in 0..MaxAttempts
    BY <2>1, StoryBranchAssumption DEF BranchTyped, BranchBounds
  <2> QED BY <2>2, <2>3, <2>4, <2>5 DEF BranchBounds, TreeOfAttempts, PipelineStep, BranchTypeOK
<1> QED BY <1>1, <1>2, BranchInitial, BranchBoundsStep, BranchStep, PTL DEF BranchSpec
=============================================================================
