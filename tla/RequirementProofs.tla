--------------------------- MODULE RequirementProofs ---------------------------
(***************************************************************************)
(* What happens to a requirement above its pipelines, for any plan, limits,*)
(* histories and numbers of runs: the escalation chain of a story as it is *)
(* read off the log, the verdict of the completion gate, and the plan of   *)
(* stories with the waves that are dispatched from it.                     *)
(***************************************************************************)
EXTENDS PlanGraph, EscalationLog, CompletionGate, FiniteSetTheorems, TLAPS

(* --- the largest of a set of numbers -------------------------------------- *)

(* By the well-founded order of finite sets: of the sets of what is larger  *)
(* than a member of S, a minimal one is empty.                              *)
LEMMA BoundedHasMax ==
  ASSUME NEW S \in SUBSET Nat, NEW n \in Nat, \A x \in S : x <= n, S # {}
  PROVE  \E x \in S : \A y \in S : y <= x
<1> DEFINE Up(x) == {y \in S : x < y}
           Ups == {Up(x) : x \in S}
<1>1. IsFiniteSet(S)
  BY FS_BoundedSetOfNaturals
<1>2. Ups \subseteq FiniteSubsetsOf(S) /\ Ups # {}
  <2>1. FiniteSubsetsOf(S) = SUBSET S
    BY <1>1, FS_FiniteSubsetsOfFinite
  <2>2. \A x \in S : Up(x) \in FiniteSubsetsOf(S)
    BY <2>1
  <2>3. Ups # {}
    OBVIOUS
  <2> QED BY <2>2, <2>3
<1>3. PICK U \in Ups : \A V \in Ups : <<V, U>> \notin StrictSubsetOrdering(S)
  <2> HIDE DEF Ups
  <2> QED BY <1>2, FS_StrictSubsetOrderingWellFounded, WFMin
<1>4. PICK x \in S : U = Up(x)
  BY <1>3
<1>5. ASSUME NEW y \in S, x < y PROVE FALSE
  <2>0. \A z \in S : z \in Nat
    OBVIOUS
  <2>1. Up(y) \subseteq U /\ y \in U /\ y \notin Up(y)
    <3>1. \A z \in Up(y) : x < z
      BY <1>5, <2>0
    <3>2. y \notin Up(y)
      BY <2>0
    <3> QED BY <1>4, <1>5, <3>1, <3>2
  <2>2. <<Up(y), U>> \in StrictSubsetOrdering(S)
    BY <2>1, <1>4 DEF StrictSubsetOrdering
  <2> QED BY <1>3, <2>2
<1>6. \A y \in S : x \in Nat /\ y \in Nat /\ ~(x < y)
  BY <1>5
<1> QED BY <1>6

(* Largest is what its name says, of numbers that have a bound.            *)
LEMMA LargestIsMax ==
  ASSUME NEW S \in SUBSET Nat, NEW n \in Nat, \A x \in S : x <= n
  PROVE  /\ Largest(S) \in Nat /\ Largest(S) <= n
         /\ \A x \in S : x <= Largest(S)
         /\ S # {} => Largest(S) \in S
         /\ S = {} => Largest(S) = 0
<1>1. CASE S = {}
  BY <1>1 DEF Largest
<1>2. CASE S # {}
  <2>1. \E x \in S : \A y \in S : y <= x
    BY <1>2, BoundedHasMax
  <2>2. Largest(S) \in S /\ \A y \in S : y <= Largest(S)
    BY <1>2, <2>1 DEF Largest
  <2> QED BY <1>2, <2>2
<1> QED BY <1>1, <1>2

(* And one that is known to be the largest is Largest.                     *)
LEMMA LargestUnique ==
  ASSUME NEW S \in SUBSET Nat, NEW x \in S, \A y \in S : y <= x
  PROVE  Largest(S) = x
BY LargestIsMax

(* --- the escalation chain -------------------------------------------------- *)

EscEvent == [type : EscType, to : 0..3, at : Nat]
Failure == Do("REVIEW_FAILED", 0)
MonitorPlans ==
  {<<>>, <<Failure>>, <<Do("REWRITTEN", 0)>>, <<Do("ESCALATED", 3)>>}
  \cup {<<Do("ESCALATED", t), Failure>> : t \in 0..3}

EscTypeOK ==
  /\ escLog \in Seq(EscEvent) /\ clock \in Nat /\ resetAt \in Nat
  /\ resetAt <= clock /\ \A i \in DOMAIN escLog : escLog[i].at <= clock
  /\ monitorDo \in MonitorPlans /\ deciding \in BOOLEAN
  /\ staleDo \in BOOLEAN /\ apart \in BOOLEAN
  /\ tierColumn \in 0..3

(* What the monitor is about to append was right when it was decided, and   *)
(* is right still unless a reset was appended since.                        *)
DecisionStands ==
  monitorDo # <<>> /\ monitorDo[1].type = "ESCALATED" /\ ~staleDo =>
    \/ /\ monitorDo[1].to = CurrentTier + 1
       /\ RetryCount >= TierLimit[CurrentTier] \/ CurrentTier = 2
    \/ CurrentTier = 2 /\ monitorDo[1].to < 2

(* A reset that is on its way will clear every escalation there is, unless  *)
(* the monitor has appended since it was stamped.                           *)
ResetWillClear ==
  resetAt > 0 /\ ~apart => \A i \in Stamped("ESCALATED") : escLog[i].at < resetAt

EscInv == EscTypeOK /\ DecisionStands /\ ResetWillClear /\ TierColumnAgrees

LEMMA EscInitially == EscInit => EscInv
<1> SUFFICES ASSUME EscInit PROVE EscInv
  OBVIOUS
<1>1. EscTypeOK
  <2>1. escLog \in Seq(EscEvent) /\ DOMAIN escLog = {}
    BY DEF EscInit
  <2>2. monitorDo \in MonitorPlans
    BY DEF EscInit, MonitorPlans
  <2>3. \A i \in DOMAIN escLog : escLog[i].at <= clock
    BY <2>1
  <2>4. deciding \in BOOLEAN /\ staleDo \in BOOLEAN /\ apart \in BOOLEAN
    BY DEF EscInit
  <2>5. clock = 0 /\ resetAt = 0 /\ tierColumn = 0
    BY DEF EscInit
  <2> QED BY <2>1, <2>2, <2>3, <2>4, <2>5 DEF EscTypeOK
<1>2. Stamped("ESCALATED") = {}
  BY DEF EscInit, Stamped
<1>3. CurrentTier = 0
  BY <1>2 DEF CurrentTier, Largest
<1> QED BY <1>1, <1>2, <1>3 DEF EscInv, EscInit, DecisionStands, ResetWillClear, TierColumnAgrees

(* What the readers look at.                                                *)
Rungs == {escLog[i].to : i \in {j \in Stamped("ESCALATED") : escLog[j].at > LatestReset}}
Counted == {i \in Stamped("REVIEW_FAILED") : escLog[i].at > LastEscalation}

LEMMA ReadersRead ==
  ASSUME EscTypeOK
  PROVE  /\ Stamps("RESET") \in SUBSET Nat /\ \A x \in Stamps("RESET") : x <= clock
         /\ Stamps("ESCALATED") \in SUBSET Nat /\ \A x \in Stamps("ESCALATED") : x <= clock
         /\ LatestReset \in Nat /\ LatestReset <= clock
         /\ \A x \in Stamps("RESET") : x <= LatestReset
         /\ Stamps("RESET") # {} => LatestReset \in Stamps("RESET")
         /\ Stamps("RESET") = {} => LatestReset = 0
         /\ Rungs \in SUBSET (0..3)
         /\ CurrentTier \in 0..3 /\ \A x \in Rungs : x <= CurrentTier
         /\ Rungs # {} => CurrentTier \in Rungs
         /\ Rungs = {} => CurrentTier = 0
         /\ LastEscalation \in Nat /\ LastEscalation <= clock
         /\ LatestReset <= LastEscalation
         /\ \A x \in Stamps("ESCALATED") : x <= LastEscalation
         /\ IsFiniteSet(Counted) /\ Counted \subseteq 1..Len(escLog)
         /\ RetryCount = Cardinality(Counted) /\ RetryCount \in Nat
<1>0. \A i \in DOMAIN escLog : escLog[i] \in EscEvent /\ escLog[i].at \in Nat /\ escLog[i].to \in 0..3
  <2>1. \A i \in DOMAIN escLog : escLog[i] \in EscEvent
    BY DEF EscTypeOK
  <2> QED BY <2>1 DEF EscEvent
<1>1. \A T : Stamps(T) \in SUBSET Nat /\ \A x \in Stamps(T) : x <= clock
  BY <1>0 DEF EscTypeOK, Stamps, Stamped
<1>2. /\ LatestReset \in Nat /\ LatestReset <= clock
      /\ \A x \in Stamps("RESET") : x <= LatestReset
      /\ Stamps("RESET") # {} => LatestReset \in Stamps("RESET")
      /\ Stamps("RESET") = {} => LatestReset = 0
  BY <1>1, LargestIsMax DEF LatestReset, EscTypeOK
<1>3. Rungs \in SUBSET (0..3)
  BY <1>0 DEF Rungs, Stamped
<1>4. /\ CurrentTier \in 0..3 /\ \A x \in Rungs : x <= CurrentTier
      /\ Rungs # {} => CurrentTier \in Rungs
      /\ Rungs = {} => CurrentTier = 0
  <2>1. Rungs \in SUBSET Nat /\ \A x \in Rungs : x <= 3
    BY <1>3
  <2>2. CurrentTier = Largest(Rungs)
    BY DEF CurrentTier, Rungs
  <2> QED BY <2>1, <2>2, LargestIsMax
<1>5. /\ LastEscalation \in Nat /\ LastEscalation <= clock
      /\ LatestReset <= LastEscalation
      /\ \A x \in Stamps("ESCALATED") : x <= LastEscalation
  <2> DEFINE S == {LatestReset} \cup Stamps("ESCALATED")
  <2>1. S \in SUBSET Nat /\ \A x \in S : x <= clock
    BY <1>1, <1>2
  <2>2. LastEscalation = Largest(S)
    BY DEF LastEscalation
  <2>3. LatestReset \in S /\ Stamps("ESCALATED") \subseteq S
    OBVIOUS
  <2> HIDE DEF S
  <2> QED BY <2>1, <2>2, <2>3, LargestIsMax DEF EscTypeOK
<1>6. IsFiniteSet(Counted) /\ Counted \subseteq 1..Len(escLog)
  <2>1. Len(escLog) \in Nat /\ DOMAIN escLog = 1..Len(escLog)
    BY DEF EscTypeOK
  <2>2. IsFiniteSet(1..Len(escLog))
    BY <2>1, FS_Interval
  <2>3. Counted \in SUBSET (1..Len(escLog))
    BY <2>1 DEF Counted, Stamped
  <2> QED BY <2>2, <2>3, FS_Subset
<1>7. RetryCount = Cardinality(Counted) /\ RetryCount \in Nat
  BY <1>6, FS_CardinalityType DEF RetryCount, Counted
<1> QED BY <1>1, <1>2, <1>3, <1>4, <1>5, <1>6, <1>7

(* --- what an append does to the readers ------------------------------------- *)

(* The log with one more event at its end.                                  *)
New == Len(escLog) + 1
LogGrows(d, a) ==
  /\ escLog' \in Seq(EscEvent) /\ DOMAIN escLog' = DOMAIN escLog \cup {New}
  /\ New \notin DOMAIN escLog
  /\ \A i \in DOMAIN escLog : escLog'[i] = escLog[i]
  /\ escLog'[New].type = d.type /\ escLog'[New].to = d.to /\ escLog'[New].at = a

LEMMA LogAfter ==
  ASSUME EscTypeOK, NEW d \in [type : EscType, to : 0..3], NEW a \in Nat, AppendStamped(d, a)
  PROVE  LogGrows(d, a)
<1>1. [type |-> d.type, to |-> d.to, at |-> a] \in EscEvent
  BY DEF EscEvent
<1>2. escLog' = Append(escLog, [type |-> d.type, to |-> d.to, at |-> a])
  BY Zenon DEF AppendStamped
<1>3. escLog \in Seq(EscEvent)
  BY DEF EscTypeOK
<1> QED BY <1>1, <1>2, <1>3 DEF LogGrows, New

LEMMA StampedAfter ==
  ASSUME EscTypeOK, NEW d \in [type : EscType, to : 0..3], NEW a \in Nat, AppendStamped(d, a),
         NEW T
  PROVE  /\ Stamped(T)' = IF d.type = T THEN Stamped(T) \cup {New} ELSE Stamped(T)
         /\ Stamps(T)' = IF d.type = T THEN Stamps(T) \cup {a} ELSE Stamps(T)
<1>l. LogGrows(d, a)
  BY LogAfter
<1>1. Stamped(T)' = IF d.type = T THEN Stamped(T) \cup {New} ELSE Stamped(T)
  BY <1>l DEF LogGrows, Stamped
<1>2. Stamped(T) \subseteq DOMAIN escLog
  BY DEF Stamped
<1>3. Stamps(T)' = {escLog'[i].at : i \in Stamped(T)'}
  BY DEF Stamps
<1>4. {escLog'[i].at : i \in Stamped(T)} = Stamps(T)
  BY <1>2, <1>l DEF LogGrows, Stamps
<1>5. escLog'[New].at = a
  BY <1>l DEF LogGrows
<1> QED BY <1>1, <1>3, <1>4, <1>5

(* A failure, or a rewriting, moves no tier.                                *)
LEMMA TierStays ==
  ASSUME EscTypeOK, NEW d \in [type : EscType, to : 0..3], NEW a \in Nat, AppendStamped(d, a),
         d.type \notin {"RESET", "ESCALATED"}
  PROVE  /\ LatestReset' = LatestReset /\ LastEscalation' = LastEscalation
         /\ CurrentTier' = CurrentTier
<1>l. LogGrows(d, a)
  BY LogAfter
<1>1. Stamps("RESET")' = Stamps("RESET") /\ Stamps("ESCALATED")' = Stamps("ESCALATED")
      /\ Stamped("ESCALATED")' = Stamped("ESCALATED")
  BY StampedAfter
<1>2. LatestReset' = LatestReset /\ LastEscalation' = LastEscalation
  BY <1>1 DEF LatestReset, LastEscalation
<1>3. Rungs' = Rungs
  BY <1>1, <1>2, <1>l DEF LogGrows, Rungs, Stamped
<1> QED BY <1>2, <1>3 DEF CurrentTier, Rungs

(* A failure that is stamped now is counted.                                *)
LEMMA FailureCounts ==
  ASSUME EscTypeOK, NEW a \in Nat, AppendStamped(Failure, a), a > clock
  PROVE  CurrentTier' = CurrentTier /\ RetryCount' = RetryCount + 1
<1>0. Failure \in [type : EscType, to : 0..3] /\ Failure.type = "REVIEW_FAILED"
  BY DEF Failure, Do, EscType
<1>l. LogGrows(Failure, a)
  BY <1>0, LogAfter
<1>1. /\ LastEscalation' = LastEscalation /\ CurrentTier' = CurrentTier
  BY <1>0, TierStays
<1>2. Stamped("REVIEW_FAILED")' = Stamped("REVIEW_FAILED") \cup {New}
  BY <1>0, StampedAfter
<1>3. a > LastEscalation
  BY ReadersRead DEF EscTypeOK
<1>4. Counted' = Counted \cup {New}
  BY <1>0, <1>1, <1>2, <1>3, <1>l DEF LogGrows, Counted, Stamped
<1>5. New \notin Counted
  BY <1>0, <1>l DEF LogGrows, Counted, Stamped
<1>6. Cardinality(Counted') = Cardinality(Counted) + 1
  BY <1>4, <1>5, ReadersRead, FS_AddElement
<1>7. RetryCount' = Cardinality(Counted') /\ RetryCount = Cardinality(Counted)
  BY DEF RetryCount, Counted
<1> QED BY <1>1, <1>6, <1>7

(* A rewriting moves nothing in the log.                                    *)
LEMMA RewritingMovesNothing ==
  ASSUME EscTypeOK, NEW a \in Nat, AppendStamped(Do("REWRITTEN", 0), a)
  PROVE  CurrentTier' = CurrentTier /\ RetryCount' = RetryCount
<1>0. Do("REWRITTEN", 0) \in [type : EscType, to : 0..3] /\ Do("REWRITTEN", 0).type = "REWRITTEN"
  BY DEF Do, EscType
<1>l. LogGrows(Do("REWRITTEN", 0), a)
  BY <1>0, LogAfter
<1>1. LastEscalation' = LastEscalation /\ CurrentTier' = CurrentTier
  BY <1>0, TierStays
<1>2. Counted' = Counted
  BY <1>0, <1>1, StampedAfter, <1>l DEF LogGrows, Counted, Stamped
<1> QED BY <1>1, <1>2 DEF RetryCount, Counted

(* An escalation that is stamped now moves the tier up, if at all, and      *)
(* leaves no failure to count.                                              *)
LEMMA EscalationClimbs ==
  ASSUME EscTypeOK, NEW t \in 0..3, NEW a \in Nat, AppendStamped(Do("ESCALATED", t), a), a > clock
  PROVE  /\ CurrentTier' = IF t > CurrentTier THEN t ELSE CurrentTier
         /\ RetryCount' = 0
<1>0. Do("ESCALATED", t) \in [type : EscType, to : 0..3] /\ Do("ESCALATED", t).type = "ESCALATED"
      /\ Do("ESCALATED", t).to = t
  BY DEF Do, EscType
<1>l. LogGrows(Do("ESCALATED", t), a)
  BY <1>0, LogAfter
<1>1. /\ Stamped("ESCALATED")' = Stamped("ESCALATED") \cup {New}
      /\ Stamps("ESCALATED")' = Stamps("ESCALATED") \cup {a}
      /\ Stamps("RESET")' = Stamps("RESET")
      /\ Stamped("REVIEW_FAILED")' = Stamped("REVIEW_FAILED")
  BY <1>0, StampedAfter
<1>2. LatestReset' = LatestReset
  BY <1>1 DEF LatestReset
<1>3. Rungs' = Rungs \cup {t}
  <2>1. a > LatestReset
    BY ReadersRead DEF EscTypeOK
  <2>2. Stamped("ESCALATED") \subseteq DOMAIN escLog
    BY DEF Stamped
  <2>3. {j \in Stamped("ESCALATED")' : escLog'[j].at > LatestReset}
          = {j \in Stamped("ESCALATED") : escLog[j].at > LatestReset} \cup {New}
    BY <1>0, <1>1, <2>1, <2>2, <1>l DEF LogGrows
  <2>4. Rungs' = {escLog'[i].to : i \in {j \in Stamped("ESCALATED")' : escLog'[j].at > LatestReset}}
    BY <1>2 DEF Rungs
  <2> DEFINE J == {j \in Stamped("ESCALATED") : escLog[j].at > LatestReset}
  <2>5. \A i \in J : escLog'[i] = escLog[i]
    BY <2>2, <1>l DEF LogGrows
  <2>6. Rungs' = {escLog'[i].to : i \in J \cup {New}} /\ escLog'[New].to = t
    BY <1>0, <2>3, <2>4, <1>l DEF LogGrows
  <2>7. Rungs = {escLog[i].to : i \in J}
    BY DEF Rungs
  <2> HIDE DEF J
  <2> QED BY <2>5, <2>6, <2>7
<1>4. CurrentTier' = Largest(Rungs \cup {t})
  BY <1>3 DEF CurrentTier, Rungs
<1>5. CurrentTier' = IF t > CurrentTier THEN t ELSE CurrentTier
  <2>1. /\ Rungs \cup {t} \in SUBSET Nat /\ \A x \in Rungs : x \in Nat
        /\ CurrentTier \in Nat
        /\ \A x \in Rungs : x <= CurrentTier
        /\ Rungs # {} => CurrentTier \in Rungs
        /\ Rungs = {} => CurrentTier = 0
    BY ReadersRead
  <2>2. CASE t > CurrentTier
    <3>1. \A y \in Rungs \cup {t} : y <= t
      BY <2>1, <2>2
    <3> QED BY <1>4, <2>1, <2>2, <3>1, LargestUnique
  <2>3. CASE ~(t > CurrentTier)
    <3>1. \A y \in Rungs \cup {t} : y <= CurrentTier
      BY <2>1, <2>3
    <3>2. CurrentTier \in Rungs \cup {t}
      BY <2>1, <2>3
    <3> QED BY <1>4, <2>1, <2>3, <3>1, <3>2, LargestUnique
  <2> QED BY <2>2, <2>3
<1>6. LastEscalation' = a
  <2>1. LastEscalation' = Largest({LatestReset} \cup Stamps("ESCALATED") \cup {a})
    BY <1>1, <1>2 DEF LastEscalation
  <2> DEFINE S == {LatestReset} \cup Stamps("ESCALATED") \cup {a}
  <2>2. S \in SUBSET Nat /\ \A y \in S : y <= a
    BY ReadersRead DEF EscTypeOK
  <2>3. a \in S
    OBVIOUS
  <2> HIDE DEF S
  <2>4. Largest(S) = a
    BY <2>2, <2>3, LargestUnique
  <2> QED BY <2>1, <2>4 DEF S
<1>7. Counted' = {}
  <2>1. \A i \in Stamped("REVIEW_FAILED") : i \in DOMAIN escLog /\ escLog'[i].at <= clock
    BY <1>0, <1>l DEF LogGrows, Stamped, EscTypeOK
  <2>2. \A i \in Stamped("REVIEW_FAILED") : ~(escLog'[i].at > a)
    <3> TAKE i \in Stamped("REVIEW_FAILED")
    <3>1. escLog[i] \in EscEvent /\ escLog'[i] = escLog[i]
      BY <2>1, <1>l DEF LogGrows, EscTypeOK
    <3>2. escLog'[i].at \in Nat
      BY <3>1 DEF EscEvent
    <3> QED BY <2>1, <3>2 DEF EscTypeOK
  <2> QED BY <1>1, <1>6, <2>2 DEF Counted
<1>8. RetryCount' = Cardinality(Counted')
  BY DEF RetryCount, Counted
<1> QED BY <1>5, <1>7, <1>8, FS_EmptySet

(* A reset, whenever it was stamped, takes the tier and the count down, if  *)
(* anywhere.                                                                *)
LEMMA ResetClears ==
  ASSUME EscTypeOK, NEW a \in Nat, a <= clock, AppendStamped(Do("RESET", 0), a)
  PROVE  /\ CurrentTier' \in 0..CurrentTier /\ RetryCount' \in 0..RetryCount
         /\ (\A i \in Stamped("ESCALATED") : escLog[i].at <= a) => CurrentTier' = 0
<1>0. Do("RESET", 0) \in [type : EscType, to : 0..3] /\ Do("RESET", 0).type = "RESET"
  BY DEF Do, EscType
<1>l. LogGrows(Do("RESET", 0), a)
  BY <1>0, LogAfter
<1>1. /\ Stamped("ESCALATED")' = Stamped("ESCALATED")
      /\ Stamped("REVIEW_FAILED")' = Stamped("REVIEW_FAILED")
      /\ Stamps("ESCALATED")' = Stamps("ESCALATED")
      /\ Stamps("RESET")' = Stamps("RESET") \cup {a}
  BY <1>0, StampedAfter
<1>2. LatestReset' \in Nat /\ LatestReset <= LatestReset' /\ a <= LatestReset'
  <2> DEFINE S == Stamps("RESET") \cup {a}
  <2>1. S \in SUBSET Nat /\ \A x \in S : x <= clock
    BY ReadersRead
  <2>2. LatestReset' = Largest(S)
    BY <1>1 DEF LatestReset
  <2>3. a \in S /\ Stamps("RESET") \subseteq S
    OBVIOUS
  <2> HIDE DEF S
  <2>4. LatestReset' \in Nat /\ \A x \in S : x <= LatestReset'
    BY <2>1, <2>2, LargestIsMax DEF EscTypeOK
  <2> QED BY <2>3, <2>4, ReadersRead
<1>3. LastEscalation' \in Nat /\ LastEscalation <= LastEscalation'
  <2> DEFINE S == {LatestReset} \cup Stamps("ESCALATED")
             R == {LatestReset'} \cup Stamps("ESCALATED")
  <2>0. LatestReset' <= clock
    <3>1. Stamps("RESET") \cup {a} \in SUBSET Nat /\ \A x \in Stamps("RESET") \cup {a} : x <= clock
      BY ReadersRead
    <3>2. LatestReset' = Largest(Stamps("RESET") \cup {a})
      BY <1>1 DEF LatestReset
    <3> QED BY <3>1, <3>2, LargestIsMax DEF EscTypeOK
  <2>1. S \in SUBSET Nat /\ R \in SUBSET Nat /\ \A x \in R : x <= clock
    BY <1>2, <2>0, ReadersRead
  <2>2. LastEscalation' = Largest(R)
    BY <1>1 DEF LastEscalation
  <2>3. LastEscalation = Largest(S) /\ LastEscalation \in S
    <3>1. LastEscalation = Largest(S)
      BY DEF LastEscalation
    <3>2. \A x \in S : x <= clock
      BY ReadersRead
    <3>3. S # {}
      OBVIOUS
    <3> HIDE DEF S
    <3> QED BY <3>1, <3>2, <3>3, <2>1, LargestIsMax DEF EscTypeOK
  <2>4. LastEscalation = LatestReset \/ LastEscalation \in R
    BY <2>3
  <2>5. LatestReset' \in R
    OBVIOUS
  <2> HIDE DEF S, R
  <2>6. LastEscalation' \in Nat /\ \A x \in R : x <= LastEscalation'
    BY <2>1, <2>2, LargestIsMax DEF EscTypeOK
  <2> QED BY <1>2, <2>4, <2>5, <2>6, ReadersRead
<1>4. Rungs' \subseteq Rungs
  <2>1. \A i \in Stamped("ESCALATED") :
          escLog'[i] = escLog[i] /\ (escLog[i].at > LatestReset' => escLog[i].at > LatestReset)
    <3> TAKE i \in Stamped("ESCALATED")
    <3>1. escLog[i] \in EscEvent /\ escLog'[i] = escLog[i]
      BY <1>l DEF LogGrows, Stamped, EscTypeOK
    <3>2. escLog[i].at \in Nat
      BY <3>1 DEF EscEvent
    <3> QED BY <1>2, <3>1, <3>2, ReadersRead
  <2>2. Rungs' = {escLog'[i].to : i \in {j \in Stamped("ESCALATED") : escLog'[j].at > LatestReset'}}
    BY <1>1 DEF Rungs
  <2> QED BY <2>1, <2>2 DEF Rungs
<1>5. CurrentTier' = Largest(Rungs')
  BY DEF CurrentTier, Rungs
<1>6. CurrentTier' \in 0..CurrentTier
  <2>1. Rungs' \in SUBSET Nat /\ (\A x \in Rungs' : x <= CurrentTier) /\ CurrentTier \in Nat
    BY <1>4, ReadersRead
  <2> QED BY <1>5, <2>1, LargestIsMax
<1>7. Counted' \subseteq Counted
  <2>1. \A i \in Stamped("REVIEW_FAILED") :
          escLog'[i] = escLog[i] /\ (escLog[i].at > LastEscalation' => escLog[i].at > LastEscalation)
    <3> TAKE i \in Stamped("REVIEW_FAILED")
    <3>1. escLog[i] \in EscEvent /\ escLog'[i] = escLog[i]
      BY <1>l DEF LogGrows, Stamped, EscTypeOK
    <3>2. escLog[i].at \in Nat
      BY <3>1 DEF EscEvent
    <3> QED BY <1>3, <3>1, <3>2, ReadersRead
  <2> QED BY <1>1, <2>1 DEF Counted
<1>8. RetryCount' \in 0..RetryCount
  <2>1. IsFiniteSet(Counted') /\ Cardinality(Counted') <= Cardinality(Counted)
    BY <1>7, ReadersRead, FS_Subset
  <2>2. Cardinality(Counted') \in Nat
    BY <2>1, FS_CardinalityType
  <2>3. RetryCount' = Cardinality(Counted')
    BY DEF RetryCount, Counted
  <2> QED BY <2>1, <2>2, <2>3, ReadersRead
<1>9. ASSUME \A i \in Stamped("ESCALATED") : escLog[i].at <= a
      PROVE  CurrentTier' = 0
  <2>1. \A i \in Stamped("ESCALATED") : ~(escLog'[i].at > LatestReset')
    <3> TAKE i \in Stamped("ESCALATED")
    <3>1. escLog[i] \in EscEvent /\ escLog'[i] = escLog[i]
      BY <1>l DEF LogGrows, Stamped, EscTypeOK
    <3>2. escLog[i].at \in Nat
      BY <3>1 DEF EscEvent
    <3> QED BY <1>2, <1>9, <3>1, <3>2
  <2>2. Rungs' = {}
    BY <1>1, <2>1 DEF Rungs
  <2> QED BY <1>5, <2>2 DEF Largest
<1> QED BY <1>6, <1>8, <1>9

(* --- every step keeps the invariant and climbs the ladder -------------------- *)

LEMMA ColumnAfter ==
  ASSUME NEW d \in [type : EscType, to : 0..3], NEW a, AppendStamped(d, a)
  PROVE  tierColumn' = IF d.type = "ESCALATED" THEN d.to
                       ELSE IF d.type \in {"RESET", "REWRITTEN"} THEN 0 ELSE tierColumn
BY Zenon DEF AppendStamped

LEMMA TypeAfter ==
  ASSUME EscTypeOK, NEW d \in [type : EscType, to : 0..3], NEW a \in Nat, AppendStamped(d, a),
         clock' \in Nat, clock <= clock', a <= clock'
  PROVE  /\ escLog' \in Seq(EscEvent) /\ \A i \in DOMAIN escLog' : escLog'[i].at <= clock'
         /\ tierColumn' \in 0..3
<1>1. LogGrows(d, a)
  BY LogAfter
<1>2. \A i \in DOMAIN escLog : escLog'[i].at <= clock'
  <2> TAKE i \in DOMAIN escLog
  <2>1. escLog[i] \in EscEvent /\ escLog[i].at <= clock /\ escLog'[i] = escLog[i]
    BY <1>1 DEF LogGrows, EscTypeOK
  <2>2. escLog[i].at \in Nat
    BY <2>1 DEF EscEvent
  <2> QED BY <2>1, <2>2 DEF EscTypeOK
<1>3. tierColumn' \in 0..3
  BY ColumnAfter DEF EscTypeOK
<1> QED BY <1>1, <1>2, <1>3 DEF LogGrows

LEMMA ReadersFrame ==
  ASSUME escLog' = escLog
  PROVE  /\ CurrentTier' = CurrentTier /\ RetryCount' = RetryCount
         /\ \A T : Stamped(T)' = Stamped(T)
BY DEF CurrentTier, RetryCount, Stamped, LatestReset, LastEscalation, Stamps

(* A step of the promise, or none.                                          *)
LadderStep == Ladder!LadderNext \/ UNCHANGED <<CurrentTier, RetryCount>>

LEMMA FailsStep ==
  ASSUME EscInv, NEW own \in BOOLEAN, StoryFails(own)
  PROVE  EscInv' /\ LadderStep
<1>0. EscTypeOK /\ monitorDo = <<>> /\ UNCHANGED <<monitorDo, staleDo, resetAt, apart>>
      /\ deciding' = TRUE
  BY DEF StoryFails, EscInv, Quiet
<1>1. CASE own
  <2>1. clock' = clock + 1 /\ AppendStamped(Failure, clock + 1)
    BY <1>1 DEF StoryFails, Failure
  <2>2. clock + 1 \in Nat /\ clock + 1 > clock /\ clock <= clock'
    BY <1>0, <2>1 DEF EscTypeOK
  <2>3. Failure \in [type : EscType, to : 0..3] /\ Failure.type = "REVIEW_FAILED"
    BY DEF Failure, Do, EscType
  <2>4. CurrentTier' = CurrentTier /\ RetryCount' = RetryCount + 1
    BY <1>0, <2>1, <2>2, FailureCounts
  <2>5. tierColumn' = tierColumn
    BY <2>1, <2>3, ColumnAfter
  <2>6. escLog' \in Seq(EscEvent) /\ \A i \in DOMAIN escLog' : escLog'[i].at <= clock'
    BY <1>0, <2>1, <2>2, <2>3, TypeAfter
  <2>7. EscTypeOK'
    BY <1>0, <2>1, <2>2, <2>5, <2>6 DEF EscTypeOK
  <2>8. ResetWillClear'
    <3>1. Stamped("ESCALATED")' = Stamped("ESCALATED") /\ LogGrows(Failure, clock + 1)
      BY <1>0, <2>1, <2>2, <2>3, StampedAfter, LogAfter
    <3> QED BY <1>0, <3>1 DEF EscInv, ResetWillClear, LogGrows, Stamped
  <2>9. EscInv'
    BY <1>0, <2>4, <2>5, <2>7, <2>8 DEF EscInv, DecisionStands, TierColumnAgrees
  <2> QED BY <2>4, <2>9 DEF LadderStep, Ladder!LadderNext, Ladder!CountFailure
<1>2. CASE ~own
  <2>1. UNCHANGED <<escLog, clock, tierColumn>>
    BY <1>2 DEF StoryFails
  <2>2. EscTypeOK'
    BY <1>0, <2>1 DEF EscTypeOK
  <2> QED BY <1>0, <2>1, <2>2, ReadersFrame
          DEF EscInv, DecisionStands, TierColumnAgrees, ResetWillClear, LadderStep
<1> QED BY <1>1, <1>2

(* A decision is right at the moment it is made.                            *)
LEMMA DecideStep ==
  ASSUME EscInv, DecideReset
  PROVE  EscInv' /\ LadderStep
<1>0. EscTypeOK /\ UNCHANGED <<escLog, clock, staleDo, resetAt, tierColumn, apart>>
      /\ deciding' = FALSE
  BY DEF DecideReset, EscInv
<1>1. /\ CurrentTier' = CurrentTier /\ RetryCount' = RetryCount
      /\ \A T : Stamped(T)' = Stamped(T)
  BY <1>0, ReadersFrame
<1>2. CurrentTier \in 0..3
  BY <1>0, ReadersRead
<1>3. CASE ShouldEscalate /\ CurrentTier >= 3
  <2>1. monitorDo' = <<>>
    <3>1. ~(CurrentTier < 3)
      BY <1>2, <1>3
    <3> QED BY <1>3, <3>1, Zenon DEF DecideReset
  <2>2. monitorDo' \in MonitorPlans
    BY <2>1 DEF MonitorPlans
  <2> QED BY <1>0, <1>1, <2>1, <2>2
          DEF EscInv, EscTypeOK, DecisionStands, TierColumnAgrees, ResetWillClear, LadderStep
<1>4. CASE ShouldEscalate /\ CurrentTier < 3
  <2>1. monitorDo' = <<Do("ESCALATED", CurrentTier + 1), Failure>>
    <3>1. ~(CurrentTier >= 3)
      BY <1>2, <1>4
    <3> QED BY <1>4, <3>1, Zenon DEF DecideReset, Failure
  <2>2. monitorDo' \in MonitorPlans
    BY <1>2, <1>4, <2>1 DEF MonitorPlans
  <2>3. DecisionStands'
    BY <1>1, <1>4, <2>1 DEF DecisionStands, ShouldEscalate, Do
  <2> QED BY <1>0, <1>1, <2>2, <2>3
          DEF EscInv, EscTypeOK, TierColumnAgrees, ResetWillClear, LadderStep
<1>5. CASE ~ShouldEscalate
  <2>1. monitorDo' = <<Failure>>
    BY <1>5, Zenon DEF DecideReset, Failure
  <2>2. monitorDo' \in MonitorPlans
    BY <2>1 DEF MonitorPlans
  <2>3. DecisionStands'
    BY <2>1 DEF DecisionStands, Failure, Do
  <2> QED BY <1>0, <1>1, <2>2, <2>3
          DEF EscInv, EscTypeOK, TierColumnAgrees, ResetWillClear, LadderStep
<1> QED BY <1>2, <1>3, <1>4, <1>5

LEMMA ManagerStep ==
  ASSUME EscInv, ManagerDecides
  PROVE  EscInv' /\ LadderStep
<1>0. EscTypeOK /\ UNCHANGED <<escLog, clock, deciding, staleDo, resetAt, tierColumn, apart>>
      /\ CurrentTier = 2
  BY DEF ManagerDecides, EscInv
<1>1. /\ CurrentTier' = CurrentTier /\ RetryCount' = RetryCount
      /\ \A T : Stamped(T)' = Stamped(T)
  BY <1>0, ReadersFrame
<1>2. monitorDo' \in MonitorPlans /\ DecisionStands'
  <2>1. CASE \E t \in 0..1 : monitorDo' = <<Do("ESCALATED", t), Failure>>
    BY <1>0, <1>1, <2>1 DEF MonitorPlans, DecisionStands, Do
  <2>2. CASE monitorDo' = <<Do("REWRITTEN", 0)>>
    BY <2>2 DEF MonitorPlans, DecisionStands, Do
  <2>3. CASE monitorDo' = <<Do("ESCALATED", 3)>>
    BY <1>0, <1>1, <2>3 DEF MonitorPlans, DecisionStands, Do
  <2> QED BY <2>1, <2>2, <2>3 DEF ManagerDecides, Failure
<1> QED BY <1>0, <1>1, <1>2
        DEF EscInv, EscTypeOK, TierColumnAgrees, ResetWillClear, LadderStep

(* What the monitor appends is one rung up, a retry by the manager, or the  *)
(* rest of a decision a reset has overtaken.                                *)
LEMMA MonitorEscalates ==
  ASSUME EscInv, MonitorAppends, NEW t \in 0..3,
         monitorDo \in {<<Do("ESCALATED", t)>>, <<Do("ESCALATED", t), Failure>>}
  PROVE  EscInv' /\ LadderStep
<1>0. /\ EscTypeOK /\ UNCHANGED <<deciding, resetAt>>
      /\ monitorDo[1] = Do("ESCALATED", t) /\ monitorDo # <<>>
      /\ monitorDo' \in {<<>>, <<Failure>>} /\ Head(monitorDo) = Do("ESCALATED", t)
  <2>1. EscTypeOK /\ UNCHANGED <<deciding, resetAt>> /\ monitorDo' = Tail(monitorDo)
    BY DEF MonitorAppends, EscInv
  <2>2. CASE monitorDo = <<Do("ESCALATED", t)>>
    BY <2>1, <2>2
  <2>3. CASE monitorDo = <<Do("ESCALATED", t), Failure>>
    BY <2>1, <2>3
  <2> QED BY <2>2, <2>3
<1>1. clock' = clock + 1 /\ AppendStamped(Do("ESCALATED", t), clock + 1)
  BY <1>0 DEF MonitorAppends
<1>2. clock + 1 \in Nat /\ clock + 1 > clock /\ clock <= clock'
  BY <1>0, <1>1 DEF EscTypeOK
<1>3. /\ Do("ESCALATED", t) \in [type : EscType, to : 0..3]
      /\ Do("ESCALATED", t).type = "ESCALATED" /\ Do("ESCALATED", t).to = t
  BY DEF Do, EscType
<1>4. CurrentTier' = (IF t > CurrentTier THEN t ELSE CurrentTier) /\ RetryCount' = 0
  BY <1>0, <1>1, <1>2, EscalationClimbs
<1>5. tierColumn' = t
  BY <1>1, <1>3, ColumnAfter
<1>6. CurrentTier \in 0..3 /\ RetryCount \in Nat
  BY <1>0, ReadersRead
<1>7. staleDo' \in BOOLEAN /\ apart' \in BOOLEAN
      /\ (~apart' => ~apart /\ ~(resetAt > 0) /\ ~(t < CurrentTier))
  <2>1. staleDo' = (staleDo /\ Tail(monitorDo) # <<>>)
    BY DEF MonitorAppends
  <2>2. apart' = \/ apart \/ resetAt > 0 \/ Head(monitorDo).type = "REWRITTEN"
                 \/ Head(monitorDo).type = "ESCALATED" /\ Head(monitorDo).to < CurrentTier
    BY DEF MonitorAppends
  <2> QED BY <1>0, <1>3, <2>1, <2>2
<1>8. escLog' \in Seq(EscEvent) /\ \A i \in DOMAIN escLog' : escLog'[i].at <= clock'
  BY <1>0, <1>1, <1>2, <1>3, TypeAfter
<1>9. EscTypeOK'
  <2>1. monitorDo' \in MonitorPlans
    BY <1>0 DEF MonitorPlans
  <2> QED BY <1>0, <1>1, <1>2, <1>5, <1>7, <1>8, <2>1 DEF EscTypeOK
<1>10. DecisionStands'
  BY <1>0 DEF DecisionStands, Failure, Do
<1>11. ResetWillClear' /\ TierColumnAgrees'
  BY <1>0, <1>4, <1>5, <1>6, <1>7 DEF ResetWillClear, TierColumnAgrees
<1>12. LadderStep
  <2>1. CASE staleDo
    <3>1. CurrentTier' \in CurrentTier..3
      BY <1>4, <1>6
    <3> QED BY <1>4, <2>1, <3>1 DEF LadderStep, Ladder!LadderNext, Ladder!ClimbStale
  <2>2. CASE ~staleDo
    <3>1. \/ /\ t = CurrentTier + 1
             /\ RetryCount >= TierLimit[CurrentTier] \/ CurrentTier = 2
          \/ CurrentTier = 2 /\ t < 2
      BY <1>0, <1>3, <2>2 DEF EscInv, DecisionStands
    <3>2. CASE /\ t = CurrentTier + 1
               /\ RetryCount >= TierLimit[CurrentTier] \/ CurrentTier = 2
      <4>1. CurrentTier < 3 /\ CurrentTier' = CurrentTier + 1
        BY <1>4, <1>6, <3>2
      <4> QED BY <1>4, <3>2, <4>1 DEF LadderStep, Ladder!LadderNext, Ladder!Climb
    <3>3. CASE CurrentTier = 2 /\ t < 2
      <4>1. CurrentTier' = CurrentTier
        BY <1>4, <3>3
      <4> QED BY <1>4, <3>3, <4>1 DEF LadderStep, Ladder!LadderNext, Ladder!ManagerRetries
    <3> QED BY <3>1, <3>2, <3>3
  <2> QED BY <2>1, <2>2, <1>0 DEF EscTypeOK
<1> QED BY <1>9, <1>10, <1>11, <1>12 DEF EscInv

LEMMA MonitorFails ==
  ASSUME EscInv, MonitorAppends, monitorDo = <<Failure>>
  PROVE  EscInv' /\ LadderStep
<1>0. EscTypeOK /\ UNCHANGED <<deciding, resetAt>> /\ Head(monitorDo) = Failure
      /\ Tail(monitorDo) = <<>> /\ monitorDo' = <<>>
  BY DEF MonitorAppends, EscInv
<1>1. clock' = clock + 1 /\ AppendStamped(Failure, clock + 1)
  BY <1>0 DEF MonitorAppends
<1>2. clock + 1 \in Nat /\ clock + 1 > clock /\ clock <= clock'
  BY <1>0, <1>1 DEF EscTypeOK
<1>3. Failure \in [type : EscType, to : 0..3] /\ Failure.type = "REVIEW_FAILED"
  BY DEF Failure, Do, EscType
<1>4. CurrentTier' = CurrentTier /\ RetryCount' = RetryCount + 1
  BY <1>0, <1>1, <1>2, FailureCounts
<1>5. tierColumn' = tierColumn
  BY <1>1, <1>3, ColumnAfter
<1>6. escLog' \in Seq(EscEvent) /\ \A i \in DOMAIN escLog' : escLog'[i].at <= clock'
  BY <1>0, <1>1, <1>2, <1>3, TypeAfter
<1>7. staleDo' = FALSE /\ apart' \in BOOLEAN /\ (~apart' => ~apart /\ ~(resetAt > 0))
  <2>1. staleDo' = (staleDo /\ Tail(monitorDo) # <<>>)
    BY DEF MonitorAppends
  <2>2. apart' = \/ apart \/ resetAt > 0 \/ Head(monitorDo).type = "REWRITTEN"
                 \/ Head(monitorDo).type = "ESCALATED" /\ Head(monitorDo).to < CurrentTier
    BY DEF MonitorAppends
  <2> QED BY <1>0, <2>1, <2>2
<1>8. EscTypeOK'
  <2>1. monitorDo' \in MonitorPlans /\ staleDo' \in BOOLEAN
    BY <1>0, <1>7 DEF MonitorPlans
  <2> QED BY <1>0, <1>1, <1>2, <1>5, <1>6, <1>7, <2>1 DEF EscTypeOK
<1>9. EscInv'
  BY <1>0, <1>4, <1>5, <1>7, <1>8
  DEF EscInv, DecisionStands, ResetWillClear, TierColumnAgrees
<1> QED BY <1>4, <1>9 DEF LadderStep, Ladder!LadderNext, Ladder!CountFailure

LEMMA MonitorRewrites ==
  ASSUME EscInv, MonitorAppends, monitorDo = <<Do("REWRITTEN", 0)>>
  PROVE  EscInv' /\ LadderStep
<1>0. /\ EscTypeOK /\ UNCHANGED <<deciding, resetAt>> /\ Head(monitorDo) = Do("REWRITTEN", 0)
      /\ Tail(monitorDo) = <<>> /\ monitorDo' = <<>>
  BY DEF MonitorAppends, EscInv
<1>1. clock' = clock + 1 /\ AppendStamped(Do("REWRITTEN", 0), clock + 1)
  BY <1>0 DEF MonitorAppends
<1>2. clock + 1 \in Nat /\ clock + 1 > clock /\ clock <= clock'
  BY <1>0, <1>1 DEF EscTypeOK
<1>3. /\ Do("REWRITTEN", 0) \in [type : EscType, to : 0..3]
      /\ Do("REWRITTEN", 0).type = "REWRITTEN"
  BY DEF Do, EscType
<1>4. CurrentTier' = CurrentTier /\ RetryCount' = RetryCount
  BY <1>0, <1>1, <1>2, RewritingMovesNothing
<1>5. /\ escLog' \in Seq(EscEvent) /\ \A i \in DOMAIN escLog' : escLog'[i].at <= clock'
      /\ tierColumn' \in 0..3
  BY <1>0, <1>1, <1>2, <1>3, TypeAfter
<1>6. staleDo' \in BOOLEAN /\ apart' = TRUE
  <2>1. staleDo' = (staleDo /\ Tail(monitorDo) # <<>>)
    BY DEF MonitorAppends
  <2>2. apart' = \/ apart \/ resetAt > 0 \/ Head(monitorDo).type = "REWRITTEN"
                 \/ Head(monitorDo).type = "ESCALATED" /\ Head(monitorDo).to < CurrentTier
    BY DEF MonitorAppends
  <2> QED BY <1>0, <1>3, <2>1, <2>2
<1>7. EscTypeOK'
  <2>1. monitorDo' \in MonitorPlans
    BY <1>0 DEF MonitorPlans
  <2> QED BY <1>0, <1>1, <1>2, <1>5, <1>6, <2>1 DEF EscTypeOK
<1>8. EscInv'
  BY <1>0, <1>6, <1>7 DEF EscInv, DecisionStands, ResetWillClear, TierColumnAgrees
<1> QED BY <1>4, <1>8 DEF LadderStep

LEMMA MonitorStep ==
  ASSUME EscInv, MonitorAppends
  PROVE  EscInv' /\ LadderStep
<1>1. monitorDo \in MonitorPlans /\ monitorDo # <<>>
  BY DEF MonitorAppends, EscInv, EscTypeOK
<1>2. ASSUME NEW t \in 0..3, monitorDo = <<Do("ESCALATED", t), Failure>>
      PROVE  EscInv' /\ LadderStep
  BY <1>2, MonitorEscalates
<1>3. CASE monitorDo = <<Do("ESCALATED", 3)>>
  BY <1>3, MonitorEscalates
<1> QED BY <1>1, <1>2, <1>3, MonitorFails, MonitorRewrites DEF MonitorPlans

LEMMA StampStep ==
  ASSUME EscInv, StampReset
  PROVE  EscInv' /\ LadderStep
<1>0. /\ EscTypeOK /\ UNCHANGED <<escLog, monitorDo, deciding, staleDo, tierColumn, apart>>
      /\ clock' = clock + 1 /\ resetAt' = clock + 1
  BY DEF StampReset, EscInv
<1>1. /\ CurrentTier' = CurrentTier /\ RetryCount' = RetryCount
      /\ \A T : Stamped(T)' = Stamped(T)
  BY <1>0, ReadersFrame
<1>2. \A i \in DOMAIN escLog : escLog[i].at \in Nat /\ escLog[i].at <= clock
  <2> TAKE i \in DOMAIN escLog
  <2>1. escLog[i] \in EscEvent /\ escLog[i].at <= clock
    BY <1>0 DEF EscTypeOK
  <2> QED BY <2>1 DEF EscEvent
<1>3. EscTypeOK'
  BY <1>0, <1>2 DEF EscTypeOK
<1>4. ResetWillClear'
  BY <1>0, <1>1, <1>2 DEF ResetWillClear, Stamped, EscTypeOK
<1> QED BY <1>0, <1>1, <1>3, <1>4 DEF EscInv, DecisionStands, TierColumnAgrees, LadderStep

LEMMA ResetStep ==
  ASSUME EscInv, AppendReset
  PROVE  EscInv' /\ LadderStep
<1>0. /\ EscTypeOK /\ UNCHANGED <<clock, monitorDo, deciding, apart>>
      /\ resetAt > 0 /\ resetAt' = 0 /\ AppendStamped(Do("RESET", 0), resetAt)
      /\ staleDo' = (monitorDo # <<>>)
  BY DEF AppendReset, EscInv
<1>1. resetAt \in Nat /\ resetAt <= clock /\ clock' \in Nat /\ clock <= clock'
  BY <1>0 DEF EscTypeOK
<1>2. Do("RESET", 0) \in [type : EscType, to : 0..3] /\ Do("RESET", 0).type = "RESET"
  BY DEF Do, EscType
<1>3. /\ CurrentTier' \in 0..CurrentTier /\ RetryCount' \in 0..RetryCount
      /\ (\A i \in Stamped("ESCALATED") : escLog[i].at <= resetAt) => CurrentTier' = 0
  BY <1>0, <1>1, ResetClears
<1>4. tierColumn' = 0
  BY <1>0, <1>1, <1>2, ColumnAfter
<1>5. escLog' \in Seq(EscEvent) /\ \A i \in DOMAIN escLog' : escLog'[i].at <= clock'
  BY <1>0, <1>1, <1>2, TypeAfter
<1>6. EscTypeOK'
  <2>1. staleDo' \in BOOLEAN
    BY <1>0
  <2> QED BY <1>0, <1>1, <1>4, <1>5, <2>1 DEF EscTypeOK
<1>7. TierColumnAgrees'
  <2>1. ASSUME ~apart PROVE CurrentTier' = 0
    <3>1. \A i \in Stamped("ESCALATED") : escLog[i].at < resetAt
      BY <1>0, <2>1 DEF EscInv, ResetWillClear
    <3>2. \A i \in Stamped("ESCALATED") : escLog[i].at <= resetAt
      <4> TAKE i \in Stamped("ESCALATED")
      <4>1. escLog[i] \in EscEvent
        BY <1>0 DEF EscTypeOK, Stamped
      <4>2. escLog[i].at \in Nat
        BY <4>1 DEF EscEvent
      <4> QED BY <1>1, <3>1, <4>2
    <3> QED BY <1>3, <3>2
  <2> QED BY <1>0, <1>4, <2>1 DEF TierColumnAgrees
<1>8. EscInv'
  <2>1. monitorDo' # <<>> => staleDo'
    BY <1>0
  <2>2. DecisionStands'
    BY <2>1 DEF DecisionStands
  <2>3. ~(resetAt' > 0)
    BY <1>0
  <2>4. ResetWillClear'
    BY <2>3 DEF ResetWillClear
  <2> QED BY <1>6, <1>7, <2>2, <2>4 DEF EscInv
<1>9. LadderStep
  BY <1>0, <1>3 DEF LadderStep, Ladder!LadderNext, Ladder!RecordReset
<1> QED BY <1>8, <1>9

LEMMA EscStep == EscInv /\ [EscNext]_escVars => EscInv' /\ LadderStep
<1> SUFFICES ASSUME EscInv, [EscNext]_escVars PROVE EscInv' /\ LadderStep
  OBVIOUS
<1>1. CASE UNCHANGED escVars
  <2>1. /\ UNCHANGED <<escLog, clock, monitorDo, deciding, staleDo, resetAt, tierColumn, apart>>
        /\ CurrentTier' = CurrentTier /\ RetryCount' = RetryCount
        /\ \A T : Stamped(T)' = Stamped(T)
    BY <1>1, ReadersFrame DEF escVars
  <2> QED BY <2>1 DEF EscInv, EscTypeOK, DecisionStands, TierColumnAgrees, ResetWillClear, LadderStep
<1> QED BY <1>1, FailsStep, DecideStep, ManagerStep, MonitorStep, StampStep, ResetStep DEF EscNext

(* For any limits of the tiers, and any number of failures, decisions and   *)
(* human resets in any order of stamps and appends: the log read back by    *)
(* its four readers is the escalation chain of TierLadder, one rung at a    *)
(* time, but for decisions that a reset has overtaken.                      *)
THEOREM LadderClimbed == EscSpec => ClimbsTheLadder
<1>1. EscInit => Ladder!LadderInit
  <2> SUFFICES ASSUME EscInit PROVE Ladder!LadderInit
    OBVIOUS
  <2>1. \A T : Stamped(T) = {}
    BY DEF EscInit, Stamped
  <2>2. CurrentTier = 0 /\ RetryCount = 0
    BY <2>1, FS_EmptySet DEF CurrentTier, RetryCount, Largest
  <2> QED BY <2>2 DEF EscInit, Ladder!LadderInit
<1>2. EscInv /\ [EscNext]_escVars => [Ladder!LadderNext]_<<CurrentTier, RetryCount>>
  BY EscStep DEF LadderStep
<1>3. EscInv /\ [EscNext]_escVars => EscInv'
  BY EscStep
<1> QED BY <1>1, <1>2, <1>3, EscInitially, PTL DEF EscSpec, ClimbsTheLadder, Ladder!LadderSpec

(* The cached tier of a story is the tier of its log, for any number of     *)
(* events, unless the manager rewrote the story or retried it lower, or the *)
(* monitor appended while a reset was on its way.                           *)
THEOREM TierCached == EscSpec => []TierColumnAgrees
<1>1. EscInv => TierColumnAgrees
  BY DEF EscInv
<1> QED BY <1>1, EscInitially, EscStep, PTL DEF EscSpec

(* A story at tier 1 or above goes to a senior, whatever the resets of its  *)
(* log and the history of the other stories, unless it was a senior's.      *)
THEOREM SeniorKept == EscSpec => []EscalatedStaysSenior
<1>1. ASSUME EscTypeOK, CurrentTier >= 1,
             NEW static \in StaticRole \ {Senior}, NEW rates
      PROVE  RouteAdaptive(static, rates) = Senior
  <2> DEFINE H == {escLog[i].to : i \in Stamped("ESCALATED")}
  <2>1. \A i \in DOMAIN escLog : escLog[i].to \in 0..3
    <3> TAKE i \in DOMAIN escLog
    <3>1. escLog[i] \in EscEvent
      BY <1>1 DEF EscTypeOK
    <3> QED BY <3>1 DEF EscEvent
  <2>2. H \in SUBSET Nat /\ \A x \in H : x <= 3
    BY <2>1 DEF Stamped
  <2>3. CurrentTier \in Rungs
    BY <1>1, ReadersRead
  <2>4. CurrentTier \in H
    BY <1>1, <2>3, ReadersRead DEF Rungs
  <2>5. HighestTier = Largest(H)
    BY DEF HighestTier
  <2> HIDE DEF H
  <2>6. HighestTier \in Nat /\ CurrentTier <= HighestTier
    BY <2>2, <2>4, <2>5, LargestIsMax
  <2>7. CurrentTier \in 0..3
    BY <1>1, ReadersRead
  <2>8. RouteStory(static) = Senior
    BY <1>1, <2>6, <2>7 DEF RouteStory
  <2> QED BY <2>8 DEF RouteAdaptive
<1>2. EscInv => EscalatedStaysSenior
  BY <1>1 DEF EscInv, EscalatedStaysSenior
<1> QED BY <1>2, EscInitially, EscStep, PTL DEF EscSpec
(* --- the completion gate ------------------------------------------------------ *)

GateStep ==
  {"idle", "waves", "verify", "red", "fixed", "judged", "recorded"}
Found == [tree : Trees, origin : Trees, exact : BOOLEAN, red : BOOLEAN, stuck : BOOLEAN]
Checkouts == [tree : Trees, commits : {"same", "behind", "ahead", "diverged"}, dirty : BOOLEAN]
Runnings == [at : GateStep, req : GateReqs \cup {"none"}, only : BOOLEAN, wired : BOOLEAN,
             cycle : Nat]

GateWellTyped ==
  /\ GateTypeOK
  /\ checkout \in Checkouts /\ gate \in Runnings /\ found \in Found /\ signalled \in BOOLEAN
  /\ gate.at # "idle" => gate.req \in GateReqs
  /\ gate.at = "fixed" => gate.cycle <= MaxCycles

(* What a verification says is what the tree is; and of a tree that is      *)
(* exactly the base branch, it says it of the base branch.                  *)
FoundIsTrue ==
  /\ found.red <=> found.tree # "green"
  /\ found.exact => found.tree = found.origin
  /\ checkout.commits = "same" /\ ~checkout.dirty => checkout.tree = origin

(* A requirement whose gate is running has all its stories in, and is not   *)
(* blocked, but for stories retried after a verdict; nobody else pulls      *)
(* while the gate runs; and a red verdict to come has its gaps on file.     *)
GateRuns ==
  /\ gate.at \notin {"idle", "waves"} =>
       lastPull = gate.req /\ (work[gate.req] # "open" \/ gate.req \in reopened)
  /\ gate.at \notin {"idle", "recorded"} /\ verdict[gate.req] = "blocked" =>
       gate.req \in reopened
  /\ gate.at = "judged" /\ gate.wired /\ found.red =>
       gapsFile = [req |-> gate.req, tree |-> found.tree]

(* A verdict outlives its stories only by a retry.                          *)
VerdictHasStories ==
  \A r \in GateReqs : verdict[r] \in {"completed", "blocked"} =>
    work[r] # "open" \/ r \in reopened

GateInv == GateWellTyped /\ FoundIsTrue /\ GateRuns /\ VerdictHasStories /\ BlockedHasGaps

(* checkTests, without its cases.                                           *)
LEMMA TestsCounted ==
  ASSUME NEW run
  PROVE  CheckTests(run) =
           IF run.late /\ run.status = "error" THEN [failing |-> 1, stuck |-> TRUE]
           ELSE IF ~run.late /\ run.status = "error" /\ run.failing = 0 /\ ~run.empty
                THEN [failing |-> 1, stuck |-> FALSE]
                ELSE [failing |-> run.failing, stuck |-> FALSE]
BY Zenon DEF CheckTests

(* The test runner's ways to end do not mislead the gate: it goes red on    *)
(* every run of a tree that is not green, and on no run of one that is.     *)
LEMMA RedIsNotGreen ==
  ASSUME NEW tree \in Trees, NEW run \in Runner(tree)
  PROVE  /\ ShouldRunFixCycle(run) <=> tree # "green"
         /\ HasUnfixableGap(run) \in BOOLEAN
<1>1. "red" # "green" /\ "hangs" # "green" /\ "hangs" # "red"
  OBVIOUS
<1>2. CASE tree = "green"
  <2>1. run \in Runs({TRUE}, {"clean"}, {0}, BOOLEAN, {FALSE})
                \cup Runs({TRUE}, {"leaked"}, {0}, {FALSE}, {FALSE})
                \cup Runs({TRUE}, {"error"}, {0}, {FALSE}, {TRUE})
    BY <1>1, <1>2, Zenon DEF Runner
  <2>2. run.builds /\ run.failing = 0 /\ (run.status = "error" => ~run.late /\ run.empty)
    BY <2>1 DEF Runs
  <2>3. CheckTests(run) = [failing |-> 0, stuck |-> FALSE]
    BY <2>2, TestsCounted
  <2> QED BY <1>2, <2>2, <2>3 DEF ShouldRunFixCycle, HasUnfixableGap
<1>3. CASE tree = "red"
  <2>1. run \in Runs(BOOLEAN, {"error"}, 0..2, {FALSE}, {FALSE})
                \cup Runs({FALSE}, {"error"}, {0}, {FALSE}, {TRUE})
    BY <1>1, <1>3, Zenon DEF Runner
  <2>2. /\ run.status = "error" /\ ~run.late /\ run.failing \in 0..2
        /\ ~run.builds \/ ~run.empty
    <3>1. CASE run \in Runs(BOOLEAN, {"error"}, 0..2, {FALSE}, {FALSE})
      BY <3>1 DEF Runs
    <3>2. CASE run \in Runs({FALSE}, {"error"}, {0}, {FALSE}, {TRUE})
      <4>1. run.status = "error" /\ run.failing = 0 /\ run.builds \in {FALSE} /\ run.late \in {FALSE}
        BY <3>2 DEF Runs
      <4>2. ~run.builds /\ ~run.late
        BY <4>1, Zenon
      <4> QED BY <4>1, <4>2
    <3> QED BY <2>1, <3>1, <3>2
  <2>3. ~CheckTests(run).stuck
    BY <2>2, TestsCounted
  <2>4. CheckTests(run).stuck \in BOOLEAN
    BY <2>2, TestsCounted
  <2>5. ~run.empty => CheckTests(run).failing > 0
    BY <2>2, TestsCounted
  <2> QED BY <1>1, <1>3, <2>2, <2>4, <2>5, Zenon DEF ShouldRunFixCycle, HasUnfixableGap
<1>4. CASE tree = "hangs"
  <2>1. run \in Runs({TRUE}, {"error"}, 0..1, {TRUE}, {FALSE})
    BY <1>1, <1>4, Zenon DEF Runner
  <2>2. run.status = "error" /\ run.late
    BY <2>1 DEF Runs
  <2>3. CheckTests(run) = [failing |-> 1, stuck |-> TRUE]
    BY <2>2, TestsCounted
  <2> QED BY <1>1, <1>4, <2>3 DEF ShouldRunFixCycle, HasUnfixableGap
<1> QED BY <1>2, <1>3, <1>4 DEF Trees

LEMMA GateInitially == GateInit => GateInv
<1> SUFFICES ASSUME GateInit PROVE GateInv
  OBVIOUS
<1>1. GateTypeOK
  BY CompletionGateAssumption DEF GateInit, GateTypeOK, Trees, NoRun
<1>2. checkout \in Checkouts
  BY DEF GateInit, Checkouts, Trees
<1>3. gate \in Runnings /\ gate.at = "idle"
  BY DEF GateInit, Runnings, GateStep, NoRun
<1>4. found \in Found /\ signalled \in BOOLEAN
  BY DEF GateInit, Found, Trees, Nothing
<1>5. FoundIsTrue
  BY DEF GateInit, FoundIsTrue, Nothing
<1>6. GateRuns /\ VerdictHasStories /\ BlockedHasGaps
  BY <1>3 DEF GateInit, GateRuns, VerdictHasStories, BlockedHasGaps
<1> QED BY <1>1, <1>2, <1>3, <1>4, <1>5, <1>6 DEF GateInv, GateWellTyped

(* The checkout after a pull: what it was, the base branch, or changes on   *)
(* top of it.                                                               *)
LEMMA PullKeeps ==
  ASSUME GateInv, NEW r, PullBase(r), UNCHANGED origin
  PROVE  /\ checkout' \in Checkouts
         /\ checkout'.commits = "same" /\ ~checkout'.dirty => checkout'.tree = origin'
         /\ lastPull' = r
<1>1. CASE UNCHANGED checkout
  BY <1>1 DEF PullBase, GateInv, GateWellTyped, FoundIsTrue
<1>2. CASE checkout' = [tree |-> origin, commits |-> "same", dirty |-> FALSE]
  BY <1>2 DEF PullBase, GateInv, GateWellTyped, GateTypeOK, Checkouts
<1>3. CASE \E t \in Trees : checkout' = [tree |-> t, commits |-> "same", dirty |-> TRUE]
  BY <1>3 DEF PullBase, Checkouts
<1> QED BY <1>1, <1>2, <1>3 DEF PullBase

(* Stopping, however it comes, leaves verdicts and gaps alone.              *)
LEMMA GoneKeeps ==
  ASSUME GateInv, Gone, UNCHANGED <<verdict, work, origin, checkout, reopened, lastPull>>,
         UNCHANGED gapsFile \/ gate.at = "red"
  PROVE  GateInv'
<1>1. gate' = NoRun /\ found' = Nothing /\ signalled' = FALSE
  BY DEF Gone
<1>2. gate'.at = "idle" /\ gate' \in Runnings /\ gate'.cycle = 0
  BY <1>1 DEF Runnings, GateStep, NoRun
<1>3. found' \in Found /\ found'.tree = "green" /\ found'.origin = "green" /\ ~found'.red
  BY <1>1 DEF Found, Nothing, Trees
<1>4. GateTypeOK'
  BY <1>2, CompletionGateAssumption DEF GateInv, GateWellTyped, GateTypeOK
<1>5. GateWellTyped'
  BY <1>1, <1>2, <1>3, <1>4 DEF GateInv, GateWellTyped
<1>6. FoundIsTrue'
  BY <1>3 DEF GateInv, FoundIsTrue
<1>7. GateRuns' /\ VerdictHasStories'
  BY <1>2 DEF GateInv, GateRuns, VerdictHasStories
<1>8. BlockedHasGaps'
  BY DEF GateInv, GateWellTyped, GateRuns, BlockedHasGaps
<1> QED BY <1>5, <1>6, <1>7, <1>8 DEF GateInv


(* What a run that ends reports.                                            *)
LEMMA ReportedIsEarned ==
  ASSUME GateInv, NEW r \in GateReqs, NEW cut
  PROVE  /\ ExitCode(r, cut) = "completed" =>
              verdict[r] = "completed" /\ (work[r] # "open" \/ r \in reopened)
         /\ RefusalCode(r) = "completed" =>
              verdict[r] = "completed" /\ (work[r] # "open" \/ r \in reopened)
<1> DEFINE v == verdict[r]
<1>1. ExitCode(r, cut) = "completed" => v = "completed"
  <2>1. v # "completed" => ExitCode(r, cut) \in
          {"blocked", "paused", "noverdict", "detached", "incomplete"}
    <3>1. CASE v = "blocked"
      <4>1. "blocked" # "completed" /\ "blocked" # "paused"
        OBVIOUS
      <4> QED BY <3>1, <4>1, Zenon DEF ExitCode
    <3>2. CASE v = "paused"
      <4>1. "paused" # "completed" /\ "blocked" # "paused"
        OBVIOUS
      <4> QED BY <3>2, <4>1, Zenon DEF ExitCode
    <3>3. CASE v \notin {"completed", "blocked", "paused"}
      <4>1. v # "completed" /\ v # "blocked" /\ v # "paused"
        BY <3>3
      <4>2. CASE cut /\ work[r] # "open"
        BY <4>1, <4>2, Zenon DEF ExitCode
      <4>3. CASE cut /\ work[r] = "open"
        BY <4>1, <4>3, Zenon DEF ExitCode
      <4>4. CASE ~cut /\ work[r] # "open"
        BY <4>1, <4>4, Zenon DEF ExitCode
      <4>5. CASE ~cut /\ work[r] = "open"
        BY <4>1, <4>5, Zenon DEF ExitCode
      <4> QED BY <4>2, <4>3, <4>4, <4>5
    <3> QED BY <3>1, <3>2, <3>3
  <2> QED BY <2>1
<1>2. RefusalCode(r) = "completed" => v = "completed"
  BY DEF RefusalCode, Settled
<1> QED BY <1>1, <1>2 DEF GateInv, VerdictHasStories

(* Nothing but the outcome of a gate completes a requirement, and whatever  *)
(* the run reports has been recorded.                                       *)
EarnedHere ==
  /\ \A r \in GateReqs :
       verdict'[r] = "completed" /\ verdict[r] # "completed" /\ gate.wired =>
         gate.req = r /\ found.tree = "green" /\ (found.exact => found.origin = "green")
  /\ exit' # exit /\ exit'.code = "completed" =>
       LET r == exit'.req
       IN verdict[r] = "completed" /\ (work[r] # "open" \/ r \in reopened)

LEMMA EndKeeps ==
  ASSUME GateInv, EndRun, gate.at # "idle",
         UNCHANGED <<verdict, work, origin, checkout, reopened, lastPull>>,
         UNCHANGED gapsFile \/ gate.at = "red"
  PROVE  GateInv' /\ EarnedHere
<1>1. GateInv'
  BY GoneKeeps DEF EndRun
<1>2. gate.req \in GateReqs
  BY DEF GateInv, GateWellTyped
<1>3. exit'.code = ExitCode(gate.req, signalled) /\ exit'.req = gate.req
  BY DEF EndRun
<1>4. EarnedHere
  BY <1>2, <1>3, ReportedIsEarned DEF EarnedHere
<1> QED BY <1>1, <1>4

LEMMA ResumeStep ==
  ASSUME GateInv, NEW r \in GateReqs, NEW wired \in BOOLEAN, NEW dry \in BOOLEAN,
         ResumeReq(r, wired, dry)
  PROVE  GateInv' /\ EarnedHere
<1> DEFINE unpaused == [verdict EXCEPT ![r] = IF @ = "paused" THEN "active" ELSE @]
           unblocked == [unpaused EXCEPT ![r] = IF @ = "blocked" THEN "active" ELSE @]
           plain == [NoRun EXCEPT !.at = "waves", !.req = r, !.wired = wired]
           only == [NoRun EXCEPT !.at = "waves", !.req = r, !.only = TRUE, !.wired = wired]
<1>1. /\ verdict \in [GateReqs -> {"active", "paused", "blocked", "completed"}]
      /\ gate.at = "idle"
      /\ UNCHANGED <<found, signalled, work, origin, checkout, gapsFile, reopened, lastPull>>
  BY DEF ResumeReq, GateInv, GateWellTyped, GateTypeOK
<1>2. /\ unpaused \in [GateReqs -> {"active", "paused", "blocked", "completed"}]
      /\ \A q \in GateReqs : unpaused[q] \in {"completed", "blocked"} => unpaused[q] = verdict[q]
  BY <1>1
<1>3. /\ unblocked \in [GateReqs -> {"active", "paused", "blocked", "completed"}]
      /\ \A q \in GateReqs : unblocked[q] \in {"completed", "blocked"} => unblocked[q] = verdict[q]
      /\ unblocked[r] # "blocked"
  <2> HIDE DEF unpaused
  <2> QED BY <1>2
<1>4. /\ plain \in Runnings /\ plain.at = "waves" /\ plain.req = r /\ plain.cycle = 0
      /\ only \in Runnings /\ only.at = "waves" /\ only.req = r /\ only.cycle = 0
  BY DEF Runnings, GateStep, NoRun
<1>5. \/ /\ work[r] = "open" /\ verdict' = unpaused /\ gate' = plain /\ exit' = NoExit
      \/ /\ verdict' = unpaused /\ gate' = gate /\ exit' = [code |-> RefusalCode(r), req |-> r]
      \/ /\ verdict' = unblocked /\ gate' = only /\ exit' = NoExit
  BY DEF ResumeReq
<1> HIDE DEF unpaused, unblocked, plain, only
<1>6. /\ verdict' \in [GateReqs -> {"active", "paused", "blocked", "completed"}]
      /\ \A q \in GateReqs : verdict'[q] \in {"completed", "blocked"} => verdict'[q] = verdict[q]
  BY <1>2, <1>3, <1>5
<1>7. GateWellTyped'
  BY <1>1, <1>4, <1>5, <1>6, CompletionGateAssumption DEF GateInv, GateWellTyped, GateTypeOK
<1>8. FoundIsTrue'
  BY <1>1 DEF GateInv, FoundIsTrue
<1>9. VerdictHasStories' /\ BlockedHasGaps'
  BY <1>1, <1>6 DEF GateInv, VerdictHasStories, BlockedHasGaps
<1>10. GateRuns'
  <2>1. CASE work[r] = "open" /\ verdict' = unpaused /\ gate' = plain
    BY <2>1, <1>1, <1>4, <1>6 DEF GateInv, GateRuns, VerdictHasStories
  <2>2. CASE verdict' = unpaused /\ gate' = gate
    BY <2>2, <1>1 DEF GateRuns
  <2>3. CASE verdict' = unblocked /\ gate' = only
    BY <2>3, <1>1, <1>3, <1>4 DEF GateRuns
  <2> QED BY <1>5, <2>1, <2>2, <2>3
<1>11. EarnedHere
  <2>1. \A q \in GateReqs : verdict'[q] = "completed" => verdict[q] = "completed"
    BY <1>6
  <2>2. exit' = NoExit \/ exit' = [code |-> RefusalCode(r), req |-> r]
    BY <1>5
  <2>3. NoExit.code # "completed"
    BY DEF NoExit
  <2> QED BY <2>1, <2>2, <2>3, ReportedIsEarned DEF EarnedHere
<1> QED BY <1>7, <1>8, <1>9, <1>10, <1>11 DEF GateInv

LEMMA MergeStep ==
  ASSUME GateInv, NEW w \in {"submitted", "merged"}, StoriesMerge(w)
  PROVE  GateInv' /\ EarnedHere
<1>1. /\ gate.at = "waves" /\ work[gate.req] = "open" /\ gate.req \in GateReqs
      /\ work' = [work EXCEPT ![gate.req] = w] /\ origin' \in Trees
      /\ checkout' = [checkout EXCEPT !.commits = Behind(@)]
      /\ UNCHANGED <<verdict, gapsFile, gate, found, signalled, exit, resumes, reopened, lastPull>>
  BY DEF StoriesMerge, GateInv, GateWellTyped
<1>2. checkout' \in Checkouts /\ checkout'.commits # "same"
  BY <1>1 DEF GateInv, GateWellTyped, Checkouts, Behind
<1>3. work' \in [GateReqs -> {"open", "submitted", "merged"}]
      /\ \A q \in GateReqs : work[q] # "open" => work'[q] # "open"
  BY <1>1 DEF GateInv, GateWellTyped, GateTypeOK
<1>4. GateWellTyped'
  BY <1>1, <1>2, <1>3 DEF GateInv, GateWellTyped, GateTypeOK, Checkouts
<1>5. FoundIsTrue'
  BY <1>1, <1>2 DEF GateInv, FoundIsTrue
<1>6. GateRuns' /\ VerdictHasStories' /\ BlockedHasGaps'
  BY <1>1, <1>3 DEF GateInv, GateRuns, VerdictHasStories, BlockedHasGaps
<1>7. EarnedHere
  BY <1>1 DEF EarnedHere
<1> QED BY <1>4, <1>5, <1>6, <1>7 DEF GateInv

(* Both pulls: before the first verification, and after a fix.              *)
LEMMA PullStep ==
  ASSUME GateInv, EnterGate \/ PullFix
  PROVE  GateInv' /\ EarnedHere
<1>1. /\ gate.at \in {"waves", "fixed"} /\ gate.req \in GateReqs
      /\ PullBase(gate.req) /\ gapsFile' = NoGaps
      /\ UNCHANGED <<verdict, work, origin, found, signalled, exit, resumes, reopened>>
  BY DEF EnterGate, PullFix, PullBase, GateInv, GateWellTyped
<1>2. /\ checkout' \in Checkouts /\ lastPull' = gate.req
      /\ checkout'.commits = "same" /\ ~checkout'.dirty => checkout'.tree = origin'
  BY <1>1, PullKeeps
<1>3. /\ gate' \in Runnings /\ gate'.at = "verify" /\ gate'.req = gate.req
      /\ gate'.cycle \in 0..MaxCycles + 1
  <2>0. gate \in Runnings /\ MaxCycles \in Nat
    BY CompletionGateAssumption DEF GateInv, GateWellTyped
  <2>1. CASE EnterGate
    <3>1. gate' = [gate EXCEPT !.at = "verify", !.cycle = 1]
      BY <2>1 DEF EnterGate
    <3>2. gate' \in Runnings /\ gate'.at = "verify" /\ gate'.req = gate.req /\ gate'.cycle = 1
      BY <2>0, <3>1 DEF Runnings, GateStep
    <3> QED BY <2>0, <3>2
  <2>2. CASE PullFix
    <3>1. gate' = [gate EXCEPT !.at = "verify", !.cycle = @ + 1] /\ gate.cycle <= MaxCycles
      BY <2>2 DEF PullFix, GateInv, GateWellTyped
    <3>2. gate.cycle \in Nat
      BY <2>0 DEF Runnings
    <3>3. gate' \in Runnings /\ gate'.at = "verify" /\ gate'.req = gate.req
          /\ gate'.cycle = gate.cycle + 1
      <4> DEFINE c == gate.cycle + 1
      <4>1. c \in Nat /\ gate' = [gate EXCEPT !.at = "verify", !.cycle = c]
        BY <3>1, <3>2
      <4> HIDE DEF c
      <4>2. gate' \in Runnings /\ gate'.at = "verify" /\ gate'.req = gate.req /\ gate'.cycle = c
        BY <2>0, <4>1 DEF Runnings, GateStep
      <4> QED BY <4>2 DEF c
    <3> QED BY <2>0, <3>1, <3>2, <3>3
  <2> QED BY <2>1, <2>2
<1>4. /\ work[gate.req] # "open" \/ gate.req \in reopened
      /\ verdict[gate.req] = "blocked" => gate.req \in reopened
  <2>1. CASE EnterGate
    BY <2>1, <1>1 DEF EnterGate, GateInv, GateRuns
  <2>2. CASE PullFix
    BY <2>2, <1>1 DEF PullFix, GateInv, GateRuns
  <2> QED BY <2>1, <2>2
<1>5. GateWellTyped'
  BY <1>1, <1>2, <1>3 DEF GateInv, GateWellTyped, GateTypeOK, Checkouts
<1>6. FoundIsTrue'
  BY <1>1, <1>2 DEF GateInv, FoundIsTrue
<1>7. GateRuns' /\ VerdictHasStories' /\ BlockedHasGaps'
  BY <1>1, <1>2, <1>3, <1>4 DEF GateInv, GateRuns, VerdictHasStories, BlockedHasGaps
<1>8. EarnedHere
  BY <1>1 DEF EarnedHere
<1> QED BY <1>5, <1>6, <1>7, <1>8 DEF GateInv

LEMMA VerifyStep ==
  ASSUME GateInv, VerifyTree
  PROVE  GateInv' /\ EarnedHere
<1>1. /\ gate.at = "verify" /\ gate.req \in GateReqs
      /\ checkout \in Checkouts /\ origin \in Trees
      /\ UNCHANGED <<verdict, work, origin, gapsFile, signalled, exit, resumes, reopened, lastPull>>
  BY DEF VerifyTree, GateInv, GateWellTyped, GateTypeOK
<1>2. PICK run \in Runner(checkout.tree) :
        found' = [tree |-> checkout.tree, origin |-> origin,
                  exact |-> checkout.commits = "same" /\ ~checkout.dirty,
                  red |-> ShouldRunFixCycle(run), stuck |-> HasUnfixableGap(run)]
  BY DEF VerifyTree
<1>3. checkout.tree \in Trees
  BY <1>1 DEF Checkouts
<1>4. (ShouldRunFixCycle(run) <=> checkout.tree # "green") /\ HasUnfixableGap(run) \in BOOLEAN
  BY <1>2, <1>3, RedIsNotGreen
<1>5. (checkout.commits = "same" /\ ~checkout.dirty) \in BOOLEAN
      /\ ShouldRunFixCycle(run) \in BOOLEAN
  BY Zenon DEF ShouldRunFixCycle
<1>6. /\ found'.tree = checkout.tree /\ found'.origin = origin
      /\ found'.exact = (checkout.commits = "same" /\ ~checkout.dirty)
      /\ found'.red = ShouldRunFixCycle(run)
      /\ found' \in Found
  BY <1>1, <1>2, <1>3, <1>4, <1>5 DEF Found
<1>7. /\ checkout' \in Checkouts
      /\ checkout'.commits = "same" /\ ~checkout'.dirty => checkout'.tree = origin'
  <2>1. CASE UNCHANGED checkout
    BY <1>1, <2>1 DEF GateInv, FoundIsTrue
  <2>2. CASE checkout' = [checkout EXCEPT !.dirty = FALSE, !.commits = Ahead(@)]
    BY <1>1, <2>2 DEF Checkouts, Ahead
  <2> QED BY <2>1, <2>2 DEF VerifyTree
<1>8. /\ gate' \in Runnings /\ gate'.req = gate.req /\ gate'.cycle = gate.cycle
      /\ gate'.wired = gate.wired
      /\ gate'.at = IF gate.wired /\ found'.red THEN "red" ELSE "judged"
  BY DEF VerifyTree, GateInv, GateWellTyped, Runnings, GateStep
<1>9. GateWellTyped'
  BY <1>1, <1>6, <1>7, <1>8 DEF GateInv, GateWellTyped, GateTypeOK, Checkouts
<1>10. FoundIsTrue'
  BY <1>1, <1>4, <1>6, <1>7 DEF GateInv, FoundIsTrue
<1>11. GateRuns' /\ VerdictHasStories' /\ BlockedHasGaps'
  BY <1>1, <1>8 DEF GateInv, GateRuns, VerdictHasStories, BlockedHasGaps
<1>12. EarnedHere
  BY <1>1 DEF EarnedHere
<1> QED BY <1>9, <1>10, <1>11, <1>12 DEF GateInv

LEMMA GiveUpStep ==
  ASSUME GateInv, GiveUp
  PROVE  GateInv' /\ EarnedHere
<1>1. /\ gate.at \in {"red", "fixed"} /\ gate.req \in GateReqs
      /\ gapsFile' = [req |-> gate.req, tree |-> found.tree]
      /\ UNCHANGED <<verdict, work, origin, checkout, found, signalled, exit, resumes, reopened,
                     lastPull>>
  BY DEF GiveUp, RecordRedCycle, GateInv, GateWellTyped
<1>2. /\ gate' \in Runnings /\ gate'.at = "judged" /\ gate'.req = gate.req
      /\ gate'.cycle = gate.cycle /\ gate'.wired = gate.wired
  BY DEF GiveUp, GateInv, GateWellTyped, Runnings, GateStep
<1>3. GateWellTyped'
  BY <1>1, <1>2 DEF GateInv, GateWellTyped, GateTypeOK
<1>4. FoundIsTrue' /\ GateRuns' /\ VerdictHasStories' /\ BlockedHasGaps'
  BY <1>1, <1>2 DEF GateInv, FoundIsTrue, GateRuns, VerdictHasStories, BlockedHasGaps
<1>5. EarnedHere
  BY <1>1 DEF EarnedHere
<1> QED BY <1>3, <1>4, <1>5 DEF GateInv

LEMMA FixStep ==
  ASSUME GateInv, FixCycle
  PROVE  GateInv' /\ EarnedHere
<1>1. /\ gate.at = "red" /\ gate.req \in GateReqs /\ gate.cycle <= MaxCycles
      /\ gapsFile' = [req |-> gate.req, tree |-> found.tree]
      /\ UNCHANGED <<verdict, work, found, signalled, exit, resumes, reopened, lastPull>>
  BY DEF FixCycle, CanFix, RecordRedCycle, GateInv, GateWellTyped
<1>2. /\ gate' \in Runnings /\ gate'.at = "fixed" /\ gate'.req = gate.req
      /\ gate'.cycle = gate.cycle /\ gate'.wired = gate.wired
  BY DEF FixCycle, GateInv, GateWellTyped, Runnings, GateStep
<1>3. PICK t \in Trees, how \in {"pushed", "committed", "left"} : AgentWork(t, how)
  BY DEF FixCycle
<1>4. \/ origin' = t /\ checkout' = [tree |-> t, commits |-> "same", dirty |-> FALSE]
      \/ /\ origin' = origin
         /\ checkout' = [tree |-> t, commits |-> Ahead(checkout.commits), dirty |-> FALSE]
      \/ origin' = origin /\ checkout' = [checkout EXCEPT !.tree = t, !.dirty = TRUE]
  <2>1. "pushed" # "committed" /\ "left" # "pushed" /\ "left" # "committed"
    OBVIOUS
  <2>2. how = "pushed" \/ how = "committed" \/ how = "left"
    OBVIOUS
  <2> QED BY <1>3, <2>1, <2>2, Zenon DEF AgentWork
<1>5. checkout \in Checkouts /\ origin \in Trees
  BY DEF GateInv, GateWellTyped, GateTypeOK
<1>6. /\ checkout' \in Checkouts /\ origin' \in Trees
      /\ checkout'.commits = "same" /\ ~checkout'.dirty => checkout'.tree = origin'
  <2>1. CASE origin' = t /\ checkout' = [tree |-> t, commits |-> "same", dirty |-> FALSE]
    BY <2>1 DEF Checkouts
  <2>2. CASE /\ origin' = origin
             /\ checkout' = [tree |-> t, commits |-> Ahead(checkout.commits), dirty |-> FALSE]
    <3>1. Ahead(checkout.commits) \in {"ahead", "diverged"}
      BY DEF Ahead
    <3> QED BY <2>2, <3>1, <1>5 DEF Checkouts
  <2>3. CASE origin' = origin /\ checkout' = [checkout EXCEPT !.tree = t, !.dirty = TRUE]
    BY <2>3, <1>5 DEF Checkouts
  <2> QED BY <1>4, <2>1, <2>2, <2>3
<1>7. GateWellTyped'
  BY <1>1, <1>2, <1>6 DEF GateInv, GateWellTyped, GateTypeOK, Checkouts
<1>8. FoundIsTrue'
  BY <1>1, <1>6 DEF GateInv, FoundIsTrue
<1>9. GateRuns' /\ VerdictHasStories' /\ BlockedHasGaps'
  BY <1>1, <1>2 DEF GateInv, GateRuns, VerdictHasStories, BlockedHasGaps
<1>10. EarnedHere
  BY <1>1 DEF EarnedHere
<1> QED BY <1>7, <1>8, <1>9, <1>10 DEF GateInv

LEMMA OutcomeStep ==
  ASSUME GateInv, RecordOutcome
  PROVE  GateInv' /\ EarnedHere
<1> DEFINE outcome == IF gate.wired /\ found.red THEN "blocked" ELSE "completed"
<1>1. /\ gate.at = "judged" /\ gate.req \in GateReqs
      /\ verdict' = [verdict EXCEPT ![gate.req] = outcome]
      /\ UNCHANGED <<work, origin, checkout, found, signalled, exit, resumes, lastPull>>
  BY DEF RecordOutcome, GateInv, GateWellTyped
<1>2. /\ gate' \in Runnings /\ gate'.at = "recorded" /\ gate'.req = gate.req
      /\ gate'.cycle = gate.cycle /\ gate'.wired = gate.wired
  BY DEF RecordOutcome, GateInv, GateWellTyped, Runnings, GateStep
<1>3. /\ verdict \in [GateReqs -> {"active", "paused", "blocked", "completed"}]
      /\ verdict' \in [GateReqs -> {"active", "paused", "blocked", "completed"}]
      /\ verdict'[gate.req] = outcome
      /\ \A q \in GateReqs \ {gate.req} : verdict'[q] = verdict[q]
  BY <1>1 DEF GateInv, GateWellTyped, GateTypeOK
<1>4. /\ reopened' \subseteq reopened
      /\ \A q \in reopened : q # gate.req => q \in reopened'
      /\ work[gate.req] = "open" => reopened' = reopened
  BY DEF RecordOutcome
<1>5. outcome = "blocked" => gapsFile' = gapsFile
  BY DEF RecordOutcome
<1>6. lastPull = gate.req /\ (work[gate.req] # "open" \/ gate.req \in reopened)
  BY <1>1 DEF GateInv, GateRuns
<1>7. gate.wired /\ found.red => gapsFile = [req |-> gate.req, tree |-> found.tree]
  BY <1>1 DEF GateInv, GateRuns
<1>8. GateWellTyped'
  BY <1>1, <1>2, <1>3, <1>4 DEF GateInv, GateWellTyped, GateTypeOK
<1>9. FoundIsTrue'
  BY <1>1 DEF GateInv, FoundIsTrue
<1>10. GateRuns'
  BY <1>1, <1>2, <1>4, <1>6 DEF GateRuns
<1>11. VerdictHasStories'
  BY <1>1, <1>3, <1>4, <1>6 DEF GateInv, VerdictHasStories
<1>12. BlockedHasGaps'
  <2> SUFFICES ASSUME NEW r \in GateReqs, verdict'[r] = "blocked", lastPull' = r,
                      r \notin reopened'
               PROVE  gapsFile'.req = r /\ gapsFile'.tree # "green"
    BY DEF BlockedHasGaps
  <2>1. r = gate.req /\ outcome = "blocked"
    BY <1>1, <1>3, <1>6
  <2> QED BY <2>1, <1>5, <1>7 DEF GateInv, FoundIsTrue
<1>13. EarnedHere
  <2> SUFFICES ASSUME NEW r \in GateReqs, verdict'[r] = "completed", verdict[r] # "completed",
                      gate.wired
               PROVE  /\ gate.req = r /\ found.tree = "green"
                      /\ found.exact => found.origin = "green"
    BY <1>1 DEF EarnedHere
  <2>1. r = gate.req
    BY <1>3
  <2>2. ~found.red
    BY <1>3, <2>1
  <2> QED BY <2>1, <2>2 DEF GateInv, FoundIsTrue
<1> QED BY <1>8, <1>9, <1>10, <1>11, <1>12, <1>13 DEF GateInv

(* What happens around the run.                                             *)
LEMMA AroundStep ==
  ASSUME GateInv, Signal \/ OperatorEdits \/ OperatorPushes \/ UNCHANGED gateVars
  PROVE  GateInv' /\ EarnedHere
<1>1. /\ UNCHANGED <<verdict, work, gapsFile, gate, found, exit, resumes, reopened, lastPull>>
      /\ signalled' \in BOOLEAN
  BY DEF Signal, OperatorEdits, OperatorPushes, gateVars, GateInv, GateWellTyped
<1>2. checkout \in Checkouts /\ origin \in Trees
  BY DEF GateInv, GateWellTyped, GateTypeOK
<1>3. /\ checkout' \in Checkouts /\ origin' \in Trees
      /\ checkout'.commits = "same" /\ ~checkout'.dirty => checkout'.tree = origin'
  <2>1. CASE Signal \/ UNCHANGED gateVars
    BY <1>2, <2>1 DEF Signal, gateVars, GateInv, FoundIsTrue
  <2>2. CASE OperatorEdits
    BY <1>2, <2>2 DEF OperatorEdits, Checkouts
  <2>3. CASE OperatorPushes
    BY <1>2, <2>3 DEF OperatorPushes, Checkouts
  <2> QED BY <2>1, <2>2, <2>3
<1>4. GateWellTyped'
  BY <1>1, <1>3 DEF GateInv, GateWellTyped, GateTypeOK, Checkouts
<1>5. FoundIsTrue'
  BY <1>1, <1>3 DEF GateInv, FoundIsTrue
<1>6. GateRuns' /\ VerdictHasStories' /\ BlockedHasGaps'
  BY <1>1 DEF GateInv, GateRuns, VerdictHasStories, BlockedHasGaps
<1>7. EarnedHere
  BY <1>1 DEF EarnedHere
<1> QED BY <1>4, <1>5, <1>6, <1>7 DEF GateInv

(* vxd pause and vxd retry.                                                 *)
LEMMA OperatorStep ==
  ASSUME GateInv, NEW r \in GateReqs, PauseReq(r) \/ RetryStory(r)
  PROVE  GateInv' /\ EarnedHere
<1>1. /\ UNCHANGED <<origin, checkout, gapsFile, gate, found, signalled, exit, resumes, lastPull>>
      /\ reopened \subseteq reopened' /\ reopened' \subseteq reopened \cup {r}
  BY DEF PauseReq, RetryStory
<1>2. /\ verdict' \in [GateReqs -> {"active", "paused", "blocked", "completed"}]
      /\ \A q \in GateReqs : verdict'[q] \in {"completed", "blocked"} => verdict'[q] = verdict[q]
  BY DEF PauseReq, RetryStory, GateInv, GateWellTyped, GateTypeOK
<1>3. /\ work' \in [GateReqs -> {"open", "submitted", "merged"}]
      /\ \A q \in GateReqs : work'[q] = work[q] \/ q \in reopened'
  BY DEF PauseReq, RetryStory, GateInv, GateWellTyped, GateTypeOK
<1>4. gate.at # "idle" => gate.req \in GateReqs
  BY DEF GateInv, GateWellTyped
<1>5. GateWellTyped'
  BY <1>1, <1>2, <1>3 DEF GateInv, GateWellTyped, GateTypeOK
<1>6. FoundIsTrue' /\ VerdictHasStories' /\ BlockedHasGaps'
  BY <1>1, <1>2, <1>3 DEF GateInv, FoundIsTrue, VerdictHasStories, BlockedHasGaps
<1>7. GateRuns'
  BY <1>1, <1>2, <1>3, <1>4 DEF GateInv, GateRuns
<1>8. EarnedHere
  BY <1>1, <1>2 DEF EarnedHere
<1> QED BY <1>5, <1>6, <1>7, <1>8 DEF GateInv

LEMMA GateStepKeeps == GateInv /\ [GateNext]_gateVars => GateInv' /\ EarnedHere
<1> SUFFICES ASSUME GateInv, [GateNext]_gateVars PROVE GateInv' /\ EarnedHere
  OBVIOUS
<1>1. CASE \E r \in GateReqs, wired, dry \in BOOLEAN : ResumeReq(r, wired, dry)
  BY <1>1, ResumeStep
<1>2. CASE \E w \in {"submitted", "merged"} : StoriesMerge(w)
  BY <1>2, MergeStep
<1>3. CASE \E r \in GateReqs : PauseReq(r) \/ RetryStory(r)
  BY <1>3, OperatorStep
<1>4. CASE NothingLeft \/ FinishResume
  BY <1>4, EndKeeps DEF NothingLeft, FinishResume
<1>5. CASE Abort
  BY <1>5, EndKeeps DEF Abort
<1>6. CASE KillRun
  <2>1. GateInv'
    BY <1>6, GoneKeeps DEF KillRun
  <2>2. EarnedHere
    BY <1>6 DEF KillRun, EarnedHere
  <2> QED BY <2>1, <2>2
<1>7. CASE EnterGate \/ PullFix
  BY <1>7, PullStep
<1>8. CASE VerifyTree
  BY <1>8, VerifyStep
<1>9. CASE GiveUp
  BY <1>9, GiveUpStep
<1>10. CASE FixCycle
  BY <1>10, FixStep
<1>11. CASE RecordOutcome
  BY <1>11, OutcomeStep
<1>12. CASE Signal \/ OperatorEdits \/ OperatorPushes \/ UNCHANGED gateVars
  BY <1>12, AroundStep
<1> QED BY <1>1, <1>2, <1>3, <1>4, <1>5, <1>6, <1>7, <1>8, <1>9, <1>10, <1>11, <1>12
        DEF GateNext

(* For any requirements, numbers of cycles and of runs: what `blocked'      *)
(* points at is there, and describes a tree that is not green.              *)
THEOREM BlockedExplained == GateSpec => []BlockedHasGaps
<1>1. GateInv => BlockedHasGaps
  BY DEF GateInv
<1> QED BY <1>1, GateInitially, GateStepKeeps, PTL DEF GateSpec

(* A gate that is wired completes a requirement only after a verification   *)
(* of a green tree, and a run that reports completion has it recorded and   *)
(* its stories in: for every order of runs, signals, kills and retries.     *)
THEOREM CompletionEarned == GateSpec => CompletionIsEarned
<1>1. GateInv /\ [GateNext]_gateVars => [EarnedHere]_gateVars
  BY GateStepKeeps
<1>2. GateSpec => [][EarnedHere]_gateVars
  BY <1>1, GateInitially, GateStepKeeps, PTL DEF GateSpec
<1>3. [EarnedHere]_gateVars =>
        [/\ \A r \in GateReqs :
              verdict'[r] = "completed" /\ verdict[r] # "completed" /\ gate.wired =>
                gate.req = r /\ found.tree = "green" /\ (found.exact => found.origin = "green")
         /\ exit' # exit /\ exit'.code = "completed" =>
              LET r == exit'.req
              IN verdict[r] = "completed" /\ (work[r] # "open" \/ r \in reopened)]_gateVars
  BY DEF EarnedHere
<1> QED BY <1>2, <1>3, PTL DEF CompletionIsEarned


(* --- the plan ---------------------------------------------------------------------- *)

PlanPhase == {"unplanned", "refused", "creating", "down", "up", "wave", "delivered"}
IsStory(r) ==
  /\ r = [status |-> r.status, deps |-> r.deps, files |-> r.files, seq |-> r.seq,
          depth |-> r.depth, kids |-> r.kids]
  /\ r.status \in {"draft", "working", "merged", "split"} /\ r.depth \in Nat

PlanTyped ==
  /\ planPhase \in PlanPhase
  /\ stories = [s \in DOMAIN stories |-> stories[s]]
  /\ \A s \in DOMAIN stories : IsStory(stories[s])
  /\ graph = [nodes |-> graph.nodes, edges |-> graph.edges]
  /\ tracked \cup agents \cup intercept \cup early \subseteq DOMAIN stories
  /\ runs \in Nat /\ planCut \in BOOLEAN /\ rawUsed \in BOOLEAN

(* What the process holds: a wave is dispatched when nothing is tracked,    *)
(* what is tracked is being worked on, what is handed to the manager is not *)
(* done.                                                                    *)
ProcessHolds ==
  /\ tracked # {} => planPhase = "up"
  /\ intercept # {} => planPhase = "wave"
  /\ \A s \in tracked : stories[s].status = "working"
  /\ intercept \cap Complete = {}
  /\ planPhase \in {"unplanned", "refused", "creating"} => runs = 0
  /\ planPhase \in {"up", "wave", "delivered"} => runs # 0
  /\ runs = 0 => agents = {} /\ \A s \in DOMAIN stories : stories[s].status = "draft"

(* The first n stories of an accepted plan are in the table as planned, and *)
(* no other of depth 0.                                                     *)
AsPlanned(plan, n) ==
  /\ n \in 0..Len(plan)
  /\ \A i \in 1..n :
       /\ plan[i].id \in DOMAIN stories
       /\ stories[plan[i].id].depth = 0
       /\ stories[plan[i].id].deps = plan[i].deps
       /\ stories[plan[i].id].files = plan[i].files
  /\ \A s \in DOMAIN stories : stories[s].depth = 0 => \E i \in 1..n : plan[i].id = s
  /\ planPhase = "creating" =>
       /\ n < Len(plan) /\ toCreate = SubSeq(plan, n + 1, Len(plan))
       /\ \A s \in DOMAIN stories : stories[s].depth = 0
       /\ ~planCut
  /\ ~planCut /\ planPhase # "creating" => n = Len(plan)
FollowsPlan ==
  IF planPhase \in {"unplanned", "refused"} THEN stories = <<>> /\ ~planCut
  ELSE \E raw \in RawPlans : Accepts(raw) /\ \E n \in 0..Len(Planned(raw)) : AsPlanned(Planned(raw), n)

(* Only stories of the plan wait for others, in the tables.                 *)
KidsWaitForNone == \A s \in DOMAIN stories : stories[s].depth > 0 => stories[s].deps = {}

(* The graph of the process has every stored dependency, and without what   *)
(* no one checked it has no cycle and ends nowhere.                         *)
NoCycle(nodes, edges) ==
  \A left \in SUBSET nodes : left # {} => \E n \in left : \A m \in left : <<n, m>> \notin edges
GraphHolds ==
  planPhase \in {"up", "wave"} =>
    /\ graph.nodes = DOMAIN stories
    /\ \A s \in DOMAIN stories : {s} \X stories[s].deps \subseteq graph.edges
    /\ ~planCut /\ ~rawUsed =>
         graph.edges \subseteq graph.nodes \X graph.nodes /\ NoCycle(graph.nodes, graph.edges)

(* Who was not started early was started after its dependencies.            *)
StartedInOrder ==
  /\ \A s \in DOMAIN stories \ early :
       stories[s].status # "draft" \/ s \in agents => stories[s].deps \subseteq Complete
  /\ \A s \in intercept : stories[s].deps \subseteq Complete

(* In the first run the agents are those of one wave.                       *)
FirstRunAgrees ==
  runs <= 1 =>
    /\ planPhase \in {"up", "wave"} => agents = tracked
    /\ \A s, t \in agents : s # t => ~Conflict(s, t)

PlanInv ==
  /\ PlanTyped /\ ProcessHolds /\ FollowsPlan /\ KidsWaitForNone /\ GraphHolds
  /\ StartedInOrder /\ FirstRunAgrees

(* --- the plan: what the planner makes of an answer ----------------------------------- *)

LEMMA NatHasMin ==
  ASSUME NEW S \in SUBSET Nat, S # {}
  PROVE  \E x \in S : \A y \in S : x <= y
<1>1. PICK m \in S : TRUE
  OBVIOUS
<1> DEFINE T == {d \in 0..m : m - d \in S}
<1>2. 0 \in T
  BY <1>1
<1>3. T \in SUBSET Nat /\ T # {} /\ (\A d \in T : d <= m) /\ m \in Nat
  BY <1>1, <1>2
<1>4. PICK d \in T : \A e \in T : e <= d
  <2> HIDE DEF T
  <2> QED BY <1>3, BoundedHasMax
<1>5. m - d \in S /\ d \in 0..m
  BY <1>4
<1>6. ASSUME NEW y \in S, y < m - d
      PROVE  FALSE
  <2>1. y \in Nat /\ m \in Nat /\ d \in Nat
    BY <1>1, <1>5
  <2>2. m - y \in 0..m /\ m - (m - y) = y
    BY <1>5, <1>6, <2>1
  <2>3. m - y \in T
    BY <2>2
  <2>4. m - y <= d
    BY <1>4, <2>3
  <2> QED BY <1>6, <2>1, <2>4
<1>7. \A y \in S : m - d <= y
  <2> TAKE y \in S
  <2>1. y \in Nat /\ m \in Nat /\ d \in Nat
    BY <1>1, <1>5
  <2> QED BY <1>6, <2>1
<1> QED BY <1>5, <1>7

(* What AutoSequence adds is a dependency on another story of the answer.   *)
LastOwners(raw, i) ==
  {raw[j].id : j \in {k \in 1..i - 1 :
     \E f \in raw[i].files \cap raw[k].files :
        \A l \in k + 1..i - 1 : f \notin raw[l].files}}

LEMMA AutoSequenced ==
  ASSUME NEW raw \in RawPlans
  PROVE  /\ Len(raw) \in Nat /\ DOMAIN raw = 1..Len(raw)
         /\ \E S : AutoSequence(raw) \in Seq(S)
         /\ Len(AutoSequence(raw)) = Len(raw)
         /\ \A i \in 1..Len(raw) :
              /\ AutoSequence(raw)[i].id = raw[i].id
              /\ AutoSequence(raw)[i].files = raw[i].files
              /\ AutoSequence(raw)[i].deps = raw[i].deps \cup LastOwners(raw, i)
<1>1. raw \in Seq(RawStory(raw))
  BY PlanGraphAssumption
<1>2. Len(raw) \in Nat /\ DOMAIN raw = 1..Len(raw)
  BY <1>1
<1>3. \A i \in 1..Len(raw) : raw[i] \in RawStory(raw)
  BY <1>1, <1>2
<1>4. AutoSequence(raw) =
        [i \in 1..Len(raw) |-> [raw[i] EXCEPT !.deps = @ \cup LastOwners(raw, i)]]
  BY <1>2 DEF AutoSequence, LastOwners
<1>5. \A i \in 1..Len(raw) :
        /\ AutoSequence(raw)[i].id = raw[i].id
        /\ AutoSequence(raw)[i].files = raw[i].files
        /\ AutoSequence(raw)[i].deps = raw[i].deps \cup LastOwners(raw, i)
  BY <1>3, <1>4 DEF RawStory
<1> DEFINE S == {AutoSequence(raw)[i] : i \in 1..Len(raw)}
<1>6. AutoSequence(raw) \in [1..Len(raw) -> S]
  BY <1>4
<1>7. AutoSequence(raw) \in Seq(S) /\ Len(AutoSequence(raw)) = Len(raw)
  <2> HIDE DEF S
  <2> QED BY <1>2, <1>6
<1> QED BY <1>2, <1>5, <1>7

LEMMA Appending ==
  ASSUME NEW S, NEW p \in Seq(S), NEW id
  PROVE  /\ \E T : AppendStory(p, id) \in Seq(T)
         /\ Len(AppendStory(p, id)) \in {Len(p), Len(p) + 1}
         /\ \A i \in 1..Len(p) : AppendStory(p, id)[i] = p[i]
         /\ Len(AppendStory(p, id)) > Len(p) =>
              /\ id \in Appended
              /\ AppendStory(p, id)[Len(p) + 1].id = id
              /\ AppendStory(p, id)[Len(p) + 1].files = {}
              /\ AppendStory(p, id)[Len(p) + 1].deps = Ids(p)
         /\ id \in Appended => Len(AppendStory(p, id)) = Len(p) + 1
<1>1. CASE id \notin Appended
  <2>1. AppendStory(p, id) = p
    BY <1>1 DEF AppendStory
  <2> QED BY <1>1, <2>1
<1>2. CASE id \in Appended
  <2> DEFINE e == [id |-> id, deps |-> Ids(p), files |-> {}, seq |-> TRUE, big |-> FALSE]
  <2>1. AppendStory(p, id) = Append(p, e)
    BY <1>2 DEF AppendStory
  <2>2. e.id = id /\ e.files = {} /\ e.deps = Ids(p)
    OBVIOUS
  <2> HIDE DEF e
  <2>3. p \in Seq(S \cup {e}) /\ e \in S \cup {e}
    OBVIOUS
  <2>4. Append(p, e) \in Seq(S \cup {e})
    BY <2>3
  <2>5. /\ Len(Append(p, e)) = Len(p) + 1 /\ Append(p, e)[Len(p) + 1] = e
        /\ \A i \in 1..Len(p) : Append(p, e)[i] = p[i]
    OBVIOUS
  <2> QED BY <1>2, <2>1, <2>2, <2>4, <2>5
<1> QED BY <1>1, <1>2

(* The plan is the answer, put in order, and what is appended to it waits   *)
(* for everything before it.                                                *)
LEMMA PlanShape ==
  ASSUME NEW raw \in RawPlans
  PROVE  /\ \E S : Planned(raw) \in Seq(S)
         /\ Len(raw) \in Nat /\ Len(Planned(raw)) \in Nat
         /\ Len(raw) <= Len(Planned(raw))
         /\ \A i \in 1..Len(raw) : Planned(raw)[i] = AutoSequence(raw)[i]
         /\ \A i \in 1..Len(Planned(raw)) : i > Len(raw) =>
              /\ Planned(raw)[i].id \in Appended
              /\ Planned(raw)[i].files = {}
              /\ Planned(raw)[i].deps = {Planned(raw)[j].id : j \in 1..i - 1}
         /\ \A id \in Appended :
              \E i \in 1..Len(Planned(raw)) : i > Len(raw) /\ Planned(raw)[i].id = id
<1> DEFINE a == AutoSequence(raw)
           b == AppendStory(a, Integration)
           c == AppendStory(b, Scribe)
<1>1. PICK S : a \in Seq(S)
  BY AutoSequenced
<1>2. Len(a) = Len(raw) /\ Len(raw) \in Nat
  BY AutoSequenced
<1>3. /\ \E T : b \in Seq(T)
      /\ Len(b) \in {Len(a), Len(a) + 1}
      /\ \A i \in 1..Len(a) : b[i] = a[i]
      /\ Len(b) > Len(a) =>
           /\ Integration \in Appended
           /\ b[Len(a) + 1].id = Integration /\ b[Len(a) + 1].files = {}
           /\ b[Len(a) + 1].deps = Ids(a)
      /\ Integration \in Appended => Len(b) = Len(a) + 1
  <2> HIDE DEF a
  <2> QED BY <1>1, Appending
<1>4. PICK T : b \in Seq(T)
  BY <1>3
<1>5. /\ \E U : c \in Seq(U)
      /\ Len(c) \in {Len(b), Len(b) + 1}
      /\ \A i \in 1..Len(b) : c[i] = b[i]
      /\ Len(c) > Len(b) =>
           /\ Scribe \in Appended
           /\ c[Len(b) + 1].id = Scribe /\ c[Len(b) + 1].files = {}
           /\ c[Len(b) + 1].deps = Ids(b)
      /\ Scribe \in Appended => Len(c) = Len(b) + 1
  <2> HIDE DEF b
  <2> QED BY <1>4, Appending
<1>6. Planned(raw) = c
  BY DEF Planned
<1> HIDE DEF a, b, c
<1>7. Len(b) \in Nat /\ Len(c) \in Nat /\ Len(a) <= Len(b) /\ Len(b) <= Len(c)
  BY <1>2, <1>3, <1>5
<1>8. \A i \in 1..Len(a) : c[i] = a[i]
  BY <1>2, <1>3, <1>5, <1>7
<1>9. Ids(a) = {c[j].id : j \in 1..Len(a)}
  <2>1. DOMAIN a = 1..Len(a)
    BY <1>1
  <2> QED BY <2>1, <1>8 DEF Ids
<1>10. Ids(b) = {c[j].id : j \in 1..Len(b)}
  <2>1. DOMAIN b = 1..Len(b)
    BY <1>4
  <2> QED BY <2>1, <1>5 DEF Ids
<1>11. ASSUME NEW i \in 1..Len(c), i > Len(raw)
       PROVE  /\ c[i].id \in Appended /\ c[i].files = {}
              /\ c[i].deps = {c[j].id : j \in 1..i - 1}
  <2>1. CASE i <= Len(b)
    <3>1. i = Len(a) + 1 /\ Len(b) > Len(a) /\ c[i] = b[i] /\ i - 1 = Len(a)
      BY <1>2, <1>3, <1>5, <1>7, <1>11, <2>1
    <3> QED BY <3>1, <1>3, <1>9
  <2>2. CASE ~(i <= Len(b))
    <3>1. i = Len(b) + 1 /\ Len(c) > Len(b) /\ i - 1 = Len(b)
      BY <1>5, <1>7, <1>11, <2>2
    <3> QED BY <3>1, <1>5, <1>10
  <2> QED BY <2>1, <2>2
<1>12. \A i \in 1..Len(raw) : c[i] = AutoSequence(raw)[i]
  BY <1>2, <1>8 DEF a
<1>13. ASSUME NEW id \in Appended
       PROVE  \E i \in 1..Len(c) : i > Len(raw) /\ c[i].id = id
  <2>1. CASE id = Integration
    <3>1. /\ Len(b) = Len(a) + 1 /\ Len(b) > Len(a) /\ Len(a) + 1 \in 1..Len(b)
          /\ Len(a) + 1 \in 1..Len(c) /\ Len(a) + 1 > Len(raw)
      BY <1>2, <1>3, <1>7, <1>13, <2>1
    <3>2. c[Len(a) + 1].id = id
      BY <1>3, <1>5, <2>1, <3>1
    <3> QED BY <3>1, <3>2
  <2>2. CASE id = Scribe
    <3>1. /\ Len(c) = Len(b) + 1 /\ Len(c) > Len(b)
          /\ Len(b) + 1 \in 1..Len(c) /\ Len(b) + 1 > Len(raw)
      BY <1>2, <1>5, <1>7, <1>13, <2>2
    <3>2. c[Len(b) + 1].id = id
      BY <1>5, <2>2, <3>1
    <3> QED BY <3>1, <3>2
  <2> QED BY <1>13, <2>1, <2>2, PlanGraphAssumption
<1> QED BY <1>2, <1>5, <1>6, <1>7, <1>11, <1>12, <1>13

LEMMA AcceptedPlan ==
  ASSUME NEW raw \in RawPlans, Accepts(raw)
  PROVE  /\ 0 < Len(Planned(raw))
         /\ Ids(Planned(raw)) = {Planned(raw)[i].id : i \in 1..Len(Planned(raw))}
         /\ \A i, j \in 1..Len(Planned(raw)) : i # j => Planned(raw)[i].id # Planned(raw)[j].id
         /\ \A i \in 1..Len(Planned(raw)) :
              /\ Planned(raw)[i].deps \subseteq Ids(Planned(raw))
              /\ Planned(raw)[i].deps \subseteq DepsIn(Planned(raw), Planned(raw)[i].id)
         /\ \A left \in SUBSET Ids(Planned(raw)) :
              left # {} => \E n \in left : DepsIn(Planned(raw), n) \cap left = {}
<1> DEFINE p == Planned(raw)
<1>1. PICK S : p \in Seq(S)
  BY PlanShape
<1>2. DOMAIN p = 1..Len(p) /\ Len(p) \in Nat /\ Len(raw) \in Nat /\ Len(raw) <= Len(p)
  <2>1. DOMAIN p = 1..Len(p)
    <3> HIDE DEF p
    <3> QED BY <1>1
  <2> QED BY <2>1, PlanShape
<1>3. Ids(p) = {p[i].id : i \in 1..Len(p)}
  <2> HIDE DEF p
  <2> QED BY <1>2 DEF Ids
<1>4. \A i \in 1..Len(raw) : /\ p[i].id = raw[i].id
                             /\ p[i].deps = raw[i].deps \cup LastOwners(raw, i)
  BY PlanShape, AutoSequenced
<1>5. \A i \in 1..Len(p) : i > Len(raw) => p[i].deps = {p[j].id : j \in 1..i - 1}
  BY PlanShape
<1>6. /\ Len(raw) > 0
      /\ \A i, j \in 1..Len(raw) : i # j => raw[i].id # raw[j].id
      /\ \A i \in 1..Len(raw) : raw[i].deps \subseteq Ids(raw)
      /\ Acyclic(Ids(p), [id \in Ids(p) |-> DepsIn(p, id)])
  BY AutoSequenced DEF Accepts
<1>7. Ids(raw) = {raw[i].id : i \in 1..Len(raw)}
  BY AutoSequenced DEF Ids
<1> HIDE DEF p
<1>8. \A i \in 1..Len(p) : p[i].deps \subseteq DepsIn(p, p[i].id)
  BY <1>2 DEF DepsIn
<1>9. \A left \in SUBSET Ids(p) : left # {} => \E n \in left : DepsIn(p, n) \cap left = {}
  <2> SUFFICES ASSUME NEW left \in SUBSET Ids(p), left # {}
               PROVE  \E n \in left : DepsIn(p, n) \cap left = {}
    OBVIOUS
  <2>1. PICK n \in left : [id \in Ids(p) |-> DepsIn(p, id)][n] \cap left = {}
    BY <1>6 DEF Acyclic
  <2> QED BY <2>1
<1>10. \A i \in 1..Len(p) : p[i].deps \subseteq Ids(p)
  <2> SUFFICES ASSUME NEW i \in 1..Len(p), NEW d \in p[i].deps
               PROVE  \E j \in 1..Len(p) : d = p[j].id
    BY <1>3
  <2>1. CASE i > Len(raw)
    BY <1>2, <1>5, <2>1
  <2>2. CASE ~(i > Len(raw))
    <3>1. i \in 1..Len(raw)
      BY <1>2, <2>2
    <3>2. \E j \in 1..Len(raw) : d = raw[j].id
      <4>1. d \in raw[i].deps \/ d \in LastOwners(raw, i)
        BY <1>4, <3>1
      <4>2. CASE d \in raw[i].deps
        BY <1>6, <1>7, <3>1, <4>2
      <4>3. CASE d \in LastOwners(raw, i)
        <5>1. PICK j \in 1..i - 1 : d = raw[j].id
          BY <4>3 DEF LastOwners
        <5>2. j \in 1..Len(raw)
          BY <3>1, <1>2
        <5> QED BY <5>1, <5>2
      <4> QED BY <4>1, <4>2, <4>3
    <3>3. PICK j \in 1..Len(raw) : d = raw[j].id
      BY <3>2
    <3>4. j \in 1..Len(p) /\ p[j].id = d
      BY <1>2, <1>4, <3>3
    <3> QED BY <3>4
  <2> QED BY <2>1, <2>2
<1>11. ASSUME NEW i \in 1..Len(p), NEW j \in 1..Len(p), i < j, p[i].id = p[j].id
       PROVE  FALSE
  <2>1. CASE j > Len(raw)
    <3>1. i \in 1..j - 1
      BY <1>2, <1>11
    <3>2. p[j].id \in p[j].deps
      BY <1>5, <1>11, <2>1, <3>1
    <3>3. p[j].id \in DepsIn(p, p[j].id)
      BY <1>8, <3>2
    <3>4. {p[j].id} \in SUBSET Ids(p)
      BY <1>3
    <3> QED BY <1>9, <3>3, <3>4
  <2>2. CASE ~(j > Len(raw))
    <3>1. i \in 1..Len(raw) /\ j \in 1..Len(raw) /\ i # j
      BY <1>2, <1>11, <2>2
    <3> QED BY <1>4, <1>6, <1>11, <3>1
  <2> QED BY <2>1, <2>2
<1>12. \A i, j \in 1..Len(p) : i # j => p[i].id # p[j].id
  <2> TAKE i, j \in 1..Len(p)
  <2>1. i # j => i < j \/ j < i
    BY <1>2
  <2> QED BY <2>1, <1>11
<1>13. 0 < Len(p)
  BY <1>2, <1>6
<1> QED BY <1>3, <1>8, <1>9, <1>10, <1>12, <1>13 DEF p

(* Once a later owner of a file may start, every earlier one is done, if    *)
(* what was done was done in order.                                         *)
LEMMA OwnersAreChained ==
  ASSUME NEW raw \in RawPlans, NEW f, NEW done,
         NEW i \in 1..Len(raw), NEW j \in 1..Len(raw), i < j,
         f \in raw[i].files, f \in raw[j].files,
         \A k \in 1..j : f \in raw[k].files /\ raw[k].id \in done => LastOwners(raw, k) \subseteq done,
         LastOwners(raw, j) \subseteq done
  PROVE  raw[i].id \in done
<1> SUFFICES ASSUME raw[i].id \notin done
             PROVE  FALSE
  OBVIOUS
<1>0. Len(raw) \in Nat
  BY AutoSequenced
<1> DEFINE K == {k \in 1..j - 1 : f \in raw[k].files /\ raw[k].id \notin done}
<1>1. i \in K /\ K \in SUBSET Nat /\ (\A k \in K : k <= j) /\ j \in Nat
  BY <1>0
<1>2. PICK k \in K : \A l \in K : l <= k
  <2> HIDE DEF K
  <2> QED BY <1>1, BoundedHasMax
<1> DEFINE L == {l \in k + 1..j : f \in raw[l].files}
<1>3. j \in L /\ L \in SUBSET Nat
  BY <1>1, <1>2
<1>4. PICK l \in L : \A m \in L : l <= m
  <2> HIDE DEF L
  <2> QED BY <1>3, NatHasMin
<1>5. /\ k \in 1..j - 1 /\ f \in raw[k].files /\ raw[k].id \notin done
      /\ l \in k + 1..j /\ f \in raw[l].files
  BY <1>2, <1>4
<1>6. \A m \in k + 1..l - 1 : f \notin raw[m].files
  <2> SUFFICES ASSUME NEW m \in k + 1..l - 1, f \in raw[m].files
               PROVE  FALSE
    OBVIOUS
  <2>1. m \in k + 1..j /\ ~(l <= m)
    BY <1>1, <1>5
  <2> QED BY <1>4, <2>1
<1>7. k \in 1..l - 1
  BY <1>1, <1>5
<1>8. raw[k].id \in LastOwners(raw, l)
  BY <1>5, <1>6, <1>7 DEF LastOwners
<1>9. CASE l = j
  BY <1>5, <1>8, <1>9
<1>10. CASE l # j
  <2>1. l \in 1..j - 1 /\ ~(l <= k) /\ l \in 1..j
    BY <1>1, <1>5, <1>10
  <2>2. l \notin K
    BY <1>2, <2>1
  <2>3. raw[l].id \in done
    BY <1>5, <2>1, <2>2
  <2> QED BY <1>5, <1>8, <2>1, <2>3
<1> QED BY <1>9, <1>10

(* --- the plan: what steps do to the table ------------------------------------------ *)

StoryStatus == {"draft", "working", "merged", "split"}

LEMMA StatusOfStory ==
  ASSUME NEW r, IsStory(r), NEW st \in StoryStatus
  PROVE  /\ IsStory([r EXCEPT !.status = st])
         /\ [r EXCEPT !.status = st].status = st
         /\ [r EXCEPT !.status = st].deps = r.deps
         /\ [r EXCEPT !.status = st].files = r.files
         /\ [r EXCEPT !.status = st].depth = r.depth
BY DEF IsStory, StoryStatus

LEMMA StatusSet ==
  ASSUME PlanTyped, NEW s \in DOMAIN stories, NEW st \in StoryStatus,
         stories' = [stories EXCEPT ![s].status = st]
  PROVE  /\ DOMAIN stories' = DOMAIN stories
         /\ stories' = [x \in DOMAIN stories' |-> stories'[x]]
         /\ \A x \in DOMAIN stories :
              /\ IsStory(stories'[x])
              /\ stories'[x].deps = stories[x].deps /\ stories'[x].files = stories[x].files
              /\ stories'[x].depth = stories[x].depth
              /\ stories'[x].status = IF x = s THEN st ELSE stories[x].status
<1>1. stories = [x \in DOMAIN stories |-> stories[x]] /\ \A x \in DOMAIN stories : IsStory(stories[x])
  BY DEF PlanTyped
<1>2. /\ DOMAIN stories' = DOMAIN stories
      /\ stories' = [x \in DOMAIN stories |->
                       IF x = s THEN [stories[x] EXCEPT !.status = st] ELSE stories[x]]
  BY <1>1
<1>3. \A x \in DOMAIN stories :
        stories'[x] = IF x = s THEN [stories[x] EXCEPT !.status = st] ELSE stories[x]
  BY <1>2
<1>4. stories' = [x \in DOMAIN stories' |-> stories'[x]]
  BY <1>2
<1> QED BY <1>1, <1>2, <1>3, <1>4, StatusOfStory

(* Rows stay as they are but for their statuses; new ones are children.     *)
LEMMA PlanStays ==
  ASSUME FollowsPlan, KidsWaitForNone,
         planPhase \in {"down", "up", "wave", "delivered"},
         planPhase' \in {"down", "up", "wave", "delivered"}, planCut' = planCut,
         DOMAIN stories \subseteq DOMAIN stories',
         \A x \in DOMAIN stories :
           /\ stories'[x].deps = stories[x].deps /\ stories'[x].files = stories[x].files
           /\ stories'[x].depth = stories[x].depth,
         \A x \in DOMAIN stories' \ DOMAIN stories :
           stories'[x].depth # 0 /\ stories'[x].deps = {}
  PROVE  FollowsPlan' /\ KidsWaitForNone'
<1>1. PICK raw \in RawPlans : Accepts(raw) /\ \E n \in 0..Len(Planned(raw)) : AsPlanned(Planned(raw), n)
  BY DEF FollowsPlan
<1>2. PICK n \in 0..Len(Planned(raw)) : AsPlanned(Planned(raw), n)
  BY <1>1
<1>3. AsPlanned(Planned(raw), n)'
  BY <1>2 DEF AsPlanned
<1>4. FollowsPlan'
  BY <1>1, <1>3 DEF FollowsPlan
<1>5. KidsWaitForNone'
  BY DEF KidsWaitForNone
<1> QED BY <1>4, <1>5

LEMMA PlanningSteps ==
  ASSUME PlanInv, Plan
  PROVE  PlanInv'
<1> USE DEF PlanInv
<1>1. planPhase = "unplanned" /\ stories = <<>> /\ ~planCut
      /\ UNCHANGED <<stories, planCut, graph, waveDone, intercept, tracked, agents, runs,
                     splits, rawUsed, early>>
  BY DEF Plan, FollowsPlan, Idle
<1>2. PICK raw \in RawPlans :
        IF Accepts(raw) THEN planPhase' = "creating" /\ toCreate' = Planned(raw)
        ELSE planPhase' = "refused" /\ UNCHANGED toCreate
  BY DEF Plan
<1>3. planPhase' \in {"creating", "refused"}
  BY <1>2
<1>4. PlanTyped'
  BY <1>1, <1>3 DEF PlanTyped, PlanPhase
<1>5. ProcessHolds'
  BY <1>1, <1>3 DEF ProcessHolds, Complete
<1>6. KidsWaitForNone' /\ GraphHolds' /\ StartedInOrder'
  BY <1>1, <1>3 DEF KidsWaitForNone, GraphHolds, StartedInOrder, Complete
<1>7. FirstRunAgrees'
  BY <1>1, <1>3 DEF FirstRunAgrees, Conflict
<1>8. FollowsPlan'
  <2>1. CASE ~Accepts(raw)
    BY <1>1, <1>2, <2>1 DEF FollowsPlan
  <2>2. CASE Accepts(raw)
    <3> DEFINE p == Planned(raw)
    <3>1. p \in Seq({p[i] : i \in DOMAIN p}) /\ 0 < Len(p) /\ Len(p) \in Nat
      <4>1. PICK S : p \in Seq(S)
        BY PlanShape
      <4>2. 0 < Len(p) /\ Len(p) \in Nat
        BY <2>2, PlanShape, AcceptedPlan
      <4> HIDE DEF p
      <4> QED BY <4>1, <4>2
    <3>2. planPhase' = "creating" /\ toCreate' = p
      BY <1>2, <2>2
    <3> HIDE DEF p
    <3>3. SubSeq(p, 0 + 1, Len(p)) = p
      BY <3>1
    <3>4. AsPlanned(p, 0)'
      BY <1>1, <3>1, <3>2, <3>3 DEF AsPlanned
    <3>5. 0 \in 0..Len(p)
      BY <3>1
    <3> QED BY <2>2, <3>2, <3>4, <3>5 DEF FollowsPlan, p
  <2> QED BY <2>1, <2>2
<1> QED BY <1>4, <1>5, <1>6, <1>7, <1>8

LEMMA PlanFailsKeeps ==
  ASSUME PlanInv, PlanFails
  PROVE  PlanInv'
<1> USE DEF PlanInv
<1>1. planPhase = "creating" /\ planPhase' = "down" /\ planCut' = TRUE
      /\ UNCHANGED <<stories, graph, waveDone, intercept, tracked, agents, runs,
                     splits, rawUsed, early>>
  BY DEF PlanFails, Idle
<1>4. PlanTyped'
  BY <1>1 DEF PlanTyped, PlanPhase
<1>5. ProcessHolds'
  BY <1>1 DEF ProcessHolds, Complete
<1>6. KidsWaitForNone' /\ GraphHolds' /\ StartedInOrder'
  BY <1>1 DEF KidsWaitForNone, GraphHolds, StartedInOrder, Complete
<1>7. FirstRunAgrees'
  BY <1>1 DEF FirstRunAgrees, Conflict
<1>8. FollowsPlan'
  <2>1. PICK raw \in RawPlans : Accepts(raw) /\ \E n \in 0..Len(Planned(raw)) : AsPlanned(Planned(raw), n)
    BY <1>1 DEF FollowsPlan
  <2>2. PICK n \in 0..Len(Planned(raw)) : AsPlanned(Planned(raw), n)
    BY <2>1
  <2>3. AsPlanned(Planned(raw), n)'
    BY <1>1, <2>2 DEF AsPlanned
  <2> QED BY <1>1, <2>1, <2>3 DEF FollowsPlan
<1> QED BY <1>4, <1>5, <1>6, <1>7, <1>8

LEMMA NewStoryIsStory ==
  ASSUME NEW deps, NEW files, NEW seq, NEW depth \in Nat
  PROVE  /\ IsStory(NewStory(deps, files, seq, depth))
         /\ NewStory(deps, files, seq, depth).deps = deps
         /\ NewStory(deps, files, seq, depth).files = files
         /\ NewStory(deps, files, seq, depth).depth = depth
         /\ NewStory(deps, files, seq, depth).status = "draft"
BY DEF IsStory, NewStory

LEMMA NextOfPlan ==
  ASSUME NEW S, NEW p \in Seq(S), NEW n \in Nat, n < Len(p)
  PROVE  /\ Head(SubSeq(p, n + 1, Len(p))) = p[n + 1]
         /\ Tail(SubSeq(p, n + 1, Len(p))) = SubSeq(p, (n + 1) + 1, Len(p))
         /\ Len(SubSeq(p, n + 1, Len(p))) = Len(p) - n
<1>1. Len(p) \in Nat
  OBVIOUS
<1> DEFINE q == SubSeq(p, n + 1, Len(p))
<1>2. q = [i \in 1..Len(p) - n |-> p[n + i]]
  BY <1>1
<1>3. q \in Seq(S) /\ Len(q) = Len(p) - n
  BY <1>1, <1>2
<1>4. Head(q) = p[n + 1]
  BY <1>1, <1>2, <1>3
<1>5. Tail(q) = [i \in 1..Len(p) - (n + 1) |-> p[(n + 1) + i]]
  BY <1>1, <1>2, <1>3
<1>6. SubSeq(p, (n + 1) + 1, Len(p)) = [i \in 1..Len(p) - (n + 1) |-> p[(n + 1) + i]]
  BY <1>1
<1> QED BY <1>3, <1>4, <1>5, <1>6

LEMMA CreateStoryKeeps ==
  ASSUME PlanInv, CreateStory
  PROVE  PlanInv'
<1> USE DEF PlanInv
<1>1. /\ planPhase = "creating"
      /\ UNCHANGED <<planCut, graph, waveDone, intercept, tracked, agents, runs, splits,
                     rawUsed, early>>
  BY DEF CreateStory, Idle
<1>2. PICK raw \in RawPlans : Accepts(raw) /\ \E n \in 0..Len(Planned(raw)) : AsPlanned(Planned(raw), n)
  BY <1>1 DEF FollowsPlan
<1> DEFINE p == Planned(raw)
<1>3. PICK n \in 0..Len(p) : AsPlanned(p, n)
  BY <1>2
<1>4. PICK S : p \in Seq(S)
  BY PlanShape
<1>5. Len(p) \in Nat /\ \A i, j \in 1..Len(p) : i # j => p[i].id # p[j].id
  BY <1>2, PlanShape, AcceptedPlan
<1> HIDE DEF p
<1>6. /\ n < Len(p) /\ toCreate = SubSeq(p, n + 1, Len(p)) /\ ~planCut
      /\ \A s \in DOMAIN stories : stories[s].depth = 0
  BY <1>1, <1>3 DEF AsPlanned
<1> DEFINE s == p[n + 1]
           row == NewStory(s.deps, s.files, s.seq, 0)
<1>7. Head(toCreate) = s /\ Tail(toCreate) = SubSeq(p, (n + 1) + 1, Len(p))
      /\ Len(toCreate) = Len(p) - n
  <2>1. n \in Nat
    BY <1>5
  <2> QED BY <2>1, <1>4, <1>6, NextOfPlan
<1>8. /\ IsStory(row) /\ row.deps = s.deps /\ row.files = s.files /\ row.depth = 0
      /\ row.status = "draft"
  BY NewStoryIsStory
<1>9. stories' = WithStory(stories, s.id, row)
  BY <1>7 DEF CreateStory
<1> HIDE DEF row, s
<1>10. s.id \notin DOMAIN stories
  <2> SUFFICES ASSUME s.id \in DOMAIN stories PROVE FALSE
    OBVIOUS
  <2>1. PICK i \in 1..n : p[i].id = s.id
    BY <1>3, <1>6 DEF AsPlanned
  <2>2. i \in 1..Len(p) /\ n + 1 \in 1..Len(p) /\ i # n + 1
    BY <1>5, <1>6
  <2> QED BY <1>5, <2>1, <2>2 DEF s
<1>11. /\ DOMAIN stories' = DOMAIN stories \cup {s.id}
       /\ stories' = [x \in DOMAIN stories' |-> stories'[x]]
       /\ stories'[s.id] = row
       /\ \A x \in DOMAIN stories : stories'[x] = stories[x]
  BY <1>9, <1>10 DEF WithStory
<1>12. planPhase' = IF Len(p) - n = 1 THEN "down" ELSE "creating"
  BY <1>7 DEF CreateStory
<1>13. toCreate' = SubSeq(p, (n + 1) + 1, Len(p))
  BY <1>7 DEF CreateStory
<1>14. PlanTyped'
  BY <1>1, <1>8, <1>11, <1>12 DEF PlanTyped, PlanPhase
<1>15. runs = 0 /\ agents = {} /\ tracked = {} /\ intercept = {}
       /\ \A x \in DOMAIN stories : stories[x].status = "draft"
  BY <1>1 DEF ProcessHolds
<1>16. \A x \in DOMAIN stories' : stories'[x].status = "draft" /\ stories'[x].depth = 0
  BY <1>6, <1>8, <1>11, <1>15
<1>17. ProcessHolds'
  BY <1>1, <1>12, <1>15, <1>16 DEF ProcessHolds
<1>18. KidsWaitForNone' /\ GraphHolds'
  BY <1>12, <1>16 DEF KidsWaitForNone, GraphHolds
<1>19. StartedInOrder' /\ FirstRunAgrees'
  BY <1>1, <1>12, <1>15, <1>16 DEF StartedInOrder, FirstRunAgrees
<1>20. AsPlanned(p, n + 1)'
  <2>1. n + 1 \in 0..Len(p) /\ n \in Nat /\ Len(p) \in Nat
    BY <1>5, <1>6
  <2>2. \A i \in 1..n + 1 : i \in 1..n \/ i = n + 1
    BY <2>1
  <2>3. \A i \in 1..n + 1 :
          /\ p[i].id \in DOMAIN stories'
          /\ stories'[p[i].id].depth = 0
          /\ stories'[p[i].id].deps = p[i].deps
          /\ stories'[p[i].id].files = p[i].files
    BY <1>3, <1>8, <1>11, <2>2 DEF AsPlanned, s
  <2>4. ASSUME NEW x \in DOMAIN stories'
        PROVE  \E i \in 1..n + 1 : p[i].id = x
    <3>1. CASE x \in DOMAIN stories
      <4>1. PICK i \in 1..n : p[i].id = x
        BY <1>3, <1>6, <3>1 DEF AsPlanned
      <4>2. i \in 1..n + 1
        BY <2>1
      <4> QED BY <4>1, <4>2
    <3>2. CASE x = s.id
      <4>1. n + 1 \in 1..n + 1
        BY <2>1
      <4> QED BY <3>2, <4>1 DEF s
    <3> QED BY <1>11, <3>1, <3>2
  <2>5. planPhase' = "creating" => n + 1 < Len(p)
    BY <1>12, <1>6, <2>1
  <2>6. planPhase' # "creating" => n + 1 = Len(p)
    BY <1>12, <2>1
  <2>7. ~planCut'
    BY <1>1, <1>6
  <2> QED BY <1>13, <1>16, <2>1, <2>3, <2>4, <2>5, <2>6, <2>7 DEF AsPlanned
<1>21. FollowsPlan'
  <2>1. n + 1 \in 0..Len(p) /\ planPhase' \notin {"unplanned", "refused"}
    BY <1>5, <1>6, <1>12
  <2> QED BY <1>2, <1>20, <2>1 DEF FollowsPlan, p
<1> QED BY <1>14, <1>17, <1>18, <1>19, <1>21

(* What the tables hold of an uncut plan never waits in a circle.           *)
LEMMA StoredAcyclic ==
  ASSUME PlanInv, planPhase = "down", ~planCut
  PROVE  LET stored == UNION {{s} \X stories[s].deps : s \in DOMAIN stories}
         IN stored \subseteq (DOMAIN stories) \X (DOMAIN stories) /\ NoCycle(DOMAIN stories, stored)
<1> DEFINE stored == UNION {{s} \X stories[s].deps : s \in DOMAIN stories}
<1>1. PICK raw \in RawPlans : Accepts(raw) /\ \E n \in 0..Len(Planned(raw)) : AsPlanned(Planned(raw), n)
  BY DEF PlanInv, FollowsPlan
<1> DEFINE p == Planned(raw)
<1>2. AsPlanned(p, Len(p))
  <2>1. PICK n \in 0..Len(p) : AsPlanned(p, n)
    BY <1>1
  <2>2. n = Len(p)
    BY <2>1 DEF AsPlanned
  <2> QED BY <2>1, <2>2
<1>3. /\ Ids(p) = {p[i].id : i \in 1..Len(p)}
      /\ \A i \in 1..Len(p) : p[i].deps \subseteq Ids(p) /\ p[i].deps \subseteq DepsIn(p, p[i].id)
      /\ \A left \in SUBSET Ids(p) : left # {} => \E n \in left : DepsIn(p, n) \cap left = {}
  BY <1>1, AcceptedPlan
<1> HIDE DEF p
<1>4. Ids(p) \subseteq DOMAIN stories
  BY <1>2, <1>3 DEF AsPlanned
<1>5. ASSUME NEW s \in DOMAIN stories, NEW d \in stories[s].deps
      PROVE  /\ s \in Ids(p) /\ d \in Ids(p) /\ d \in DepsIn(p, s)
  <2>1. stories[s].depth = 0
    <3>1. stories[s].depth \in Nat
      BY DEF PlanInv, PlanTyped, IsStory
    <3> QED BY <1>5, <3>1 DEF PlanInv, KidsWaitForNone
  <2>2. PICK i \in 1..Len(p) : p[i].id = s
    BY <1>2, <2>1 DEF AsPlanned
  <2>3. d \in p[i].deps
    BY <1>2, <1>5, <2>2 DEF AsPlanned
  <2> QED BY <1>3, <2>2, <2>3
<1>6. \A e \in stored : \E s \in DOMAIN stories : \E d \in stories[s].deps : e = <<s, d>>
  OBVIOUS
<1>7. stored \subseteq (DOMAIN stories) \X (DOMAIN stories)
  <2> SUFFICES ASSUME NEW e \in stored
               PROVE  e \in (DOMAIN stories) \X (DOMAIN stories)
    OBVIOUS
  <2>1. PICK s \in DOMAIN stories : \E d \in stories[s].deps : e = <<s, d>>
    BY <1>6
  <2> HIDE DEF stored
  <2>2. PICK d \in stories[s].deps : e = <<s, d>>
    BY <2>1
  <2>3. d \in DOMAIN stories
    BY <1>4, <1>5
  <2>4. <<s, d>> \in (DOMAIN stories) \X (DOMAIN stories)
    BY <2>1, <2>3
  <2> QED BY <2>2, <2>4, Zenon
<1>8. \A s, d : <<s, d>> \in stored => s \in DOMAIN stories /\ d \in stories[s].deps
  <2>1. SUFFICES ASSUME NEW s, NEW d, <<s, d>> \in stored
                 PROVE  s \in DOMAIN stories /\ d \in stories[s].deps
    OBVIOUS
  <2>2. PICK x \in DOMAIN stories : \E y \in stories[x].deps : <<s, d>> = <<x, y>>
    BY <1>6, <2>1
  <2> QED BY <2>2
<1>9. NoCycle(DOMAIN stories, stored)
  <2> HIDE DEF stored
  <2> SUFFICES ASSUME NEW left \in SUBSET DOMAIN stories, left # {}
               PROVE  \E n \in left : \A m \in left : <<n, m>> \notin stored
    BY DEF NoCycle
  <2>1. CASE \E k \in left : k \notin Ids(p)
    BY <1>5, <1>8, <2>1
  <2>2. CASE left \subseteq Ids(p)
    <3>1. PICK n \in left : DepsIn(p, n) \cap left = {}
      BY <1>3, <2>2
    <3> QED BY <1>5, <1>8, <3>1
  <2> QED BY <2>1, <2>2
<1> QED BY <1>7, <1>9

LEMMA ResumeRunKeeps ==
  ASSUME PlanInv, ResumeRun
  PROVE  PlanInv'
<1> USE DEF PlanInv
<1> DEFINE stored == UNION {{s} \X stories[s].deps : s \in DOMAIN stories}
<1>1. /\ planPhase = "down" /\ planPhase' = "up" /\ runs' = runs + 1
      /\ graph' = [nodes |-> DOMAIN stories, edges |-> stored]
      /\ tracked' = {s \in DOMAIN stories \ agents : stories[s].status = "working"}
      /\ UNCHANGED <<stories, waveDone, intercept, agents, splits, planCut, rawUsed, early>>
  BY DEF ResumeRun
<1>2. intercept = {} /\ runs \in Nat
  BY <1>1 DEF ProcessHolds, PlanTyped
<1>3. PlanTyped'
  BY <1>1 DEF PlanTyped, PlanPhase
<1>4. runs' # 0
  BY <1>1, <1>2
<1>5. ProcessHolds'
  BY <1>1, <1>2, <1>4 DEF ProcessHolds, Complete
<1>6. FollowsPlan' /\ KidsWaitForNone'
  BY <1>1, PlanStays
<1>7. GraphHolds'
  <2>1. graph'.nodes = DOMAIN stories /\ graph'.edges = stored
    BY <1>1
  <2>2. \A s \in DOMAIN stories : {s} \X stories[s].deps \subseteq stored
    OBVIOUS
  <2>3. ~planCut => stored \subseteq (DOMAIN stories) \X (DOMAIN stories) /\ NoCycle(DOMAIN stories, stored)
    BY <1>1, StoredAcyclic
  <2> HIDE DEF stored
  <2> HIDE DEF stored
  <2>4. /\ graph'.nodes = DOMAIN stories'
        /\ \A s \in DOMAIN stories' : {s} \X stories'[s].deps \subseteq graph'.edges
    BY <1>1, <2>1, <2>2
  <2>5. ~planCut' =>
          graph'.edges \subseteq graph'.nodes \X graph'.nodes /\ NoCycle(graph'.nodes, graph'.edges)
    <3>1. planCut' = planCut
      BY <1>1
    <3>2. ASSUME ~planCut
          PROVE  /\ graph'.edges \subseteq graph'.nodes \X graph'.nodes
                 /\ NoCycle(graph'.nodes, graph'.edges)
      BY <2>1, <2>3, <3>2, SMT
    <3> QED BY <3>1, <3>2
  <2> QED BY <2>4, <2>5 DEF GraphHolds
<1>8. StartedInOrder'
  BY <1>1, <1>2 DEF StartedInOrder, Complete
<1>9. FirstRunAgrees'
  <2> SUFFICES ASSUME runs' <= 1
               PROVE  /\ agents' = tracked'
                      /\ \A s, t \in agents' : s # t => ~Conflict(s, t)'
    BY DEF FirstRunAgrees
  <2>1. runs = 0
    BY <1>1, <1>2
  <2>2. agents = {} /\ \A s \in DOMAIN stories : stories[s].status = "draft"
    BY <2>1 DEF ProcessHolds
  <2> QED BY <1>1, <2>2
<1> QED BY <1>3, <1>5, <1>6, <1>7, <1>8, <1>9

(* A story that is ready, in the graph of the process, has what the tables  *)
(* say it depends on.                                                       *)
LEMMA ReadyHasDeps ==
  ASSUME PlanInv, planPhase \in {"up", "wave"}, NEW done, NEW s \in ReadyStories(done)
  PROVE  s \in DOMAIN stories /\ s \notin done /\ stories[s].deps \subseteq done
<1>1. s \in graph.nodes \ done /\ DependsOn[s] \subseteq done
  BY DEF ReadyStories, ReadyIn
<1>2. graph.nodes = DOMAIN stories /\ {s} \X stories[s].deps \subseteq graph.edges
  BY <1>1 DEF PlanInv, GraphHolds
<1>3. ASSUME NEW d \in stories[s].deps
      PROVE  d \in done
  <2>1. <<s, d>> \in graph.edges
    BY <1>2
  <2>2. d \in DependsOn[s]
    BY <1>1, <2>1 DEF DependsOn
  <2> QED BY <1>1, <2>2
<1> QED BY <1>1, <1>2, <1>3

LEMMA EnterWaveKeeps ==
  ASSUME PlanInv, EnterWave
  PROVE  PlanInv'
<1> USE DEF PlanInv
<1>1. /\ planPhase = "up" /\ tracked = {} /\ planPhase' \in {"wave", "delivered"}
      /\ intercept' \subseteq ReadyStories(Complete)
      /\ intercept' # {} => planPhase' = "wave"
      /\ UNCHANGED <<stories, graph, tracked, agents, runs, splits, planCut, rawUsed, early>>
  BY DEF EnterWave
<1>2. \A s \in intercept' :
        s \in DOMAIN stories /\ s \notin Complete /\ stories[s].deps \subseteq Complete
  BY <1>1, ReadyHasDeps
<1>3. PlanTyped'
  BY <1>1, <1>2 DEF PlanTyped, PlanPhase
<1>4. ProcessHolds'
  BY <1>1, <1>2 DEF ProcessHolds, Complete
<1>5. FollowsPlan' /\ KidsWaitForNone'
  BY <1>1, PlanStays
<1>6. GraphHolds'
  BY <1>1 DEF GraphHolds, NoCycle
<1>7. StartedInOrder'
  BY <1>1, <1>2 DEF StartedInOrder, Complete
<1>8. FirstRunAgrees'
  BY <1>1 DEF FirstRunAgrees, Conflict
<1> QED BY <1>3, <1>4, <1>5, <1>6, <1>7, <1>8

(* While a wave is under way nothing is tracked.                            *)
LEMMA Intercepting ==
  ASSUME PlanInv, NEW s \in intercept
  PROVE  /\ planPhase = "wave" /\ tracked = {} /\ s \in DOMAIN stories
         /\ stories[s].status \in {"draft", "working"} /\ s \notin Complete
         /\ stories[s].deps \subseteq Complete
         /\ runs # 0
         /\ runs <= 1 => agents = {}
<1>1. planPhase = "wave" /\ tracked = {} /\ s \in DOMAIN stories /\ s \notin Complete
  BY DEF PlanInv, ProcessHolds, PlanTyped
<1>2. stories[s].status \in {"draft", "working"}
  BY <1>1 DEF PlanInv, PlanTyped, IsStory, Complete
<1>3. runs <= 1 => agents = {}
  BY <1>1 DEF PlanInv, FirstRunAgrees
<1>4. stories[s].deps \subseteq Complete
  BY DEF PlanInv, StartedInOrder
<1>5. runs # 0
  BY <1>1 DEF PlanInv, ProcessHolds
<1> QED BY <1>1, <1>2, <1>3, <1>4, <1>5

LEMMA HandleOtherwiseKeeps ==
  ASSUME PlanInv, NEW s, HandleOtherwise(s)
  PROVE  PlanInv'
<1> USE DEF PlanInv
<1>1. /\ s \in intercept /\ intercept' = intercept \ {s}
      /\ UNCHANGED <<planPhase, tracked, agents, runs, planCut, early, graph, splits, rawUsed>>
      /\ \/ stories' = [stories EXCEPT ![s].status = "draft"]
         \/ UNCHANGED stories
  BY DEF HandleOtherwise, Handled
<1>2. /\ planPhase = "wave" /\ tracked = {} /\ s \in DOMAIN stories
      /\ s \notin Complete /\ runs # 0 /\ (runs <= 1 => agents = {})
  BY <1>1, Intercepting
<1>3. /\ DOMAIN stories' = DOMAIN stories
      /\ stories' = [x \in DOMAIN stories' |-> stories'[x]]
      /\ \A x \in DOMAIN stories :
           /\ IsStory(stories'[x])
           /\ stories'[x].deps = stories[x].deps /\ stories'[x].files = stories[x].files
           /\ stories'[x].depth = stories[x].depth
           /\ \/ stories'[x].status = stories[x].status
              \/ x = s /\ stories'[x].status = "draft"
  <2>1. CASE UNCHANGED stories
    BY <2>1 DEF PlanTyped
  <2>2. CASE stories' = [stories EXCEPT ![s].status = "draft"]
    <3>1. "draft" \in StoryStatus
      BY DEF StoryStatus
    <3>2. /\ DOMAIN stories' = DOMAIN stories
          /\ stories' = [x \in DOMAIN stories' |-> stories'[x]]
          /\ \A x \in DOMAIN stories :
               /\ IsStory(stories'[x])
               /\ stories'[x].deps = stories[x].deps /\ stories'[x].files = stories[x].files
               /\ stories'[x].depth = stories[x].depth
               /\ stories'[x].status = IF x = s THEN "draft" ELSE stories[x].status
      BY <1>2, <2>2, <3>1, StatusSet
    <3> QED BY <3>2
  <2>3. UNCHANGED stories \/ stories' = [stories EXCEPT ![s].status = "draft"]
    BY <1>1
  <2> QED BY <2>1, <2>2, <2>3, Zenon
<1>4. Complete' = Complete
  <2>1. \A x \in DOMAIN stories :
          stories'[x].status \in {"merged", "split"} <=> stories[x].status \in {"merged", "split"}
    <3>1. stories[s].status \notin {"merged", "split"}
      BY <1>2 DEF Complete
    <3>2. \A x \in DOMAIN stories :
            \/ stories'[x].status = stories[x].status
            \/ x = s /\ stories'[x].status = "draft"
      BY <1>3
    <3> QED BY <3>1, <3>2
  <2> QED BY <1>3, <2>1 DEF Complete
<1>5. PlanTyped'
  BY <1>1, <1>3 DEF PlanTyped
<1>6. ProcessHolds'
  BY <1>1, <1>2, <1>3, <1>4 DEF ProcessHolds
<1>7. FollowsPlan' /\ KidsWaitForNone'
  BY <1>1, <1>2, <1>3, PlanStays
<1>8. GraphHolds'
  BY <1>1, <1>2, <1>3 DEF GraphHolds, NoCycle
<1>9. StartedInOrder'
  <2>1. intercept \subseteq DOMAIN stories
    BY DEF PlanTyped
  <2>2. \A x \in DOMAIN stories :
          stories'[x].status # "draft" => stories[x].status # "draft"
    BY <1>3
  <2> QED BY <1>1, <1>3, <1>4, <2>1, <2>2 DEF StartedInOrder
<1>10. FirstRunAgrees'
  BY <1>1, <1>2 DEF FirstRunAgrees
<1> QED BY <1>5, <1>6, <1>7, <1>8, <1>9, <1>10

(* A split, whoever orders it: rows that were there stay, but for the       *)
(* parent's status; the children are drafts that wait for none.             *)
LEMMA Splitting ==
  ASSUME PlanInv, NEW s, CanSplit(s), Handled(s), NEW kids, NEW files, NEW new,
         ApplySplit(s, kids, files, new),
         rawUsed' \in BOOLEAN,
         ~planCut /\ ~rawUsed' =>
           /\ ~rawUsed /\ kids \cap DOMAIN stories = {}
           /\ \/ new = {}
              \/ \E k, l : new = {<<k, l>>} /\ k # l /\ kids = {k, l}
  PROVE  PlanInv'
<1> USE DEF PlanInv
<1>1. /\ s \in intercept /\ intercept' = intercept \ {s}
      /\ UNCHANGED <<planPhase, tracked, agents, runs, planCut, early>>
  BY DEF Handled
<1>2. /\ planPhase = "wave" /\ tracked = {} /\ s \in DOMAIN stories
      /\ s \notin Complete /\ runs # 0 /\ (runs <= 1 => agents = {})
      /\ stories[s].deps \subseteq Complete
  BY <1>1, Intercepting
<1> DEFINE row(k) == NewStory({}, files[k], FALSE, stories[s].depth + 1)
           created == [x \in DOMAIN stories \cup kids |->
                         IF x \in DOMAIN stories THEN stories[x] ELSE row(x)]
<1>3. /\ stories' = [created EXCEPT ![s].status = "split", ![s].kids = kids]
      /\ graph' = [nodes |-> graph.nodes \cup kids, edges |-> graph.edges \cup new]
  BY DEF ApplySplit
<1>4. PICK d \in Nat : d = stories[s].depth + 1 /\ d # 0
  BY <1>2 DEF PlanTyped, IsStory
<1>5. \A k : /\ IsStory(row(k)) /\ row(k).deps = {} /\ row(k).depth # 0
             /\ row(k).status = "draft"
  <2> TAKE k
  <2>1. row(k) = NewStory({}, files[k], FALSE, d)
    BY <1>4
  <2> HIDE DEF row
  <2> DEFINE new1 == NewStory({}, files[k], FALSE, d)
  <2>2. /\ IsStory(new1) /\ new1.deps = {} /\ new1.depth = d /\ new1.status = "draft"
    BY <1>4 DEF IsStory, NewStory
  <2> HIDE DEF new1
  <2>3. row(k) = new1
    BY <2>1 DEF new1
  <2> QED BY <1>4, <2>2, <2>3
<1> HIDE DEF row
<1>6. \A x \in DOMAIN stories \cup kids :
        created[x] = IF x \in DOMAIN stories THEN stories[x] ELSE row(x)
  OBVIOUS
<1>7. /\ DOMAIN stories' = DOMAIN stories \cup kids
      /\ stories' = [x \in DOMAIN stories' |-> stories'[x]]
      /\ \A x \in DOMAIN stories \cup kids : x # s => stories'[x] = created[x]
      /\ stories'[s] = [stories[s] EXCEPT !.status = "split", !.kids = kids]
  BY <1>2, <1>3
<1> HIDE DEF created
<1>8. /\ IsStory(stories'[s]) /\ stories'[s].status = "split"
      /\ stories'[s].deps = stories[s].deps /\ stories'[s].files = stories[s].files
      /\ stories'[s].depth = stories[s].depth
  BY <1>2, <1>7 DEF PlanTyped, IsStory
<1>9. \A x \in DOMAIN stories :
        /\ IsStory(stories'[x])
        /\ stories'[x].deps = stories[x].deps /\ stories'[x].files = stories[x].files
        /\ stories'[x].depth = stories[x].depth
        /\ stories'[x].status = IF x = s THEN "split" ELSE stories[x].status
  BY <1>6, <1>7, <1>8 DEF PlanTyped
<1>10. \A x \in DOMAIN stories' \ DOMAIN stories :
         /\ IsStory(stories'[x]) /\ stories'[x].deps = {} /\ stories'[x].depth # 0
         /\ stories'[x].status = "draft"
  BY <1>2, <1>5, <1>6, <1>7
<1>11. Complete' = Complete \cup {s}
  BY <1>2, <1>7, <1>9, <1>10 DEF Complete
<1>12. PlanTyped'
  <2>1. graph' = [nodes |-> graph'.nodes, edges |-> graph'.edges]
    BY <1>3
  <2>2. \A x \in DOMAIN stories' : IsStory(stories'[x])
    BY <1>9, <1>10
  <2> QED BY <1>1, <1>7, <2>1, <2>2 DEF PlanTyped
<1>13. ProcessHolds'
  BY <1>1, <1>2, <1>11 DEF ProcessHolds
<1>14. FollowsPlan' /\ KidsWaitForNone'
  BY <1>1, <1>2, <1>7, <1>9, <1>10, PlanStays
<1>15. StartedInOrder'
  <2>1. agents \cup early \cup intercept \subseteq DOMAIN stories
    BY DEF PlanTyped
  <2>2. \A x \in DOMAIN stories \ early :
          stories'[x].status # "draft" \/ x \in agents => stories'[x].deps \subseteq Complete'
    BY <1>2, <1>9, <1>11 DEF StartedInOrder
  <2>3. \A x \in intercept : stories'[x].deps \subseteq Complete'
    BY <1>9, <1>11, <2>1 DEF StartedInOrder
  <2> QED BY <1>1, <1>10, <2>1, <2>2, <2>3 DEF StartedInOrder
<1>16. FirstRunAgrees'
  BY <1>1, <1>2 DEF FirstRunAgrees
<1>17. GraphHolds'
  <2>1. graph'.nodes = graph.nodes \cup kids /\ graph'.edges = graph.edges \cup new
    BY <1>3
  <2>2. graph.nodes = DOMAIN stories
    BY <1>2 DEF GraphHolds
  <2>3. \A x \in DOMAIN stories' : {x} \X stories'[x].deps \subseteq graph'.edges
    <3> TAKE x \in DOMAIN stories'
    <3>1. CASE x \in DOMAIN stories
      BY <1>2, <1>9, <2>1, <3>1 DEF GraphHolds
    <3>2. CASE x \notin DOMAIN stories
      <4>1. stories'[x].deps = {}
        BY <1>10, <3>2
      <4> QED BY <4>1
    <3> QED BY <3>1, <3>2
  <2>4. ASSUME ~planCut, ~rawUsed'
        PROVE  /\ graph'.edges \subseteq graph'.nodes \X graph'.nodes
               /\ NoCycle(graph'.nodes, graph'.edges)
    <3>1. /\ graph.edges \subseteq graph.nodes \X graph.nodes
          /\ NoCycle(graph.nodes, graph.edges)
          /\ kids \cap graph.nodes = {}
      BY <1>2, <2>2, <2>4 DEF GraphHolds
    <3>2. \A k, l : <<k, l>> \in graph.edges => k \in graph.nodes /\ l \in graph.nodes
      BY <3>1
    <3>3. CASE new = {}
      <4>1. graph'.edges = graph.edges
        BY <2>1, <3>3
      <4>2. ASSUME NEW left \in SUBSET (graph.nodes \cup kids), left # {}
            PROVE  \E n \in left : \A m \in left : <<n, m>> \notin graph.edges
        <5>1. CASE left \cap graph.nodes = {}
          BY <3>2, <4>2, <5>1
        <5>2. CASE left \cap graph.nodes # {}
          <6>1. PICK n \in left \cap graph.nodes :
                  \A m \in left \cap graph.nodes : <<n, m>> \notin graph.edges
            BY <3>1, <5>2 DEF NoCycle
          <6> QED BY <3>2, <6>1
        <5> QED BY <5>1, <5>2
      <4>3. graph.edges \subseteq (graph.nodes \cup kids) \X (graph.nodes \cup kids)
        BY <3>1
      <4> QED BY <2>1, <4>1, <4>2, <4>3 DEF NoCycle
    <3>4. CASE \E k, l : new = {<<k, l>>} /\ k # l /\ kids = {k, l}
      <4>1. PICK k, l : new = {<<k, l>>} /\ k # l /\ kids = {k, l}
        BY <3>4
      <4>2. \A n, m : <<n, m>> \in graph'.edges <=> (<<n, m>> \in graph.edges \/ (n = k /\ m = l))
        BY <2>1, <4>1
      <4>3. ASSUME NEW left \in SUBSET (graph.nodes \cup kids), left # {}
            PROVE  \E n \in left : \A m \in left : <<n, m>> \notin graph'.edges
        <5>1. CASE left \cap graph.nodes # {}
          <6>1. PICK n \in left \cap graph.nodes :
                  \A m \in left \cap graph.nodes : <<n, m>> \notin graph.edges
            BY <3>1, <5>1 DEF NoCycle
          <6>2. n # k
            BY <3>1, <4>1, <6>1
          <6> QED BY <3>2, <4>2, <6>1, <6>2
        <5>2. CASE left \cap graph.nodes = {} /\ l \in left
          <6>1. \A m : <<l, m>> \notin graph'.edges
            BY <3>1, <3>2, <4>1, <4>2
          <6> QED BY <5>2, <6>1
        <5>3. CASE left \cap graph.nodes = {} /\ l \notin left
          <6>1. k \in left /\ \A m \in left : m # l
            BY <4>1, <4>3, <5>3
          <6>2. \A m \in left : <<k, m>> \notin graph'.edges
            BY <3>1, <3>2, <4>1, <4>2, <6>1
          <6> QED BY <6>1, <6>2
        <5> QED BY <5>1, <5>2, <5>3
      <4>4. graph'.edges \subseteq graph'.nodes \X graph'.nodes
        <5>1. <<k, l>> \in graph'.nodes \X graph'.nodes
          BY <2>1, <4>1
        <5>2. graph.edges \subseteq graph'.nodes \X graph'.nodes
          BY <2>1, <3>1
        <5> QED BY <2>1, <4>1, <5>1, <5>2
      <4> QED BY <2>1, <4>3, <4>4 DEF NoCycle
    <3> QED BY <2>4, <3>3, <3>4
  <2>5. graph'.nodes = DOMAIN stories'
    BY <1>7, <2>1, <2>2
  <2> QED BY <1>1, <2>3, <2>4, <2>5 DEF GraphHolds
<1> QED BY <1>12, <1>13, <1>14, <1>15, <1>16, <1>17

LEMMA ManagerSplitKeeps ==
  ASSUME PlanInv, NEW s, ManagerSplit(s)
  PROVE  PlanInv'
<1>1. PICK kids \in SUBSET (SplitIds \ DOMAIN stories) : \E files \in [kids -> FilesOf] :
        \E edges \in RawEdges :
          /\ ApplySplit(s, kids, files, edges)
          /\ rawUsed' = (rawUsed \/ edges # {})
  BY DEF ManagerSplit
<1>2. PICK files \in [kids -> FilesOf], edges \in RawEdges :
          /\ ApplySplit(s, kids, files, edges)
          /\ rawUsed' = (rawUsed \/ edges # {})
  BY <1>1
<1>3. rawUsed \in BOOLEAN /\ rawUsed' \in BOOLEAN
  BY <1>2 DEF PlanInv, PlanTyped
<1>4. ~rawUsed' => ~rawUsed /\ kids \cap DOMAIN stories = {} /\ edges = {}
  BY <1>2
<1>5. CanSplit(s) /\ Handled(s)
  BY DEF ManagerSplit
<1> QED BY <1>2, <1>3, <1>4, <1>5, Splitting

LEMMA TechLeadSplitKeeps ==
  ASSUME PlanInv, NEW s, TechLeadSplit(s)
  PROVE  PlanInv'
<1>1. PICK k1 \in RePlanIds, k2 \in RePlanIds : \E files \in [{k1, k2} -> FilesOf] :
        /\ k1 # k2
        /\ ApplySplit(s, {k1, k2}, files, Chain(<<k1, k2>>))
        /\ rawUsed' = (rawUsed \/ {k1, k2} \cap DOMAIN stories # {})
  BY DEF TechLeadSplit
<1>2. PICK files \in [{k1, k2} -> FilesOf] :
        /\ k1 # k2
        /\ ApplySplit(s, {k1, k2}, files, Chain(<<k1, k2>>))
        /\ rawUsed' = (rawUsed \/ {k1, k2} \cap DOMAIN stories # {})
  BY <1>1
<1>3. Chain(<<k1, k2>>) = {<<k2, k1>>}
  <2>1. Len(<<k1, k2>>) = 2 /\ 2..2 = {2}
    OBVIOUS
  <2> QED BY <2>1 DEF Chain
<1>4. rawUsed \in BOOLEAN /\ rawUsed' \in BOOLEAN
  BY <1>2 DEF PlanInv, PlanTyped
<1>5. ~rawUsed' => ~rawUsed /\ {k1, k2} \cap DOMAIN stories = {}
  BY <1>2
<1>6. Chain(<<k1, k2>>) = {<<k2, k1>>} /\ k2 # k1 /\ {k1, k2} = {k2, k1}
  BY <1>2, <1>3
<1>7. CanSplit(s) /\ Handled(s)
  BY DEF TechLeadSplit
<1> QED BY <1>2, <1>4, <1>5, <1>6, <1>7, Splitting

LEMMA DispatchWaveKeeps ==
  ASSUME PlanInv, DispatchWave
  PROVE  PlanInv'
<1> USE DEF PlanInv
<1>1. PICK wave \in SUBSET Dispatchable :
        /\ SelectDispatchable(Dispatchable, wave)
        /\ stories' = [s \in DOMAIN stories |->
              IF s \in wave THEN [stories[s] EXCEPT !.status = "working"] ELSE stories[s]]
        /\ tracked' = wave /\ agents' = agents \cup wave
        /\ early' = early \cup {s \in wave : ~(stories[s].deps \subseteq Complete)}
        /\ IF wave = {} THEN EndProcess
           ELSE planPhase' = "up" /\ UNCHANGED <<graph, rawUsed>>
  BY DEF DispatchWave
<1>2. /\ planPhase = "wave" /\ intercept = {} /\ tracked = {}
      /\ UNCHANGED <<intercept, runs, splits, planCut>>
      /\ runs # 0
  BY DEF DispatchWave, ProcessHolds
<1>3. \A s \in wave : s \in DOMAIN stories /\ stories[s].status = "draft"
  BY <1>2, ReadyHasDeps DEF Dispatchable
<1>4. /\ planPhase' \in {"up", "down"}
      /\ wave # {} => planPhase' = "up"
      /\ planPhase' = "up" => UNCHANGED <<graph, rawUsed>>
      /\ UNCHANGED <<graph, rawUsed>> \/ (graph' = NoGraph /\ rawUsed' = FALSE)
  BY <1>1 DEF EndProcess
<1>5. /\ DOMAIN stories' = DOMAIN stories
      /\ stories' = [x \in DOMAIN stories' |-> stories'[x]]
      /\ \A x \in DOMAIN stories :
           stories'[x] = IF x \in wave THEN [stories[x] EXCEPT !.status = "working"] ELSE stories[x]
  BY <1>1
<1>6. \A x \in DOMAIN stories :
        /\ IsStory(stories'[x])
        /\ stories'[x].deps = stories[x].deps /\ stories'[x].files = stories[x].files
        /\ stories'[x].depth = stories[x].depth
        /\ stories'[x].status = IF x \in wave THEN "working" ELSE stories[x].status
  <2>1. "working" \in StoryStatus /\ \A x \in DOMAIN stories : IsStory(stories[x])
    BY DEF StoryStatus, PlanTyped
  <2> TAKE x \in DOMAIN stories
  <2>2. CASE x \in wave
    <3>1. stories'[x] = [stories[x] EXCEPT !.status = "working"]
      BY <1>5, <2>2
    <3> QED BY <2>1, <2>2, <3>1, StatusOfStory
  <2>3. CASE x \notin wave
    BY <1>5, <2>1, <2>3
  <2> QED BY <2>2, <2>3
<1>7. Complete' = Complete
  <2>1. \A x \in DOMAIN stories :
          stories'[x].status \in {"merged", "split"} <=> stories[x].status \in {"merged", "split"}
    BY <1>3, <1>6
  <2> QED BY <1>5, <2>1 DEF Complete
<1>8. PlanTyped'
  <2>1. graph' = [nodes |-> graph'.nodes, edges |-> graph'.edges]
    BY <1>4 DEF PlanTyped, NoGraph
  <2>2. rawUsed' \in BOOLEAN
    BY <1>4 DEF PlanTyped
  <2>3. tracked' \cup agents' \cup intercept' \cup early' \subseteq DOMAIN stories'
    BY <1>1, <1>2, <1>3, <1>5 DEF PlanTyped
  <2> QED BY <1>2, <1>4, <1>5, <1>6, <2>1, <2>2, <2>3 DEF PlanTyped, PlanPhase
<1>9. ProcessHolds'
  <2>1. \A x \in wave : stories'[x].status = "working"
    BY <1>3, <1>6
  <2> QED BY <1>1, <1>2, <1>4, <2>1 DEF ProcessHolds
<1>10. FollowsPlan' /\ KidsWaitForNone'
  BY <1>2, <1>4, <1>5, <1>6, PlanStays
<1>11. GraphHolds'
  BY <1>2, <1>4, <1>5, <1>6 DEF GraphHolds
<1>12. StartedInOrder'
  <2>1. ASSUME NEW x \in DOMAIN stories \ early', stories'[x].status # "draft" \/ x \in agents'
        PROVE  stories[x].deps \subseteq Complete
    <3>1. CASE x \in wave
      BY <1>1, <2>1, <3>1
    <3>2. CASE x \notin wave
      <4>1. stories[x].status # "draft" \/ x \in agents
        BY <1>1, <1>6, <2>1, <3>2
      <4>2. x \notin early
        BY <1>1, <2>1
      <4> QED BY <4>1, <4>2 DEF StartedInOrder
    <3> QED BY <3>1, <3>2
  <2> QED BY <1>2, <1>5, <1>6, <1>7, <2>1 DEF StartedInOrder
<1>13. FirstRunAgrees'
  <2> SUFFICES ASSUME runs <= 1
               PROVE  /\ agents' = tracked'
                      /\ \A s, t \in agents' : s # t => ~Conflict(s, t)'
    BY <1>2 DEF FirstRunAgrees
  <2>1. agents' = wave /\ tracked' = wave
    BY <1>1, <1>2 DEF FirstRunAgrees
  <2>2. \A s, t \in wave : s # t => ~Conflict(s, t)
    <3>1. CASE {s \in Dispatchable : stories[s].seq} # {}
      BY <1>1, <3>1 DEF SelectDispatchable
    <3>2. CASE {s \in Dispatchable : stories[s].seq} = {}
      BY <1>1, <3>2 DEF SelectDispatchable
    <3> QED BY <3>1, <3>2
  <2>3. \A s, t \in wave : stories'[s].files = stories[s].files /\ stories'[t].files = stories[t].files
    BY <1>3, <1>6
  <2> QED BY <2>1, <2>2, <2>3 DEF Conflict
<1> QED BY <1>8, <1>9, <1>10, <1>11, <1>12, <1>13

LEMMA FinishStoryKeeps ==
  ASSUME PlanInv, NEW s, FinishStory(s)
  PROVE  PlanInv'
<1> USE DEF PlanInv
<1>1. /\ s \in tracked /\ tracked' = tracked \ {s} /\ agents' = agents \ {s}
      /\ UNCHANGED <<planPhase, graph, intercept, runs, splits, planCut, rawUsed, early>>
  BY DEF FinishStory
<1>2. PICK st \in {"merged", "draft"} : stories' = [stories EXCEPT ![s].status = st]
  BY DEF FinishStory
<1>3. /\ planPhase = "up" /\ intercept = {} /\ s \in DOMAIN stories
      /\ stories[s].status = "working" /\ runs # 0
  BY <1>1 DEF ProcessHolds, PlanTyped
<1>4. st \in StoryStatus
  BY DEF StoryStatus
<1>5. /\ DOMAIN stories' = DOMAIN stories
      /\ stories' = [x \in DOMAIN stories' |-> stories'[x]]
      /\ \A x \in DOMAIN stories :
           /\ IsStory(stories'[x])
           /\ stories'[x].deps = stories[x].deps /\ stories'[x].files = stories[x].files
           /\ stories'[x].depth = stories[x].depth
           /\ stories'[x].status = IF x = s THEN st ELSE stories[x].status
  BY <1>2, <1>3, <1>4, StatusSet
<1>6. Complete \subseteq Complete'
  <2>1. \A x \in DOMAIN stories :
          stories[x].status \in {"merged", "split"} => stories'[x].status \in {"merged", "split"}
    BY <1>3, <1>5
  <2> QED BY <1>5, <2>1 DEF Complete
<1>7. PlanTyped'
  BY <1>1, <1>5 DEF PlanTyped
<1>8. ProcessHolds'
  <2>1. \A x \in tracked' : stories'[x].status = "working"
    BY <1>1, <1>5 DEF ProcessHolds, PlanTyped
  <2> QED BY <1>1, <1>3, <2>1 DEF ProcessHolds
<1>9. FollowsPlan' /\ KidsWaitForNone'
  BY <1>1, <1>3, <1>5, PlanStays
<1>10. GraphHolds'
  BY <1>1, <1>3, <1>5 DEF GraphHolds, NoCycle
<1>11. StartedInOrder'
  <2>1. ASSUME NEW x \in DOMAIN stories \ early, stories'[x].status # "draft" \/ x \in agents'
        PROVE  stories[x].deps \subseteq Complete
    <3>1. stories[x].status # "draft" \/ x \in agents
      BY <1>1, <1>3, <1>5, <2>1
    <3> QED BY <3>1 DEF StartedInOrder
  <2> QED BY <1>1, <1>3, <1>5, <1>6, <2>1 DEF StartedInOrder
<1>12. FirstRunAgrees'
  <2>1. agents \subseteq DOMAIN stories
    BY DEF PlanTyped
  <2>2. \A x, y \in agents' : x # y => (Conflict(x, y)' <=> Conflict(x, y))
    BY <1>1, <1>5, <2>1 DEF Conflict
  <2>3. runs <= 1 => agents' = tracked'
    BY <1>1, <1>3 DEF FirstRunAgrees
  <2> QED BY <1>1, <1>3, <2>2, <2>3 DEF FirstRunAgrees
<1> QED BY <1>7, <1>8, <1>9, <1>10, <1>11, <1>12

LEMMA SessionEndsKeeps ==
  ASSUME PlanInv, NEW s, SessionEnds(s)
  PROVE  PlanInv'
<1> USE DEF PlanInv
<1>1. /\ s \in agents \ tracked /\ agents' = agents \ {s}
      /\ UNCHANGED <<planPhase, toCreate, stories, graph, waveDone, intercept, tracked,
                     runs, splits, planCut, rawUsed, early>>
  BY DEF SessionEnds
<1>2. PlanTyped' /\ ProcessHolds'
  BY <1>1 DEF PlanTyped, ProcessHolds, Complete
<1>3. FollowsPlan' /\ KidsWaitForNone' /\ GraphHolds'
  <2>1. FollowsPlan'
    BY <1>1 DEF FollowsPlan, AsPlanned
  <2> QED BY <1>1, <2>1 DEF KidsWaitForNone, GraphHolds, NoCycle
<1>4. StartedInOrder'
  BY <1>1 DEF StartedInOrder, Complete
<1>5. FirstRunAgrees'
  BY <1>1 DEF FirstRunAgrees, Conflict
<1> QED BY <1>2, <1>3, <1>4, <1>5

LEMMA ProcessEndsKeeps ==
  ASSUME PlanInv, ProcessEnds
  PROVE  PlanInv'
<1> USE DEF PlanInv
<1>1. /\ planPhase \in {"up", "wave"} /\ planPhase' = "down" /\ graph' = NoGraph
      /\ rawUsed' = FALSE /\ tracked' = {} /\ intercept' = {}
      /\ UNCHANGED <<toCreate, stories, agents, runs, splits, planCut, early>>
  BY DEF ProcessEnds, EndProcess
<1>2. PlanTyped' /\ ProcessHolds'
  BY <1>1 DEF PlanTyped, PlanPhase, ProcessHolds, Complete, NoGraph
<1>3. FollowsPlan' /\ KidsWaitForNone'
  BY <1>1, PlanStays
<1>4. GraphHolds' /\ StartedInOrder'
  BY <1>1 DEF GraphHolds, StartedInOrder, Complete
<1>5. FirstRunAgrees'
  BY <1>1 DEF FirstRunAgrees, Conflict
<1> QED BY <1>2, <1>3, <1>4, <1>5

LEMMA PlanStutters ==
  ASSUME PlanInv, UNCHANGED planVars
  PROVE  PlanInv'
<1> USE DEF PlanInv
<1>1. UNCHANGED <<planPhase, toCreate, stories, graph, waveDone, intercept, tracked,
                  agents, runs, splits, planCut, rawUsed, early>>
  BY DEF planVars
<1>2. PlanTyped' /\ ProcessHolds'
  BY <1>1 DEF PlanTyped, ProcessHolds, Complete
<1>3. FollowsPlan'
  BY <1>1 DEF FollowsPlan, AsPlanned
<1>4. KidsWaitForNone' /\ GraphHolds'
  BY <1>1 DEF KidsWaitForNone, GraphHolds, NoCycle
<1>5. StartedInOrder' /\ FirstRunAgrees'
  BY <1>1 DEF StartedInOrder, FirstRunAgrees, Conflict, Complete
<1> QED BY <1>2, <1>3, <1>4, <1>5

LEMMA PlanInitial == PlanInit => PlanInv
<1> SUFFICES ASSUME PlanInit PROVE PlanInv
  OBVIOUS
<1> USE DEF PlanInit
<1>1. stories = <<>> /\ DOMAIN stories = {}
  OBVIOUS
<1>2. PlanTyped
  <2>1. stories = [s \in DOMAIN stories |-> stories[s]]
    BY <1>1
  <2>2. graph = [nodes |-> graph.nodes, edges |-> graph.edges]
    BY DEF NoGraph
  <2>3. planCut \in BOOLEAN /\ rawUsed \in BOOLEAN
    BY Zenon
  <2>4. planPhase \in PlanPhase /\ runs \in Nat
    BY DEF PlanPhase
  <2>5. \A s \in DOMAIN stories : IsStory(stories[s])
    BY <1>1, Zenon
  <2>6. tracked \cup agents \cup intercept \cup early \subseteq DOMAIN stories
    OBVIOUS
  <2> HIDE DEF PlanInit
  <2> QED BY <2>1, <2>2, <2>3, <2>4, <2>5, <2>6 DEF PlanTyped
<1>3. ProcessHolds
  BY <1>1 DEF ProcessHolds
<1>4. FollowsPlan /\ KidsWaitForNone /\ GraphHolds /\ StartedInOrder /\ FirstRunAgrees
  BY <1>1 DEF FollowsPlan, KidsWaitForNone, GraphHolds, StartedInOrder, FirstRunAgrees
<1> QED BY <1>2, <1>3, <1>4 DEF PlanInv

LEMMA PlanStep == PlanInv /\ [PlanNext]_planVars => PlanInv'
<1> SUFFICES ASSUME PlanInv, [PlanNext]_planVars PROVE PlanInv'
  OBVIOUS
<1>1. CASE Plan \/ CreateStory \/ PlanFails \/ ResumeRun \/ EnterWave \/ DispatchWave \/ ProcessEnds
  BY <1>1, PlanningSteps, CreateStoryKeeps, PlanFailsKeeps, ResumeRunKeeps, EnterWaveKeeps,
     DispatchWaveKeeps, ProcessEndsKeeps
<1>2. CASE \E s \in DOMAIN stories :
             \/ HandleOtherwise(s) \/ ManagerSplit(s) \/ TechLeadSplit(s)
             \/ FinishStory(s) \/ SessionEnds(s)
  BY <1>2, HandleOtherwiseKeeps, ManagerSplitKeeps, TechLeadSplitKeeps, FinishStoryKeeps,
     SessionEndsKeeps
<1> QED BY <1>1, <1>2, PlanStutters DEF PlanNext

(* Of two stories of the plan that own a file, none of whose owners was     *)
(* started early, the one planned first is done before the other starts.    *)
LEMMA OwnersInTurn ==
  ASSUME PlanInv, NEW s \in DOMAIN stories, NEW t \in DOMAIN stories, s # t,
         stories[s].depth = 0, stories[t].depth = 0,
         s \in agents, t \in agents,
         NEW f \in stories[s].files \cap stories[t].files,
         \A x \in early : stories[x].depth = 0 => f \notin stories[x].files
  PROVE  s \in Complete \/ t \in Complete
<1>0. runs # 0 /\ planPhase \notin {"unplanned", "refused"}
  BY DEF PlanInv, ProcessHolds
<1>1. PICK raw \in RawPlans : Accepts(raw) /\ \E n \in 0..Len(Planned(raw)) : AsPlanned(Planned(raw), n)
  BY <1>0 DEF PlanInv, FollowsPlan
<1> DEFINE p == Planned(raw)
<1>2. PICK n \in 0..Len(p) : AsPlanned(p, n)
  BY <1>1
<1>3. /\ Len(raw) \in Nat /\ Len(p) \in Nat /\ Len(raw) <= Len(p)
      /\ \A i \in 1..Len(p) : i > Len(raw) => p[i].files = {}
      /\ \A i \in 1..Len(raw) : /\ p[i].id = raw[i].id /\ p[i].files = raw[i].files
                                /\ p[i].deps = raw[i].deps \cup LastOwners(raw, i)
  BY PlanShape, AutoSequenced
<1> HIDE DEF p
<1>4. ASSUME NEW x \in DOMAIN stories, stories[x].depth = 0, f \in stories[x].files
      PROVE  \E i \in 1..n : i \in 1..Len(raw) /\ raw[i].id = x /\ f \in raw[i].files
  <2>1. PICK i \in 1..n : p[i].id = x
    BY <1>2, <1>4 DEF AsPlanned
  <2>2. p[i].files = stories[x].files
    BY <1>2, <2>1 DEF AsPlanned
  <2>3. i \in 1..Len(p) /\ ~(i > Len(raw))
    BY <1>2, <1>3, <1>4, <2>2
  <2>4. i \in 1..Len(raw)
    BY <1>3, <2>3
  <2> QED BY <1>3, <1>4, <2>1, <2>2, <2>4
<1>5. PICK i \in 1..n : i \in 1..Len(raw) /\ raw[i].id = s /\ f \in raw[i].files
  BY <1>4
<1>6. PICK j \in 1..n : j \in 1..Len(raw) /\ raw[j].id = t /\ f \in raw[j].files
  BY <1>4
<1>7. ASSUME NEW k \in 1..n, k \in 1..Len(raw), f \in raw[k].files,
             raw[k].id \in Complete \/ raw[k].id \in agents
      PROVE  LastOwners(raw, k) \subseteq Complete
  <2>1. /\ raw[k].id \in DOMAIN stories /\ stories[raw[k].id].depth = 0
        /\ stories[raw[k].id].files = raw[k].files
        /\ LastOwners(raw, k) \subseteq stories[raw[k].id].deps
    BY <1>2, <1>3, <1>7 DEF AsPlanned
  <2>2. raw[k].id \notin early
    BY <1>7, <2>1
  <2>3. raw[k].id \in Complete => stories[raw[k].id].status # "draft"
    BY DEF Complete
  <2> QED BY <1>7, <2>1, <2>2, <2>3 DEF PlanInv, StartedInOrder
<1>8. ASSUME NEW a \in 1..n, NEW b \in 1..n, a \in 1..Len(raw), b \in 1..Len(raw), a < b,
             f \in raw[a].files, f \in raw[b].files, raw[b].id \in agents
      PROVE  raw[a].id \in Complete
  <2>1. \A k \in 1..b : f \in raw[k].files /\ raw[k].id \in Complete =>
                          LastOwners(raw, k) \subseteq Complete
    <3> SUFFICES ASSUME NEW k \in 1..b, f \in raw[k].files, raw[k].id \in Complete
                 PROVE  LastOwners(raw, k) \subseteq Complete
      OBVIOUS
    <3>1. k \in 1..n /\ k \in 1..Len(raw)
      BY <1>2, <1>3, <1>8
    <3> QED BY <1>7, <3>1
  <2>2. LastOwners(raw, b) \subseteq Complete
    BY <1>7, <1>8
  <2> QED BY <1>8, <2>1, <2>2, OwnersAreChained
<1>9. i # j /\ (i < j \/ j < i)
  <2>1. i # j
    BY <1>5, <1>6
  <2> QED BY <1>3, <1>5, <1>6, <2>1
<1> QED BY <1>5, <1>6, <1>8, <1>9

(* Agents never share a file but for the three ways a restart lets them,    *)
(* whatever the plan, however long the chain of owners.                     *)
THEOREM FilesNeverShared == PlanSpec => []SharedFileNeverParallel
<1>1. PlanInv => SharedFileNeverParallel
  <2> SUFFICES ASSUME PlanInv, NEW s \in agents, NEW t \in agents, s # t, Conflict(s, t)
               PROVE  /\ runs > 1
                      /\ \/ \E x \in {s, t} : stories[x].depth > 0
                         \/ \A f \in stories[s].files \cap stories[t].files :
                              \E x \in early : stories[x].depth = 0 /\ f \in stories[x].files
                         \/ \E x \in {s, t} : stories[x].status # "working"
    BY DEF SharedFileNeverParallel
  <2>1. runs > 1
    BY DEF PlanInv, FirstRunAgrees, PlanTyped
  <2>2. s \in DOMAIN stories /\ t \in DOMAIN stories
    BY DEF PlanInv, PlanTyped
  <2>3. ASSUME ~(stories[s].depth > 0), ~(stories[t].depth > 0),
               stories[s].status = "working", stories[t].status = "working",
               NEW f \in stories[s].files \cap stories[t].files,
               \A x \in early : stories[x].depth = 0 => f \notin stories[x].files
        PROVE  FALSE
    <3>1. stories[s].depth = 0 /\ stories[t].depth = 0
      BY <2>2, <2>3 DEF PlanInv, PlanTyped, IsStory
    <3>2. s \in Complete \/ t \in Complete
      BY <2>2, <2>3, <3>1, OwnersInTurn
    <3> QED BY <2>3, <3>2 DEF Complete
  <2> QED BY <2>1, <2>3
<1> QED BY PlanInitial, PlanStep, <1>1, PTL DEF PlanSpec

(* The integration and the scribe come after every planned story.           *)
THEOREM ComposedComesLast == PlanSpec => []ComposedLast
<1>1. PlanInv => ComposedLast
  <2> SUFFICES ASSUME PlanInv, NEW s \in agents, s \in Appended, s \notin early,
                      ~(stories[s].depth > 0),
                      NEW t \in DOMAIN stories, stories[t].depth = 0, t \notin Appended
               PROVE  t \in Complete
    BY DEF ComposedLast
  <2>0. runs # 0 /\ planPhase \notin {"unplanned", "refused"} /\ s \in DOMAIN stories
    BY DEF PlanInv, ProcessHolds, PlanTyped
  <2>1. PICK raw \in RawPlans : Accepts(raw) /\ \E n \in 0..Len(Planned(raw)) : AsPlanned(Planned(raw), n)
    BY <2>0 DEF PlanInv, FollowsPlan
  <2> DEFINE p == Planned(raw)
  <2>2. PICK n \in 0..Len(p) : AsPlanned(p, n)
    BY <2>1
  <2>3. /\ Len(raw) \in Nat /\ Len(p) \in Nat /\ Len(raw) <= Len(p)
        /\ \A i \in 1..Len(p) : i > Len(raw) =>
             p[i].id \in Appended /\ p[i].deps = {p[j].id : j \in 1..i - 1}
        /\ \A i, j \in 1..Len(p) : i # j => p[i].id # p[j].id
        /\ \E k \in 1..Len(p) : k > Len(raw) /\ p[k].id = s
    BY <2>1, PlanShape, AcceptedPlan
  <2> HIDE DEF p
  <2>4. stories[s].depth = 0
    BY <2>0 DEF PlanInv, PlanTyped, IsStory
  <2>5. PICK i \in 1..n : p[i].id = s
    BY <2>0, <2>2, <2>4 DEF AsPlanned
  <2>6. PICK j \in 1..n : p[j].id = t
    BY <2>2 DEF AsPlanned
  <2>7. stories[s].deps \subseteq Complete /\ stories[s].deps = p[i].deps
    BY <2>0, <2>2, <2>5 DEF PlanInv, StartedInOrder, AsPlanned
  <2>8. i \in 1..Len(p) /\ j \in 1..Len(p) /\ ~(j > Len(raw))
    BY <2>2, <2>3, <2>6
  <2>9. CASE i > Len(raw)
    <3>1. j \in 1..i - 1
      BY <2>3, <2>8, <2>9
    <3> QED BY <2>3, <2>6, <2>7, <2>8, <2>9, <3>1
  <2>10. CASE ~(i > Len(raw))
    BY <2>3, <2>5, <2>8, <2>10
  <2> QED BY <2>9, <2>10
<1> QED BY PlanInitial, PlanStep, <1>1, PTL DEF PlanSpec

(* A wave that cannot go on was given edges or ids no one had checked, or   *)
(* only a part of its plan.                                                 *)
THEOREM NeverStranded == PlanSpec => []StrandedOnlyByUnchecked
<1>1. PlanInv => StrandedOnlyByUnchecked
  <2> SUFFICES ASSUME PlanInv, Stranded, ~planCut, ~rawUsed
               PROVE  FALSE
    BY DEF StrandedOnlyByUnchecked
  <2>1. planPhase = "wave" /\ DOMAIN stories # Complete /\ ReadyStories(Complete) = {}
    BY DEF Stranded
  <2>2. /\ graph.nodes = DOMAIN stories
        /\ graph.edges \subseteq graph.nodes \X graph.nodes
        /\ NoCycle(graph.nodes, graph.edges)
    BY <2>1 DEF PlanInv, GraphHolds
  <2>3. graph.nodes \ Complete # {}
    BY <2>1, <2>2 DEF Complete
  <2>4. PICK n \in graph.nodes \ Complete :
          \A m \in graph.nodes \ Complete : <<n, m>> \notin graph.edges
    BY <2>2, <2>3 DEF NoCycle
  <2>5. DependsOn[n] \subseteq Complete
    <3> SUFFICES ASSUME NEW d \in DependsOn[n] PROVE d \in Complete
      OBVIOUS
    <3>1. PICK e \in graph.edges : e[1] = n /\ e[2] = d
      BY <2>4 DEF DependsOn
    <3>2. e = <<n, d>> /\ d \in graph.nodes
      BY <2>2, <3>1
    <3> QED BY <2>4, <3>1, <3>2
  <2>6. n \in ReadyStories(Complete)
    BY <2>4, <2>5 DEF ReadyStories, ReadyIn
  <2> QED BY <2>1, <2>6
<1> QED BY PlanInitial, PlanStep, <1>1, PTL DEF PlanSpec
(* --- the types of the gate and of the plan -------------------------------- *)

(* No verdict, tree or cycle but those the code knows: the fix cycles stop  *)
(* at the limit whatever runs, signals and kills come in between.           *)
THEOREM GateTyped == GateSpec => []GateTypeOK
<1>1. GateInv => GateTypeOK
  BY DEF GateInv, GateWellTyped
<1> QED BY GateInitially, GateStepKeeps, <1>1, PTL DEF GateSpec

DepthBounded == \A s \in DOMAIN stories : stories[s].depth \in 0..maxSplitDepth

(* What changes the status of stories leaves their depth.                   *)
LEMMA DepthOfKept ==
  ASSUME DepthBounded, PlanTyped, DOMAIN stories' = DOMAIN stories,
         \A s \in DOMAIN stories : \/ stories'[s] = stories[s]
                                   \/ \E st : stories'[s] = [stories[s] EXCEPT !.status = st]
  PROVE  DepthBounded'
<1> SUFFICES ASSUME NEW s \in DOMAIN stories PROVE stories'[s].depth \in 0..maxSplitDepth
  BY DEF DepthBounded, maxSplitDepth
<1>1. stories'[s].depth = stories[s].depth
  BY DEF PlanTyped, IsStory
<1> QED BY <1>1 DEF DepthBounded

LEMMA DepthOfSplit ==
  ASSUME DepthBounded, PlanTyped, NEW s \in DOMAIN stories, stories[s].depth < maxSplitDepth,
         NEW kids, NEW files, NEW edges, ApplySplit(s, kids, files, edges)
  PROVE  DepthBounded'
<1> DEFINE row(k) == NewStory({}, files[k], FALSE, stories[s].depth + 1)
           created == [x \in DOMAIN stories \cup kids |->
                         IF x \in DOMAIN stories THEN stories[x] ELSE row(x)]
<1>1. stories' = [created EXCEPT ![s].status = "split", ![s].kids = kids]
  BY DEF ApplySplit
<1>2. \A x \in DOMAIN stories \cup kids : created[x].depth \in 0..maxSplitDepth
  <2>1. \A x : row(x).depth = stories[s].depth + 1
    BY DEF NewStory
  <2>2. stories[s].depth + 1 \in 0..maxSplitDepth
    BY DEF DepthBounded, maxSplitDepth
  <2>3. \A x \in DOMAIN stories \cup kids :
          IF x \in DOMAIN stories THEN created[x] = stories[x] ELSE created[x] = row(x)
    OBVIOUS
  <2> HIDE DEF row, created
  <2> QED BY <2>1, <2>2, <2>3 DEF DepthBounded
<1>3. created[s] = stories[s] /\ IsStory(created[s])
  BY DEF PlanTyped
<1>4. DOMAIN created = DOMAIN stories \cup kids
  OBVIOUS
<1> HIDE DEF created
<1>5. DOMAIN stories' = DOMAIN stories \cup kids
  BY <1>1, <1>4
<1>6. \A x \in DOMAIN stories' : stories'[x].depth = created[x].depth
  BY <1>1, <1>3, <1>4, <1>5 DEF IsStory
<1> QED BY <1>2, <1>5, <1>6 DEF DepthBounded, maxSplitDepth

LEMMA DepthStep == PlanInv /\ DepthBounded /\ [PlanNext]_planVars => DepthBounded'
<1> SUFFICES ASSUME PlanInv, DepthBounded, [PlanNext]_planVars PROVE DepthBounded'
  OBVIOUS
<1>0. PlanTyped
  BY DEF PlanInv
<1>1. CASE UNCHANGED stories
  BY <1>1 DEF DepthBounded
<1>2. CASE CreateStory
  <2> DEFINE t == Head(toCreate)
             row == NewStory(t.deps, t.files, t.seq, 0)
  <2>1. stories' = WithStory(stories, t.id, row)
    BY <1>2 DEF CreateStory
  <2>2. row.depth = 0
    BY DEF NewStory
  <2> HIDE DEF row, t
  <2> QED BY <2>1, <2>2 DEF WithStory, DepthBounded, maxSplitDepth
<1>3. CASE DispatchWave
  <2>1. PICK wave : stories' = [s \in DOMAIN stories |->
             IF s \in wave THEN [stories[s] EXCEPT !.status = "working"] ELSE stories[s]]
    BY <1>3 DEF DispatchWave
  <2> QED BY <1>0, <2>1, DepthOfKept
<1>4. CASE \E s \in DOMAIN stories : HandleOtherwise(s) \/ FinishStory(s)
  <2>1. PICK s \in DOMAIN stories :
          \/ UNCHANGED stories
          \/ \E st : stories' = [stories EXCEPT ![s].status = st]
    BY <1>4 DEF HandleOtherwise, FinishStory
  <2>2. CASE UNCHANGED stories
    BY <1>1, <2>2
  <2>3. CASE \E st : stories' = [stories EXCEPT ![s].status = st]
    BY <1>0, <2>3, DepthOfKept
  <2> QED BY <2>1, <2>2, <2>3
<1>5. CASE \E s \in DOMAIN stories : ManagerSplit(s) \/ TechLeadSplit(s)
  <2>1. PICK s \in DOMAIN stories : ManagerSplit(s) \/ TechLeadSplit(s)
    BY <1>5
  <2>2. stories[s].depth < maxSplitDepth
    BY <2>1 DEF ManagerSplit, TechLeadSplit, CanSplit
  <2>3. \E kids, files, edges : ApplySplit(s, kids, files, edges)
    BY <2>1 DEF ManagerSplit, TechLeadSplit
  <2> QED BY <1>0, <2>2, <2>3, DepthOfSplit
<1>6. CASE \/ Plan \/ PlanFails \/ ResumeRun \/ EnterWave \/ ProcessEnds
           \/ UNCHANGED planVars
           \/ \E s \in DOMAIN stories : SessionEnds(s)
  BY <1>1, <1>6 DEF Plan, PlanFails, ResumeRun, EnterWave, ProcessEnds, SessionEnds, planVars,
                    Idle
<1> QED BY <1>2, <1>3, <1>4, <1>5, <1>6 DEF PlanNext

(* However many splits there are, no story is more than maxSplitDepth of    *)
(* them away from a planned one, and every agent is a known story's.        *)
THEOREM PlanIsTyped == PlanSpec => []PlanTypeOK
<1>1. PlanInit => DepthBounded
  BY DEF PlanInit, DepthBounded
<1>2. PlanInv /\ DepthBounded => PlanTypeOK
  <2> SUFFICES ASSUME PlanInv, DepthBounded PROVE PlanTypeOK
    OBVIOUS
  <2>1. PlanTyped
    BY DEF PlanInv
  <2>2. \A s \in DOMAIN stories : stories[s].status \in {"draft", "working", "merged", "split"}
    BY <2>1 DEF PlanTyped, IsStory
  <2> QED BY <2>1, <2>2 DEF PlanTyped, PlanPhase, DepthBounded, PlanTypeOK
<1> QED BY <1>1, <1>2, PlanInitial, PlanStep, DepthStep, PTL DEF PlanSpec
==============================================================================
