--------------------------- MODULE EscalationLog ---------------------------
(***************************************************************************)
(* The escalation machine as the code has it: no counter anywhere, tier    *)
(* and failures of a story are read off the event log by time stamp each   *)
(* time they are needed, by four readers with four different rules.  The   *)
(* monitor decides, then appends; a human reset is stamped in another      *)
(* process and may be appended at any moment in between.                   *)
(***************************************************************************)
EXTENDS Naturals, FiniteSets, Sequences

CONSTANTS
  TierLimit,     \* MaxRetriesForTier of the routing configuration, tiers 0..3
  StaticRole,    \* agent.RouteByComplexity of the story: a rank of Rank
  History,       \* outcomes of other stories: [Rank -> [ok, bad]]
  MinSamples,    \* routing.adaptive_min_samples
  MaxEvents      \* bound: events of the log

Rank == 0..2     \* junior, intermediate, senior
Senior == 2

ASSUME EscalationAssumption ==
  /\ TierLimit \in [0..3 -> Nat] /\ MinSamples \in Nat /\ MaxEvents \in Nat
  /\ StaticRole \subseteq Rank

VARIABLES
  escLog,      \* events of the story in the order they were appended
  clock,       \* stamps given so far
  monitorDo,   \* events the monitor has decided to append
  deciding,    \* it has still to ask ShouldEscalate
  staleDo,     \* a reset was appended while the monitor was at it
  resetAt,     \* stamp of a reset not appended yet, 0 if none
  tierColumn,  \* stories.escalation_tier
  apart        \* history: why the column need not agree with the log

escVars == <<escLog, clock, monitorDo, deciding, staleDo, resetAt, tierColumn,
             apart>>

EscType == {"REVIEW_FAILED", "ESCALATED", "RESET", "REWRITTEN"}
Do(type, to) == [type |-> type, to |-> to]

Largest(S) == IF S = {} THEN 0 ELSE CHOOSE x \in S : \A y \in S : y <= x
Stamped(type) == {i \in DOMAIN escLog : escLog[i].type = type}
Stamps(type) == {escLog[i].at : i \in Stamped(type)}

(* --- the readers --------------------------------------------------------- *)

LatestReset == Largest(Stamps("RESET"))

(* Mistake: the last escalation counts, not the highest.                   *)
CurrentTierLast ==
  LET after == {i \in Stamped("ESCALATED") : escLog[i].at > LatestReset} IN
  IF after = {} THEN 0 ELSE escLog[Largest(after)].to

CurrentTier ==
  Largest({escLog[i].to : i \in {j \in Stamped("ESCALATED") :
                                   escLog[j].at > LatestReset}})

LastEscalation == Largest({LatestReset} \cup Stamps("ESCALATED"))

(* RetryCountAtCurrentTier.                                                *)
RetryCount ==
  Cardinality({i \in Stamped("REVIEW_FAILED") : escLog[i].at > LastEscalation})

ShouldEscalate == RetryCount >= TierLimit[CurrentTier]

(* Dispatcher.routeStory reads every escalation, resets or not.            *)
HighestTier == Largest({escLog[i].to : i \in Stamped("ESCALATED")})
RouteStory(static) == IF HighestTier >= 1 THEN Senior ELSE static

(* RecommendTier: the cheapest tier that succeeds four times in five, else *)
(* one up from a default that succeeds less than two times in five.        *)
RecommendTier(static, rates) ==
  LET enough(r) == rates[r].ok + rates[r].bad >= MinSamples
      cheap == {r \in Rank : /\ r < static /\ enough(r)
                             /\ 5 * rates[r].ok >= 4 * (rates[r].ok + rates[r].bad)}
      failing == /\ static < Senior /\ enough(static)
                 /\ 5 * rates[static].ok < 2 * (rates[static].ok + rates[static].bad)
  IN IF cheap # {} THEN CHOOSE r \in cheap : \A q \in cheap : r <= q
     ELSE IF failing THEN static + 1 ELSE static

(* Mistake: history overrules the escalation chain.                        *)
RouteAdaptiveAlways(static, rates) == RecommendTier(static, rates)

(* routeStoryWithDecision with routing.adaptive on.  "Escalated" is taken  *)
(* to be "not the static role".                                            *)
RouteAdaptive(static, rates) ==
  IF RouteStory(static) # static THEN RouteStory(static)
  ELSE RecommendTier(static, rates)

(* --- the writers ---------------------------------------------------------- *)

EscInit ==
  /\ escLog = <<>> /\ clock = 0 /\ monitorDo = <<>> /\ deciding = FALSE
  /\ staleDo = FALSE /\ resetAt = 0 /\ tierColumn = 0 /\ apart = FALSE

(* Mistake: a reset leaves the cached tier alone.                          *)
AppendKeepingTier(d, at) ==
  /\ escLog' = Append(escLog, [type |-> d.type, to |-> d.to, at |-> at])
  /\ tierColumn' = IF d.type = "ESCALATED" THEN d.to ELSE tierColumn

(* Append and Project of one event with stamp `at'.                        *)
AppendStamped(d, at) ==
  /\ escLog' = Append(escLog, [type |-> d.type, to |-> d.to, at |-> at])
  /\ tierColumn' = CASE d.type = "ESCALATED" -> d.to
                     [] d.type \in {"RESET", "REWRITTEN"} -> 0
                     [] OTHER -> tierColumn

RoomFor(n) == Len(escLog) + n <= MaxEvents
Quiet == monitorDo = <<>> /\ ~deciding

(* Reviewer or QA fail the story with an event of their own, or something  *)
(* else fails that appends none; resetStoryToDraft comes next.             *)
StoryFails(own) ==
  /\ Quiet /\ RoomFor(3)
  /\ deciding' = TRUE
  /\ IF own THEN clock' = clock + 1 /\ AppendStamped(Do("REVIEW_FAILED", 0), clock + 1)
     ELSE UNCHANGED <<escLog, clock, tierColumn>>
  /\ UNCHANGED <<monitorDo, staleDo, resetAt, apart>>

(* resetStoryToDraft, up to its first append.  Nothing is appended when    *)
(* the last tier is used up: the requirement is paused.                    *)
DecideReset ==
  /\ deciding /\ deciding' = FALSE
  /\ monitorDo' =
       CASE ShouldEscalate /\ CurrentTier >= 3 -> <<>>
         [] ShouldEscalate /\ CurrentTier < 3 ->
              <<Do("ESCALATED", CurrentTier + 1), Do("REVIEW_FAILED", 0)>>
         [] OTHER -> <<Do("REVIEW_FAILED", 0)>>
  /\ UNCHANGED <<escLog, clock, staleDo, resetAt, tierColumn, apart>>

(* handleManagerEscalation, for a story the interception found at tier 2.  *)
ManagerDecides ==
  /\ Quiet /\ RoomFor(2) /\ CurrentTier = 2
  /\ monitorDo' \in {<<Do("ESCALATED", t), Do("REVIEW_FAILED", 0)>> : t \in 0..1}
                    \cup {<<Do("REWRITTEN", 0)>>, <<Do("ESCALATED", 3)>>}
  /\ UNCHANGED <<escLog, clock, deciding, staleDo, resetAt, tierColumn, apart>>

MonitorAppends ==
  /\ monitorDo # <<>>
  /\ clock' = clock + 1
  /\ AppendStamped(Head(monitorDo), clock + 1)
  /\ monitorDo' = Tail(monitorDo)
  /\ staleDo' = (staleDo /\ Tail(monitorDo) # <<>>)
  /\ apart' = \/ apart \/ resetAt > 0
              \/ Head(monitorDo).type = "REWRITTEN"
              \/ Head(monitorDo).type = "ESCALATED" /\ Head(monitorDo).to < CurrentTier
  /\ UNCHANGED <<deciding, resetAt>>

(* vxd retry, or the reset of a resume's consistency check.                *)
StampReset ==
  /\ resetAt = 0 /\ RoomFor(3)
  /\ clock' = clock + 1 /\ resetAt' = clock + 1
  /\ UNCHANGED <<escLog, monitorDo, deciding, staleDo, tierColumn, apart>>

AppendReset ==
  /\ resetAt > 0 /\ resetAt' = 0
  /\ AppendStamped(Do("RESET", 0), resetAt)
  /\ staleDo' = (monitorDo # <<>>)
  /\ UNCHANGED <<clock, monitorDo, deciding, apart>>

EscNext ==
  \/ \E own \in BOOLEAN : StoryFails(own)
  \/ DecideReset \/ ManagerDecides \/ MonitorAppends
  \/ StampReset \/ AppendReset

EscSpec == EscInit /\ [][EscNext]_escVars

(* --- properties -------------------------------------------------------------- *)

(* Whatever the order of stamps and appends, the log read back is the       *)
(* escalation chain: the events of failures are counted one by one (one     *)
(* failure may append two, StoryFails), a tier is left only when it is      *)
(* spent or by the manager, one rung at a time, and only a decision         *)
(* overtaken by a reset may skip a rung.                                    *)
Ladder == INSTANCE TierLadder
  WITH tier <- CurrentTier, fails <- RetryCount, Limit <- TierLimit,
       resetting <- resetAt > 0, stale <- staleDo
ClimbsTheLadder == Ladder!LadderSpec

(* The cached column agrees with the log it is cached from, unless the      *)
(* manager rewrote the story or retried it at a lower tier, or the monitor  *)
(* appended while a reset was on its way.                                   *)
TierColumnAgrees == apart \/ tierColumn = CurrentTier

(* A story the escalation machine sees at tier 1 or above is never given to *)
(* anyone below a senior, whatever resets and success rates the log has,    *)
(* but for a story that was a senior's to begin with.                       *)
EscalatedStaysSenior ==
  CurrentTier >= 1 =>
    \A static \in StaticRole \ {Senior}, rates \in History :
      RouteAdaptive(static, rates) = Senior
=============================================================================
