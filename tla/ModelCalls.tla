---------------------------- MODULE ModelCalls ----------------------------
(***************************************************************************)
(* What the answers of the model providers do to a requirement: the        *)
(* clients a role's call goes through (retries, quotas, fallbacks), the    *)
(* class of the error that comes out of them, and what each caller makes   *)
(* of it: pause the requirement, or charge the story an attempt.  One      *)
(* story; the tiers its attempts climb are EscalationLog's, so a charge    *)
(* here only decides who is asked next.                                    *)
(***************************************************************************)
EXTENDS Integers, Sequences, FiniteSets

CONSTANTS
  Routes,      \* client stacks the roles may be built with
  MaxRetries,  \* RetryClient.maxRetries
  QuotaLimit,  \* requests a minute before the fallback is preferred (rpm * 9 / 10)
  MaxUSDPerReq,\* billing.max_usd_per_req, in completions; 0: no cap
  MaxCharges   \* bound on the attempts that are followed

ASSUME ModelCallsAssumption ==
  /\ Routes \subseteq {"cli", "api", "google", "codex"}
  /\ MaxRetries \in Nat /\ QuotaLimit \in Nat \ {0} /\ MaxUSDPerReq \in Nat
  /\ MaxCharges \in Nat \ {0}

VARIABLES
  route,   \* the stack of the review, merge and diagnosis roles
  caller,  \* who asks: "none", "plan", "review", "merge", "manual", "diagnose", "replan"
  call,    \* [leg, tries, wait]: the client asked, its attempt, in back-off
  heard,   \* every answer the call has met
  result,  \* what the outermost client returned, "none" while it runs
  quota,   \* QuotaTracker of the google client: [used, cooling]
  story,   \* "unplanned", "draft", "review", "merge", "merged", "split"
  charges, \* attempts the story was charged
  paused,  \* the requirement is paused
  spent    \* rows of story_costs, counted to one past the cap

mcVars == <<route, caller, call, heard, result, quota, story, charges, paused, spent>>

(* --- clients and answers ---------------------------------------------------------- *)

(* buildLLMClient and buildPlanningClient.  "cli" runs claude or codex and  *)
(* types its errors by their text; "api" is an HTTP client in a RetryClient.*)
Stack ==
  [cli |-> <<"cli">>, api |-> <<"api">>, google |-> <<"api", "cli">>,
   codex |-> <<"cli", "cli">>, planning |-> <<"cli", "api", "cli">>]
(* "bad" is a completion the caller rejects or cannot parse; "limited" is   *)
(* typed 429 or 529, "down" an untyped network error in which errors.go     *)
(* finds one of its signatures (reset, refused, timed out), "denied" 401,   *)
(* 403 or the balance, "server" any other 5xx.  "plain" is what no one      *)
(* classifies: an unlisted network error (no such host, unreachable) too,   *)
(* and an empty answer of the planner's CLI.                                *)
Completions == {"ok", "bad"}
CLIErrors == {"limited", "denied", "plain"}
HTTPErrors == CLIErrors \cup {"down", "server"}
CLIAnswers == Completions \cup CLIErrors
APIAnswers == Completions \cup HTTPErrors
AnswersOf(client) == IF client = "cli" THEN CLIAnswers ELSE APIAnswers

IsRetryable(answer) == answer \in {"limited", "server"}
IsRateLimited(answer) == answer = "limited"
IsFatalAPIError(answer) == answer = "denied"
TypedCapacity(answer) == answer = "limited"
(* Typed, or by a signature in the text.                                    *)
IsCapacityError(answer) == answer \in {"limited", "down"}

(* The planner's client; for a merge, the senior client and then the tech   *)
(* lead's, which is built for planning too.                                 *)
ForPlan == caller \in {"plan", "replan"}
SeniorLegs == IF ForPlan THEN <<>> ELSE Stack[route]
Legs == IF caller \in {"review", "diagnose"} THEN SeniorLegs ELSE SeniorLegs \o Stack["planning"]

IsExhausted == quota.cooling \/ quota.used >= QuotaLimit
NoCall == [leg |-> 0, tries |-> 0, wait |-> FALSE]

McInit ==
  /\ route = "none" /\ caller = "none" /\ call = NoCall /\ heard = {} /\ result = "none"
  /\ quota = [used |-> 0, cooling |-> FALSE]
  /\ story = "unplanned" /\ charges = 0 /\ paused = FALSE /\ spent = 0

Outside == <<route, quota, story, charges, paused>>

BuildClients ==
  /\ route = "none" /\ route' \in Routes
  /\ UNCHANGED <<caller, call, heard, result, quota, story, charges, paused, spent>>

(* --- a call ------------------------------------------------------------------------- *)

(* FallbackClient.Complete: an exhausted primary is not asked.              *)
PrimarySkipped(leg) == route = "google" /\ ~ForPlan /\ leg = 1 /\ IsExhausted

Asks(who) ==
  /\ caller = "none" /\ route # "none" /\ caller' = who
  /\ heard' = {} /\ result' = "none"
  /\ call' = [NoCall EXCEPT !.leg = 1]
  /\ UNCHANGED <<Outside, spent>>

SkipPrimary ==
  /\ result = "none" /\ call.leg > 0 /\ call.tries = 0 /\ PrimarySkipped(call.leg)
  /\ call' = [NoCall EXCEPT !.leg = call.leg + 1]
  /\ UNCHANGED <<caller, heard, result, Outside, spent>>

(* An error of any kind moves on to the next client; the last one's is      *)
(* returned, wrapped.  A merge the senior client cannot do is the tech      *)
(* lead's.                                                                  *)
SeniorGivesUp(answer) == answer = "bad" /\ call.leg <= Len(SeniorLegs) /\ Len(Legs) > Len(SeniorLegs)
(* The planning client words a billing error anew, without its type.        *)
Wrapped(answer) ==
  IF answer = "denied" /\ call.leg > Len(SeniorLegs) THEN {"denied", "plain"} ELSE {answer}
Returns(answer) ==
  IF SeniorGivesUp(answer)
  THEN call' = [NoCall EXCEPT !.leg = Len(SeniorLegs) + 1] /\ UNCHANGED result
  ELSE IF answer \in Completions \/ call.leg = Len(Legs)
  THEN call' = NoCall /\ result' \in Wrapped(answer)
  ELSE call' = [NoCall EXCEPT !.leg = call.leg + 1] /\ UNCHANGED result

(* QuotaTracker: answered requests count, a 429 starts the cooldown.        *)
Tracked(answer) ==
  IF route # "google" \/ ForPlan \/ call.leg # 1 THEN quota
  ELSE IF answer \in Completions THEN [quota EXCEPT !.used = @ + 1]
  ELSE [quota EXCEPT !.cooling = @ \/ IsRateLimited(answer)]

(* A completion is reported once, by the MeteredClient when the request has *)
(* a stage, by the role when it has none; the re-plan is by neither.        *)
Metered(answer) == answer \in Completions /\ caller # "replan"
(* RecordUsage: one row of story_costs.                                     *)
Recorded(answer) == IF Metered(answer) /\ spent <= MaxUSDPerReq THEN spent + 1 ELSE spent

Answer(answer) ==
  /\ result = "none" /\ call.leg > 0 /\ ~call.wait /\ ~PrimarySkipped(call.leg)
  /\ heard' = heard \cup {answer}
  /\ IF Legs[call.leg] = "api" /\ IsRetryable(answer) /\ call.tries < MaxRetries
     THEN call' = [call EXCEPT !.wait = TRUE] /\ UNCHANGED <<result, quota>>
     ELSE Returns(answer) /\ quota' = Tracked(answer)
  /\ spent' = Recorded(answer)
  /\ UNCHANGED <<caller, route, story, charges, paused>>

ProviderAnswers ==
  \E answer \in APIAnswers :
    /\ result = "none" /\ call.leg > 0 /\ answer \in AnswersOf(Legs[call.leg])
    /\ Answer(answer)

RetryAgain ==
  /\ call.wait /\ call' = [call EXCEPT !.tries = @ + 1, !.wait = FALSE]
  /\ UNCHANGED <<caller, heard, result, Outside, spent>>

(* The pipeline's context ends in the call or its back-off.  What is left   *)
(* of the stack fails at once.                                              *)
Deadline ==
  /\ result = "none" /\ call.leg > 0 /\ caller \in {"review", "merge", "manual"}
  /\ call' = NoCall /\ result' = "deadline"
  /\ UNCHANGED <<caller, heard, Outside, spent>>

(* A new minute, and the end of a cooldown.                                 *)
MinutePasses ==
  /\ quota.used > 0 /\ quota' = [quota EXCEPT !.used = 0]
  /\ UNCHANGED <<route, caller, call, heard, result, story, charges, paused, spent>>
CooldownEnds ==
  /\ quota.cooling /\ quota' = [quota EXCEPT !.cooling = FALSE]
  /\ UNCHANGED <<route, caller, call, heard, result, story, charges, paused, spent>>

(* --- the callers ---------------------------------------------------------------------- *)

(* The stage a dispatched story is in, and whom its attempts call.          *)
AskPlan == story = "unplanned" /\ Asks("plan")
AskReview == story = "review" /\ ~paused /\ Asks("review")
AskMerge == story = "merge" /\ ~paused /\ \E who \in {"merge", "manual"} : Asks(who)
AskDiagnosis == story = "draft" /\ charges = MaxCharges - 1 /\ ~paused /\ Asks("diagnose")
AskRePlan == story = "draft" /\ charges >= MaxCharges /\ ~paused /\ Asks("replan")

Settles(at, charged, pauses) ==
  /\ caller' = "none" /\ heard' = {} /\ result' = "none"
  /\ story' = at /\ charges' = charges + charged /\ paused' = (paused \/ pauses)
  /\ UNCHANGED <<route, call, quota, spent>>
(* resetStoryToDraft.                                                       *)
Charge == charges < MaxCharges + 1 /\ Settles("draft", 1, FALSE)
Pause == Settles(story, 0, TRUE)

(* vxd req returns the error; the operator submits again.                   *)
PlanReturns ==
  /\ caller = "plan" /\ result # "none"
  /\ Settles(IF result = "ok" THEN "draft" ELSE "unplanned", 0, FALSE)

(* The deadline, then the fatal and the transient errors; the rest is held  *)
(* against the story.                                                       *)
ReviewReturns ==
  /\ caller = "review" /\ result # "none"
  /\ \/ result = "ok" /\ Settles("merge", 0, FALSE)
     \/ IsFatalAPIError(result) /\ Pause
     \/ IsCapacityError(result) /\ Pause
     \/ result # "ok" /\ ~IsFatalAPIError(result) /\ ~IsCapacityError(result) /\ Charge

(* checkBudget, after the merge only.                                       *)
OverBudget == MaxUSDPerReq > 0 /\ spent > MaxUSDPerReq
(* What no model merges is resolved without one: see StoryBranch.           *)
MergeReturns ==
  /\ caller = "merge" /\ result # "none"
  /\ \/ result \in Completions /\ Settles("merged", 0, OverBudget)
     \/ IsFatalAPIError(result) /\ Pause
     \/ IsCapacityError(result) /\ Pause
     \/ /\ result \notin Completions /\ ~IsFatalAPIError(result) /\ ~IsCapacityError(result)
        /\ Charge

(* The pull request of the manual mode: capacity is not asked about.        *)
ManualReturns ==
  /\ caller = "manual" /\ result # "none"
  /\ \/ result \in Completions /\ Settles("merged", 0, FALSE)
     \/ IsFatalAPIError(result) /\ Pause
     \/ result \notin Completions /\ ~IsFatalAPIError(result) /\ Charge

(* A diagnosis sends the story back to work; what cannot be parsed is a     *)
(* failed attempt.                                                          *)
DiagnosisReturns ==
  /\ caller = "diagnose" /\ result # "none"
  /\ \/ result = "ok" /\ Settles("review", 0, FALSE)
     \/ (IsFatalAPIError(result) \/ IsCapacityError(result)) /\ Pause
     \/ result # "ok" /\ ~IsFatalAPIError(result) /\ ~IsCapacityError(result) /\ Charge

RePlanReturns ==
  /\ caller = "replan" /\ result # "none"
  /\ IF result = "ok" THEN Settles("split", 0, FALSE) ELSE Pause

(* The next wave, and `vxd resume': the agent's work comes to the review.   *)
Dispatch ==
  /\ story = "draft" /\ charges < MaxCharges - 1 /\ ~paused /\ caller = "none"
  /\ route # "none" /\ story' = "review"
  /\ UNCHANGED <<route, caller, call, heard, result, quota, charges, paused, spent>>
(* A merge that was paused starts over with the review.                     *)
ResumePaused ==
  /\ paused /\ caller = "none" /\ paused' = FALSE
  /\ story' = IF story = "merge" THEN "review" ELSE story
  /\ UNCHANGED <<route, caller, call, heard, result, quota, charges, spent>>

(* The agent's own session: an empty diff is a charge, unless its log shows *)
(* a capacity signature.                                                    *)
EmptyAgent ==
  /\ story = "review" /\ caller = "none" /\ ~paused /\ \E limited \in BOOLEAN :
       IF limited THEN Pause ELSE Charge

McNext ==
  \/ BuildClients \/ SkipPrimary \/ ProviderAnswers \/ RetryAgain \/ Deadline
  \/ MinutePasses \/ CooldownEnds
  \/ AskPlan \/ AskReview \/ AskMerge \/ AskDiagnosis \/ AskRePlan
  \/ PlanReturns \/ ReviewReturns \/ MergeReturns \/ ManualReturns
  \/ DiagnosisReturns \/ RePlanReturns \/ Dispatch \/ ResumePaused \/ EmptyAgent

McSpec == McInit /\ [][McNext]_mcVars

(* --- properties ------------------------------------------------------------------------ *)

McTypeOK ==
  /\ route \in DOMAIN Stack \cup {"none"}
  /\ caller \in {"none", "plan", "review", "merge", "manual", "diagnose", "replan"}
  /\ call \in [leg : 0..5, tries : 0..MaxRetries, wait : BOOLEAN]
  /\ heard \subseteq APIAnswers /\ result \in APIAnswers \cup {"none", "deadline"}
  /\ quota \in [used : 0..QuotaLimit, cooling : BOOLEAN]
  /\ story \in {"unplanned", "draft", "review", "merge", "merged", "split"}
  /\ charges \in 0..MaxCharges + 1 /\ paused \in BOOLEAN /\ spent \in 0..MaxUSDPerReq + 1

(* Whatever stack a call went through, an outage the code can tell costs    *)
(* the story nothing: it is charged an attempt only after an answer that    *)
(* was neither a limit nor a network error with a listed signature, or past *)
(* the pipeline's deadline.  Network errors that are not listed do charge   *)
(* it ("plain"), and so does the pull request of the manual mode.           *)
OutageCostsNothing ==
  [][(charges' > charges /\ caller \notin {"none", "manual"})
       => (result = "deadline" \/ heard \ {"limited", "down"} # {})]_mcVars
=============================================================================
