--------------------------- MODULE WatchlistReview ---------------------------
(***************************************************************************)
(* WatchlistReviewService.review, under the API's recording router: each   *)
(* request reads its evidence, has the model categorise the confirmed      *)
(* media items the feed left unclear, evaluates, writes the WORM record,   *)
(* drafts a memo when an officer must look, hands off, and answers.  Every *)
(* port may fail, and the process may restart.                             *)
(*                                                                         *)
(* Both model jobs go through _screened_generate: screen the prompt, call  *)
(* the model, screen its answer.  What the engine concludes is left open   *)
(* here (EarlyWarningEngine says how); what happens to it is not.          *)
(***************************************************************************)
EXTENDS Naturals

CONSTANTS
    Requests,   \* review requests, each on a worker thread of its own
    MaxItems    \* bound: confirmed items the feed left unclear, per request

ASSUME ItemsAssumption == MaxItems \in Nat

VARIABLES
    switch,   \* CREDITEWS_REVIEW_ROUTING, read when the process starts
    stage,    \* where each request's thread is
    left,     \* items each still has to categorise
    verdict,  \* the engine's decision, "none" before it
    memo,     \* "none", "drafted" or "discarded"
    decided,  \* the review record each request wrote to the WORM trail
    blocked,  \* BLOCKED records each request wrote to the trail
    refused,  \* history: refusals each request met
    console,  \* requests whose proposal the review console holds
    routing,  \* the recording router's outcome
    answer    \* what the caller has been told

evidence == <<left, verdict>>
trail    == <<decided, blocked>>
vars     == <<switch, stage, left, verdict, memo, decided, blocked, refused, console,
              routing, answer>>

Switch    == {"on", "off"}
Stages    == {"idle", "read", "input", "generate", "output", "evaluate", "record",
              "route", "answer", "done"}
Decisions == {"allowed", "escalated"}
Outcomes  == {"routed", "failed", "off", "not_required"}
Answers   == {"pending", "reviewed", "not_found", "forbidden", "error", "lost"}

Open == {r \in Requests : stage[r] \notin {"idle", "done"}}

At(r, s)     == stage[r] = s
Goto(r, s)   == stage' = [stage EXCEPT ![r] = s]
Finish(r, a) == Goto(r, "done") /\ answer' = [answer EXCEPT ![r] = a]

\* An exception nobody catches on the way to the route: the caller gets an error.
Fail(r) == Finish(r, "error") /\ UNCHANGED <<memo, evidence, trail, console, routing>>

\* The categorisation runs before anything is scored, the memo after.
Categorising(r) == verdict[r] = "none"

------------------------------------------------------------------------------
(* Reading the evidence: a failing port ends the review.                   *)

Arrive(r) ==
    /\ At(r, "idle")
    /\ Goto(r, "read")
    /\ UNCHANGED <<evidence, memo, trail, refused, console, routing, answer>>

Read(r) ==
    /\ At(r, "read")
    /\ \E n \in 0..MaxItems :
          /\ left' = [left EXCEPT ![r] = n]
          /\ Goto(r, IF n > 0 THEN "input" ELSE "evaluate")
    /\ UNCHANGED <<verdict, memo, trail, refused, console, routing, answer>>

ReadFails(r) ==
    /\ At(r, "read")
    /\ \E a \in {"not_found", "forbidden", "error"} : Finish(r, a)
    /\ UNCHANGED <<evidence, memo, trail, refused, console, routing>>

------------------------------------------------------------------------------
(* The one seam to the model.                                              *)

\* Mutant: one turn too many.
EndJobOnceMore(r, draft) ==
    IF Categorising(r)
    THEN /\ left' = [left EXCEPT ![r] = @ - 1]
         /\ Goto(r, IF left[r] >= 1 THEN "input" ELSE "evaluate")
         /\ UNCHANGED <<verdict, memo>>
    ELSE /\ memo' = [memo EXCEPT ![r] = draft]
         /\ Goto(r, "route")
         /\ UNCHANGED evidence

\* A model job is over: an item has its category, or keeps UNCLEAR, and the
\* next one's turn comes; or the memo is as drafted as it will get.
EndJob(r, draft) ==
    IF Categorising(r)
    THEN /\ left' = [left EXCEPT ![r] = @ - 1]
         /\ Goto(r, IF left[r] > 1 THEN "input" ELSE "evaluate")
         /\ UNCHANGED <<verdict, memo>>
    ELSE /\ memo' = [memo EXCEPT ![r] = draft]
         /\ Goto(r, "route")
         /\ UNCHANGED evidence

ScreenAllows(r) ==
    /\ \/ At(r, "input") /\ Goto(r, "generate") /\ UNCHANGED <<evidence, memo>>
       \/ At(r, "output") /\ \E d \in {"drafted", "discarded"} : EndJob(r, d)
    /\ UNCHANGED <<trail, refused, console, routing, answer>>

\* Mutant: a refusal that could not be recorded still falls back to fixed text.
RefuseRegardless(r) ==
    /\ refused' = [refused EXCEPT ![r] = @ + 1]
    /\ EndJob(r, "discarded")
    /\ \/ blocked' = [blocked EXCEPT ![r] = @ + 1]
       \/ UNCHANGED blocked
    /\ UNCHANGED <<decided, console, routing, answer>>

\* The refusal is recorded and the job falls back to fixed text; if the trail
\* cannot take the record, the review fails instead.
Refuse(r) ==
    /\ refused' = [refused EXCEPT ![r] = @ + 1]
    /\ \/ /\ blocked' = [blocked EXCEPT ![r] = @ + 1]
          /\ EndJob(r, "discarded")
          /\ UNCHANGED <<decided, console, routing, answer>>
       \/ Fail(r)

\* A block in either direction, or a guardrail that raised instead of deciding.
ScreenRefuses(r) == (At(r, "input") \/ At(r, "output")) /\ Refuse(r)

Generate(r) ==
    /\ At(r, "generate")
    /\ Goto(r, "output")
    /\ UNCHANGED <<evidence, memo, trail, refused, console, routing, answer>>

\* Mutant: a model fault is tried again.
GenerateRetries(r) ==
    /\ At(r, "generate")
    /\ Goto(r, "input")
    /\ UNCHANGED <<evidence, memo, trail, refused, console, routing, answer>>

\* Categorising, any model fault leaves the item UNCLEAR.  Drafting, only the
\* absent narration seam of the exit profile is absorbed: nothing catches a
\* model that raises anything else.
GenerateFails(r) ==
    /\ At(r, "generate")
    /\ \/ EndJob(r, "discarded") /\ UNCHANGED <<trail, console, routing, answer>>
       \/ ~Categorising(r) /\ Fail(r)
    /\ UNCHANGED refused

------------------------------------------------------------------------------
(* Deciding, recording, handing off, answering.                            *)

Evaluate(r) ==
    /\ At(r, "evaluate")
    /\ \/ /\ \E d \in Decisions : verdict' = [verdict EXCEPT ![r] = d]
          /\ Goto(r, "record")
          /\ UNCHANGED <<left, memo, trail, console, routing, answer>>
       \/ Fail(r)
    /\ UNCHANGED refused

\* Mutant: the hand-off does not wait for the record.
RecordLate(r) ==
    /\ At(r, "record")
    /\ Goto(r, "route")
    /\ \/ decided' = [decided EXCEPT ![r] = verdict[r]]
       \/ UNCHANGED decided
    /\ UNCHANGED <<evidence, memo, blocked, refused, console, routing, answer>>

Record(r) ==
    /\ At(r, "record")
    /\ \/ /\ decided' = [decided EXCEPT ![r] = verdict[r]]
          /\ Goto(r, IF verdict[r] = "escalated" THEN "input" ELSE "route")
          /\ UNCHANGED <<evidence, memo, blocked, console, routing, answer>>
       \/ Fail(r)
    /\ UNCHANGED refused

\* Submission to the console: accepted; accepted but the reply was lost; refused.
HandOff(r) ==
    \/ /\ console' = console \cup {r}
       /\ \E o \in {"routed", "failed"} : routing' = [routing EXCEPT ![r] = o]
    \/ /\ routing' = [routing EXCEPT ![r] = "failed"]
       /\ UNCHANGED console

\* Mutant: every decision is handed off.
RouteEverything(r) ==
    /\ At(r, "route")
    /\ \/ switch = "on" /\ HandOff(r)
       \/ /\ switch = "off"
          /\ routing' = [routing EXCEPT ![r] = "off"]
          /\ UNCHANGED console
    /\ Goto(r, "answer")
    /\ UNCHANGED <<evidence, memo, trail, refused, answer>>

Route(r) ==
    /\ At(r, "route")
    /\ \/ verdict[r] = "allowed" /\ UNCHANGED <<console, routing>>
       \/ verdict[r] = "escalated" /\ switch = "on" /\ HandOff(r)
       \/ /\ verdict[r] = "escalated" /\ switch = "off"
          /\ routing' = [routing EXCEPT ![r] = "off"]
          /\ UNCHANGED console
    /\ Goto(r, "answer")
    /\ UNCHANGED <<evidence, memo, trail, refused, answer>>

Answer(r) ==
    /\ At(r, "answer")
    /\ Finish(r, "reviewed")
    /\ UNCHANGED <<evidence, memo, trail, refused, console, routing>>

\* The process restarts, perhaps redeployed with routing switched: requests in
\* flight are lost; the trail and the console are elsewhere and are not.
Restart ==
    /\ Open # {}
    /\ switch' \in Switch
    /\ answer' = [r \in Requests |-> IF r \in Open THEN "lost" ELSE answer[r]]
    /\ stage' = [r \in Requests |-> IF r \in Open THEN "done" ELSE stage[r]]
    /\ UNCHANGED <<evidence, memo, trail, refused, console, routing>>

------------------------------------------------------------------------------
Init ==
    /\ switch \in Switch
    /\ stage   = [r \in Requests |-> "idle"]
    /\ left    = [r \in Requests |-> 0]
    /\ verdict = [r \in Requests |-> "none"]
    /\ memo    = [r \in Requests |-> "none"]
    /\ decided = [r \in Requests |-> "none"]
    /\ blocked = [r \in Requests |-> 0]
    /\ refused = [r \in Requests |-> 0]
    /\ console = {}
    /\ routing = [r \in Requests |-> "not_required"]
    /\ answer  = [r \in Requests |-> "pending"]

\* One step of the thread that serves r.
Step(r) ==
    /\ \/ Read(r) \/ ReadFails(r)
       \/ ScreenAllows(r) \/ ScreenRefuses(r) \/ Generate(r) \/ GenerateFails(r)
       \/ Evaluate(r) \/ Record(r) \/ Route(r) \/ Answer(r)
    /\ UNCHANGED switch

Next == \/ Restart
        \/ \E r \in Requests : Step(r) \/ (Arrive(r) /\ UNCHANGED switch)

Spec == Init /\ [][Next]_vars

\* Each request runs on a worker thread of its own, and a port call returns or
\* raises; nothing makes a restart happen.
FairSpec == Spec /\ \A r \in Requests : WF_vars(Step(r))

------------------------------------------------------------------------------
(* Properties.                                                             *)

TypeOK ==
    /\ switch  \in Switch
    /\ stage   \in [Requests -> Stages]
    /\ left    \in [Requests -> 0..MaxItems]
    /\ verdict \in [Requests -> Decisions \cup {"none"}]
    /\ memo    \in [Requests -> {"none", "drafted", "discarded"}]
    /\ decided \in [Requests -> Decisions \cup {"none"}]
    /\ blocked \in [Requests -> Nat]
    /\ refused \in [Requests -> Nat]
    /\ console \subseteq Requests
    /\ routing \in [Requests -> Outcomes]
    /\ answer  \in [Requests -> Answers]

\* A completed review owes the trail nothing: its own record agrees with what
\* the caller was told, and every refusal it met on the way has one.
CompletedReviewsAreOnTheTrail ==
    \A r \in Requests : answer[r] = "reviewed" =>
        /\ decided[r] # "none" /\ decided[r] = verdict[r]
        /\ blocked[r] = refused[r]

\* No officer is shown a proposal that the trail does not hold as escalated.
DecidedBeforeRouted == \A r \in console : decided[r] = "escalated"

\* What the caller has been told, the outcome of the hand-off included.
Reply == [r \in Requests |-> IF answer[r] = "reviewed" THEN routing[r] ELSE answer[r]]

Protocol == INSTANCE ReviewProtocol WITH desk <- console, reply <- Reply

\* The pipeline keeps every promise of the review protocol: a proposal reaches a
\* desk only once recorded as escalated, and a completed review says what became
\* of its hand-off.
ProtocolSpec == Protocol!Spec

\* Whatever the ports do, every request taken up ends with an answer or a restart.
EveryReviewEnds == \A r \in Requests : At(r, "read") ~> answer[r] # "pending"

\* The most calls the thread of a request still has to make: three for each item
\* left and three for a memo, and one to read, evaluate, record, route and answer.
Calls(at, items, categorising) ==
    CASE at = "idle"     -> 3 * MaxItems + 9
      [] at = "read"     -> 3 * MaxItems + 8
      [] at = "input"    -> 3 + IF categorising THEN 3 * (items - 1) + 7 ELSE 2
      [] at = "generate" -> 2 + IF categorising THEN 3 * (items - 1) + 7 ELSE 2
      [] at = "output"   -> 1 + IF categorising THEN 3 * (items - 1) + 7 ELSE 2
      [] at = "evaluate" -> 7
      [] at = "record"   -> 6
      [] at = "route"    -> 2
      [] at = "answer"   -> 1
      [] at = "done"     -> 0

CallsLeft(r) == Calls(stage[r], left[r], Categorising(r))

\* No fault sends a review back to something it has done: each step of its thread
\* leaves it fewer calls to make, and nothing another request does leaves it more.
FaultsNeverPutAReviewBack ==
    [][\A r \in Requests : /\ CallsLeft(r)' <= CallsLeft(r)
                           /\ stage'[r] # stage[r] \/ Step(r) => CallsLeft(r)' < CallsLeft(r)]_vars

\* watchlist_service.py: _draft_memo discards "on any failure"; docs/model-card.md:
\* "A discarded memo costs a paragraph, never a decision".
ADraftFaultCostsAParagraph ==
    [][\A r \in Requests : At(r, "generate") /\ verdict[r] = "escalated"
                           /\ stage' # stage
                           => answer'[r] # "error"]_vars
==============================================================================
