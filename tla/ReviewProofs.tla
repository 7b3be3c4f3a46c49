----------------------------- MODULE ReviewProofs ----------------------------
(***************************************************************************)
(* Proofs about WatchlistReview for any set of requests and any number of  *)
(* media items.  The inductive invariant says, for each stage of a         *)
(* request, what it has already put where: nothing on the console or the   *)
(* trail before its turn, the engine's verdict and the trail in agreement  *)
(* after, and the trail never short of a refusal while the request can     *)
(* still complete.                                                         *)
(***************************************************************************)
EXTENDS WatchlistReview, TLAPS

\* Where a request has got to says what it has left behind.
Kept(r)      == r \notin console /\ routing[r] = "not_required"
Unscored(r)  == Kept(r) /\ verdict[r] = "none" /\ decided[r] = "none"
Scored(r)    == Kept(r) /\ verdict[r] \in Decisions /\ decided[r] = "none"
OnRecord(r)  == Kept(r) /\ verdict[r] \in Decisions /\ decided[r] = verdict[r]
Drafting(r)  == OnRecord(r) /\ verdict[r] = "escalated"
HandedOff(r) == /\ verdict[r] \in Decisions /\ decided[r] = verdict[r]
                /\ verdict[r] = "allowed" => Kept(r)
                /\ verdict[r] = "escalated" /\ r \in console =>
                      routing[r] \in {"routed", "failed"}
                /\ verdict[r] = "escalated" /\ r \notin console =>
                      routing[r] \in {"failed", "off"}

StageIsConsistent(r) ==
    /\ stage[r] \in {"idle", "read", "evaluate"} => Unscored(r)
    /\ stage[r] \in {"input", "generate", "output"} =>
          Drafting(r) \/ (Unscored(r) /\ left[r] > 0)
    /\ stage[r] = "record" => Scored(r)
    /\ stage[r] = "route" => OnRecord(r)
    /\ stage[r] = "answer" \/ answer[r] = "reviewed" => HandedOff(r)
    /\ stage[r] = "done" <=> answer[r] # "pending"
    /\ stage[r] # "done" \/ answer[r] = "reviewed" => blocked[r] = refused[r]
    /\ r \in console => decided[r] = "escalated"

IInv == TypeOK /\ \A r \in Requests : StageIsConsistent(r)

\* A thread's step touches no other request.
Frame(r) ==
    \A q \in Requests \ {r} :
        /\ stage'[q] = stage[q] /\ left'[q] = left[q] /\ verdict'[q] = verdict[q]
        /\ decided'[q] = decided[q] /\ blocked'[q] = blocked[q]
        /\ refused'[q] = refused[q] /\ routing'[q] = routing[q]
        /\ answer'[q] = answer[q] /\ (q \in console' <=> q \in console)

LEMMA InitIInv == Init => IInv
BY ItemsAssumption
   DEF Init, IInv, TypeOK, StageIsConsistent, Unscored, Kept, Stages, Decisions, Outcomes,
       Answers, Switch

\* One lemma per group of steps: what a thread's step leaves behind.
LEMMA ThreadStep ==
    ASSUME NEW r \in Requests, IInv, Step(r)
    PROVE  TypeOK' /\ StageIsConsistent(r)' /\ Frame(r)
<1> USE ItemsAssumption
    DEF IInv, TypeOK, StageIsConsistent, Frame, Unscored, Scored, OnRecord, Drafting,
        HandedOff, Kept, Stages, Decisions, Outcomes, Answers, Switch, Goto, Finish, At,
        evidence, trail
<1>1. CASE Read(r) \/ ReadFails(r)
  BY <1>1 DEF Step, Read, ReadFails
<1>2. CASE ScreenAllows(r)
  BY <1>2 DEF Step, ScreenAllows, EndJob, Categorising
<1>3. CASE ScreenRefuses(r)
  BY <1>3 DEF Step, ScreenRefuses, Refuse, EndJob, Categorising, Fail
<1>4. CASE Generate(r)
  BY <1>4 DEF Step, Generate
<1>5. CASE GenerateFails(r)
  BY <1>5 DEF Step, GenerateFails, EndJob, Categorising, Fail
<1>6. CASE Evaluate(r)
  BY <1>6 DEF Step, Evaluate, Fail
<1>7. CASE Record(r)
  BY <1>7 DEF Step, Record, Fail
<1>8. CASE Route(r)
  BY <1>8 DEF Step, Route, HandOff
<1>9. CASE Answer(r)
  BY <1>9 DEF Step, Answer
<1>10. QED
  BY <1>1, <1>2, <1>3, <1>4, <1>5, <1>6, <1>7, <1>8, <1>9 DEF Step

\* What a frame leaves alone stays consistent.
LEMMA FrameKeeps ==
    ASSUME NEW r \in Requests, NEW q \in Requests \ {r}, StageIsConsistent(q), Frame(r)
    PROVE  StageIsConsistent(q)'
BY DEF StageIsConsistent, Frame, Unscored, Scored, OnRecord, Drafting, HandedOff, Kept

LEMMA ArriveStep ==
    ASSUME NEW r \in Requests, IInv, Arrive(r), UNCHANGED switch
    PROVE  TypeOK' /\ StageIsConsistent(r)' /\ Frame(r)
BY DEF IInv, TypeOK, StageIsConsistent, Frame, Unscored, Kept, Stages, Goto, At, Arrive,
       evidence, trail

\* A restart only closes what was open.
LEMMA RestartStep ==
    ASSUME IInv, Restart
    PROVE  IInv'
<1> USE DEF IInv, TypeOK, Restart, Open, Stages, Answers, Switch, evidence, trail
<1>1. TypeOK'
  OBVIOUS
<1>2. ASSUME NEW q \in Requests
      PROVE  StageIsConsistent(q)'
  BY DEF StageIsConsistent, Unscored, Scored, OnRecord, Drafting, HandedOff, Kept
<1>3. QED
  BY <1>1, <1>2

LEMMA NextIInv ==
    ASSUME IInv, [Next]_vars
    PROVE  IInv'
<1>1. CASE Restart
  BY <1>1, RestartStep
<1>2. ASSUME NEW r \in Requests, Step(r) \/ (Arrive(r) /\ UNCHANGED switch)
      PROVE  IInv'
  <2>1. TypeOK' /\ StageIsConsistent(r)' /\ Frame(r)
    BY <1>2, ThreadStep, ArriveStep
  <2>2. ASSUME NEW q \in Requests \ {r}
        PROVE  StageIsConsistent(q)'
    BY <2>1, <2>2, FrameKeeps DEF IInv
  <2>3. QED
    BY <2>1, <2>2 DEF IInv
<1>3. CASE UNCHANGED vars
  BY <1>3 DEF IInv, TypeOK, vars, StageIsConsistent, Unscored, Scored, OnRecord, Drafting,
              HandedOff, Kept
<1>4. QED
  BY <1>1, <1>2, <1>3 DEF Next

\* Every stage of every request is consistent with what it left behind.
THEOREM PipelineIsConsistent == Spec => []IInv
<1>1. IInv /\ [Next]_vars => IInv'
  BY NextIInv
<1>2. QED
  BY <1>1, InitIInv, PTL DEF Spec

\* The pipeline's state is of its types whatever the ports answer.
THEOREM ReviewTypes == Spec => []TypeOK
<1>1. IInv => TypeOK
  BY DEF IInv
<1>2. QED
  BY <1>1, PipelineIsConsistent, PTL

\* A completed review owes the WORM trail nothing (_record_audit, _screen).
THEOREM TrailIsComplete == Spec => []CompletedReviewsAreOnTheTrail
<1>1. IInv => CompletedReviewsAreOnTheTrail
  BY DEF IInv, StageIsConsistent, HandedOff, Decisions, CompletedReviewsAreOnTheTrail
<1>2. QED
  BY <1>1, PipelineIsConsistent, PTL

\* No proposal reaches an officer ahead of its record (_review_obligor).
THEOREM RoutedIsRecorded == Spec => []DecidedBeforeRouted
<1>1. IInv => DecidedBeforeRouted
  BY DEF IInv, TypeOK, StageIsConsistent, DecidedBeforeRouted
<1>2. QED
  BY <1>1, PipelineIsConsistent, PTL

------------------------------------------------------------------------------
(* The pipeline implements the review protocol.                            *)

LEMMA ProtocolInit == Init => Protocol!Init
BY DEF Init, Protocol!Init, Reply

\* A step that leaves the record, the desk and the answers alone is a stutter.
LEMMA SilentStep ==
    ASSUME IInv, UNCHANGED <<decided, console, answer>>,
           \A q \in Requests : answer[q] = "reviewed" => routing'[q] = routing[q]
    PROVE  UNCHANGED Protocol!vars
BY DEF Protocol!vars, Reply

\* A request that fails gives up, whatever it wrote before.
LEMMA FailingStep ==
    ASSUME IInv, NEW r \in Requests, stage[r] # "done", UNCHANGED <<decided, console, routing>>,
           NEW a \in {"not_found", "forbidden", "error"}, answer' = [answer EXCEPT ![r] = a]
    PROVE  Protocol!Next
<1>1. answer[r] = "pending"
  BY DEF IInv, StageIsConsistent
<1>2. Reply' = [q \in Requests |-> IF q \in {r} THEN a ELSE Reply[q]]
  BY <1>1 DEF IInv, TypeOK, Reply
<1>3. Protocol!GiveUp({r})
  BY <1>1, <1>2 DEF Protocol!GiveUp, Protocol!Failures, Reply
<1>4. QED
  BY <1>3 DEF Protocol!Next

LEMMA RestartGivesUp ==
    ASSUME IInv, Restart
    PROVE  Protocol!Next
<1>1. \A q \in Open : answer[q] = "pending"
  BY DEF IInv, StageIsConsistent, Open
<1>2. Reply' = [q \in Requests |-> IF q \in Open THEN "lost" ELSE Reply[q]]
  BY DEF Restart, Reply
<1>3. Protocol!GiveUp(Open)
  BY <1>1, <1>2 DEF Protocol!GiveUp, Protocol!Failures, Reply, Restart, Open, trail
<1>4. QED
  BY <1>3 DEF Protocol!Next, Open

\* The one record a review writes is the protocol's decision.
LEMMA RecordDecides ==
    ASSUME IInv, NEW r \in Requests, Record(r)
    PROVE  Protocol!Next
<1>1. stage[r] = "record" /\ Scored(r) /\ answer[r] = "pending"
  BY DEF IInv, Record, At, StageIsConsistent
<1>2. CASE UNCHANGED <<console, routing, answer>> /\ decided' = [decided EXCEPT ![r] = verdict[r]]
  <2>1. Protocol!Decide(r)
    BY <1>1, <1>2 DEF Protocol!Decide, Protocol!Decisions, Scored, Decisions, Reply
  <2>2. QED
    BY <2>1 DEF Protocol!Next
<1>3. CASE Fail(r)
  BY <1>1, <1>3, FailingStep DEF Fail, Finish, trail
<1>4. QED
  BY <1>2, <1>3 DEF Record

\* A hand-off puts the proposal on the desk at most once, and only then.
LEMMA RouteSubmits ==
    ASSUME IInv, NEW r \in Requests, Route(r)
    PROVE  [Protocol!Next]_(Protocol!vars)
<1>1. stage[r] = "route" /\ OnRecord(r) /\ answer[r] = "pending"
  BY DEF IInv, Route, At, StageIsConsistent
<1>2. \A q \in Requests : answer[q] = "reviewed" => routing'[q] = routing[q]
  BY <1>1 DEF Route, HandOff, IInv, TypeOK
<1>3. UNCHANGED <<decided, answer>>
  BY DEF Route, trail
<1>4. Reply' = Reply
  BY <1>2, <1>3 DEF Reply
<1>5. CASE console' = console
  BY <1>2, <1>3, <1>5, SilentStep
<1>6. CASE verdict[r] = "escalated" /\ console' = console \cup {r}
  <2>1. Protocol!Submit(r)
    BY <1>1, <1>3, <1>4, <1>6 DEF Protocol!Submit, OnRecord, Kept, Reply
  <2>2. QED
    BY <2>1 DEF Protocol!Next
<1>7. QED
  BY <1>5, <1>6 DEF Route, HandOff

LEMMA AnswerIsHonest ==
    ASSUME IInv, NEW r \in Requests, Answer(r)
    PROVE  Protocol!Next
<1>1. HandedOff(r) /\ answer[r] = "pending"
  BY DEF IInv, Answer, At, StageIsConsistent
<1>2. answer' = [answer EXCEPT ![r] = "reviewed"] /\ UNCHANGED <<decided, console, routing>>
  BY DEF Answer, Finish, trail
<1>3. Reply[r] = "pending" /\ Reply' = [Reply EXCEPT ![r] = routing[r]]
  BY <1>1, <1>2 DEF Reply, IInv, TypeOK
<1>4. routing[r] \in Protocol!Honest(r, decided[r])
  <2>1. CASE verdict[r] = "allowed"
    BY <1>1, <2>1 DEF HandedOff, Kept, Protocol!Honest
  <2>2. CASE verdict[r] = "escalated"
    BY <1>1, <2>2 DEF HandedOff, Protocol!Honest
  <2>3. QED
    BY <1>1, <2>1, <2>2 DEF HandedOff, Decisions
<1>5. Protocol!Answer(r)
  BY <1>2, <1>3, <1>4 DEF Protocol!Answer
<1>6. QED
  BY <1>5 DEF Protocol!Next

LEMMA ProtocolStep ==
    ASSUME IInv, [Next]_vars
    PROVE  [Protocol!Next]_(Protocol!vars)
<1>1. CASE Restart
  BY <1>1, RestartGivesUp
<1>2. CASE UNCHANGED vars
  BY <1>2, SilentStep DEF vars
<1>3. ASSUME NEW r \in Requests, Arrive(r)
      PROVE  [Protocol!Next]_(Protocol!vars)
  BY <1>3, SilentStep DEF Arrive, trail
<1>4. ASSUME NEW r \in Requests, Step(r)
      PROVE  [Protocol!Next]_(Protocol!vars)
  <2>1. CASE Fail(r) /\ stage[r] # "done"
    BY <2>1, FailingStep DEF Fail, Finish, trail
  <2>2. CASE ReadFails(r)
    BY <2>2, FailingStep DEF ReadFails, Finish, At, trail
  <2>3. CASE UNCHANGED <<decided, console, routing, answer>>
    BY <2>3, SilentStep
  <2>4. CASE Record(r)
    BY <2>4, RecordDecides
  <2>5. CASE Route(r)
    BY <2>5, RouteSubmits
  <2>6. CASE Answer(r)
    BY <2>6, AnswerIsHonest
  <2>7. QED
    BY <1>4, <2>1, <2>2, <2>3, <2>4, <2>5, <2>6
       DEF Step, Read, ScreenAllows, ScreenRefuses, Refuse, Generate, GenerateFails,
           Evaluate, At, trail
<1>5. QED
  BY <1>1, <1>2, <1>3, <1>4 DEF Next

\* Refinement: whatever the ports do and whenever the process restarts, the
\* pipeline keeps every promise of the review protocol.
THEOREM PipelineKeepsTheProtocol == Spec => ProtocolSpec
<1>1. IInv /\ [Next]_vars => [Protocol!Next]_(Protocol!vars)
  BY ProtocolStep
<1>2. QED
  BY <1>1, ProtocolInit, PipelineIsConsistent, PTL DEF Spec, ProtocolSpec, Protocol!Spec

------------------------------------------------------------------------------
(* No fault puts a review back.                                            *)

\* An item in its job is one of those left to categorise, unless it is a memo.
Counted(r) == stage[r] \in {"input", "generate", "output"} /\ Categorising(r) => left[r] > 0

LEMMA JobsAreCounted == ASSUME NEW r \in Requests, IInv PROVE Counted(r)
BY DEF IInv, TypeOK, Counted, StageIsConsistent, Drafting, OnRecord, Decisions, Categorising

LEMMA CountedNext == ASSUME NEW r \in Requests, IInv' PROVE Counted(r)'
BY DEF IInv, TypeOK, Counted, StageIsConsistent, Drafting, OnRecord, Decisions, Categorising

LEMMA CallsCount ==
    ASSUME NEW at \in Stages, NEW items \in 0..MaxItems, NEW categorising \in BOOLEAN,
           at \in {"input", "generate", "output"} /\ categorising => items > 0
    PROVE  /\ Calls(at, items, categorising) \in Nat
           /\ at # "done" => Calls(at, items, categorising) > 0
<1> DEFINE more == IF categorising THEN 3 * (items - 1) + 7 ELSE 2
<1>1. MaxItems \in Nat
  BY ItemsAssumption
<1>2. at \in {"input", "generate", "output"} => more \in Nat
  BY <1>1
<1>3. Calls(at, items, categorising) =
        CASE at = "idle"     -> 3 * MaxItems + 9
          [] at = "read"     -> 3 * MaxItems + 8
          [] at = "input"    -> 3 + more
          [] at = "generate" -> 2 + more
          [] at = "output"   -> 1 + more
          [] at = "evaluate" -> 7
          [] at = "record"   -> 6
          [] at = "route"    -> 2
          [] at = "answer"   -> 1
          [] at = "done"     -> 0
  BY DEF Calls
<1> HIDE DEF more
<1>4. QED
  BY <1>1, <1>2, <1>3 DEF Stages

\* Each step of its thread takes one call off, or more.
LEMMA ThreadProgress ==
    ASSUME NEW r \in Requests, IInv, Step(r)
    PROVE  CallsLeft(r)' < CallsLeft(r)
<1>1. /\ stage \in [Requests -> Stages] /\ left \in [Requests -> 0..MaxItems]
      /\ verdict \in [Requests -> Decisions \cup {"none"}] /\ MaxItems \in Nat
  BY ItemsAssumption DEF IInv, TypeOK
<1>2. StageIsConsistent(r)
  BY DEF IInv
<1>3. stage[r] \in {"input", "generate", "output"} =>
        Drafting(r) \/ (verdict[r] = "none" /\ left[r] >= 1)
  BY <1>1, <1>2 DEF StageIsConsistent, Unscored
<1> USE <1>1 DEF Goto, Finish, At, evidence, CallsLeft, Calls, Categorising, Stages,
        Decisions
<1>4. CASE Read(r) \/ ReadFails(r)
  BY <1>2, <1>4 DEF Read, ReadFails, StageIsConsistent, Unscored
<1>5. CASE ScreenAllows(r)
  BY <1>3, <1>5 DEF ScreenAllows, EndJob, Drafting, OnRecord
<1>6. CASE ScreenRefuses(r)
  BY <1>3, <1>6 DEF ScreenRefuses, Refuse, EndJob, Fail, Drafting, OnRecord
<1>7. CASE Generate(r)
  BY <1>3, <1>7 DEF Generate, Drafting, OnRecord
<1>8. CASE GenerateFails(r)
  BY <1>3, <1>8 DEF GenerateFails, EndJob, Fail, Drafting, OnRecord
<1>9. CASE Evaluate(r)
  BY <1>9 DEF Evaluate, Fail
<1>10. CASE Record(r)
  BY <1>2, <1>10 DEF Record, Fail, StageIsConsistent, Scored
<1>11. CASE Route(r) \/ Answer(r)
  BY <1>11 DEF Route, Answer
<1>12. QED
  BY <1>4, <1>5, <1>6, <1>7, <1>8, <1>9, <1>10, <1>11 DEF Step

\* No fault of a port sends a review back to something it has done: a request
\* takes at most 3 * MaxItems + 8 calls, whatever answers them.
THEOREM FaultsPutNothingBack == Spec => FaultsNeverPutAReviewBack
<1> DEFINE A == \A r \in Requests :
                  /\ CallsLeft(r)' <= CallsLeft(r)
                  /\ stage'[r] # stage[r] \/ Step(r) => CallsLeft(r)' < CallsLeft(r)
<1>1. IInv /\ [Next]_vars => [A]_vars
  <2> SUFFICES ASSUME IInv, [Next]_vars, NEW r \in Requests
               PROVE  /\ CallsLeft(r)' <= CallsLeft(r)
                      /\ stage'[r] # stage[r] \/ Step(r) => CallsLeft(r)' < CallsLeft(r)
    OBVIOUS
  <2>1. IInv'
    BY NextIInv
  <2>2. /\ CallsLeft(r) \in Nat /\ CallsLeft(r)' \in Nat
        /\ stage[r] # "done" => CallsLeft(r) > 0
    <3>1. /\ stage[r] \in Stages /\ left[r] \in 0..MaxItems
          /\ stage'[r] \in Stages /\ left'[r] \in 0..MaxItems
      BY <2>1 DEF IInv, TypeOK
    <3>2. Counted(r) /\ Counted(r)'
      BY <2>1, JobsAreCounted, CountedNext
    <3>3. Categorising(r) \in BOOLEAN /\ Categorising(r)' \in BOOLEAN
      BY DEF Categorising
    <3>4. QED
      BY <3>1, <3>2, <3>3, CallsCount DEF CallsLeft, Counted
  <2>3. CASE Step(r)
    BY <2>2, <2>3, ThreadProgress
  <2>4. ASSUME stage'[r] = stage[r], left'[r] = left[r], verdict'[r] = verdict[r]
        PROVE  CallsLeft(r)' = CallsLeft(r)
    BY <2>4 DEF CallsLeft, Categorising
  <2>5. CASE UNCHANGED vars /\ ~Step(r)
    BY <2>2, <2>4, <2>5 DEF vars
  <2>6. CASE Restart /\ ~Step(r)
    <3>1. \/ stage'[r] = "done" /\ stage[r] # "done"
          \/ stage'[r] = stage[r] /\ left' = left /\ verdict' = verdict
      BY <2>6 DEF Restart, Open, evidence
    <3>2. stage'[r] = "done" => CallsLeft(r)' = 0
      BY DEF CallsLeft, Calls
    <3>3. QED
      BY <2>2, <2>4, <2>6, <3>1, <3>2
  <2>7. CASE Arrive(r) /\ ~Step(r)
    <3>1. stage[r] = "idle" /\ stage'[r] = "read"
      BY <2>7 DEF Arrive, At, Goto, IInv, TypeOK
    <3>2. CallsLeft(r)' < CallsLeft(r)
      BY <3>1, ItemsAssumption DEF CallsLeft, Calls
    <3>3. QED
      BY <2>2, <3>2
  <2>8. ASSUME NEW q \in Requests \ {r}, Step(q) \/ (Arrive(q) /\ UNCHANGED switch), ~Step(r)
        PROVE  CallsLeft(r)' = CallsLeft(r) /\ stage'[r] = stage[r]
    <3>1. Frame(q)
      BY <2>8, ThreadStep, ArriveStep
    <3>2. QED
      BY <2>4, <3>1 DEF Frame
  <2>9. QED
    BY <2>2, <2>3, <2>5, <2>6, <2>7, <2>8 DEF Next
<1>2. QED
  BY <1>1, PipelineIsConsistent, PTL DEF Spec, FaultsNeverPutAReviewBack
==============================================================================
