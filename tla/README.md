# Credit portfolio early warning: formal models

TLA+ models of the watchlist service in `src/` (`credit_portfolio_ews`), the TLC
configurations that check them on small instances, and proofs that TLAPS checks
for every value of the constants. Paths below are relative to
`src/src/credit_portfolio_ews/` unless they start with `docs/` or `SPEC.md`.

## 1. The system

The service reviews obligors on a bank's watchlist. One review reads six things
from four systems of record, lets a language model do one bounded job (name the
category of a media item that is already confirmed to be about the obligor),
computes a *proposal* with a deterministic engine, writes it to a WORM trail,
drafts a memo when a credit officer must look, and hands the proposal to a review
console. It never writes a grade: the registry moves only when an officer adopts
a proposal elsewhere.

| component | state it keeps | operations | what makes it correct |
|---|---|---|---|
| Early-warning engine (`domain/early_warning.py`) | none | `evaluate`, stages S1 to S16 | events bind the proposal, upgrades are earned, loss is never originated, soft evidence alone never classifies |
| Policy (`domain/policy.py`) | the loaded policy | `load_policy`, `validate_policy` | what `validate_policy` admits is enough for the engine's promises |
| Watchlist review service (`domain/watchlist_service.py`) | none of its own; one request is one thread | `review`, `sweep` | the trail has the decision before anyone acts on it; a model fault costs words, not decisions; a review ends |
| Systems of record (the four read ports) | grade, clean count, covenant terms, certificates, arrears, metrics, media | read only, from here | what they return is what the engine tests; an error is not an empty answer |
| Controls (`adapters/controls.py`) | the routing outcome of a request | `route`, `outcome` | the caller is told what really became of the hand-off |
| Review routers and payload (`adapters/*/review_router.py`, `adapters/_review_payload.py`) | the outbox | `route`, `review_to_payload` | what is reported routed is somewhere an officer can find it |
| Audit sinks (`adapters/*/audit.py`) | the trail, locally a hash chain | `record` | append only, verifiable |
| Guardrail, generation, redaction, memo validation (`adapters/*/guardrail.py`, `adapters/*/generation.py`, `domain/pii.py`, `domain/narration.py`) | none | `screen`, `generate`, `redacted_assessment`, `validate_memo` | a memo says only what the engine computed; what is masked stays masked |
| Configuration (`config.py`, `envread.py`, `config/settings.yaml`) | the settings, the container's cached ports | `Settings.load`, `resolve_profile`, `build_container`, `end_user_auth_kind` | a wrong deployment says so; no reading of it relaxes a control nobody chose to relax |
| API (`api/app.py`) | the posture frozen at import, the cached container | the routes and their dependencies | nobody unauthenticated is answered; every call ends |
| Agent tools, CLI (`agent/tools.py`, `cli/main.py`) | a container per call | `review_obligor`, the commands | an escalation is routed from inside the call |
| Offline estate, golden cases (`adapters/local/_fixtures.py`, `eval/datasets/golden_cases.jsonl`) | the shipped book | none | the verdicts published for it are the engine's |
| Review screen (`ui/app/page.tsx`) | a form | one review at a time | none of its own |

The hard behaviour is not in one call. An obligor's evidence changes between
reviews; the adoption of a proposal may come days after its review, on a file that
changed since; covenants roll to new periods, waivers run out, figures age; grades
climb back over months of clean periods. A review is a sequence of calls to other
systems, any of which can fail or be overtaken, with a process that may restart
between any two of them. And the process itself reads its deployment more than once: the
import freezes a network guard, the first request loads the settings again and builds a
container, lazily and without a lock, on whichever worker threads come first.

## 2. Modules

```
WatchTaxonomy            grades, severities, families, statuses (closed enums)
  EarlyWarningPolicy     the policy record, the shipped values, validate_policy
  CovenantLadder         stages S2, S3: one status per covenant
    EarlyWarningEngine   stages S1 to S16: evaluate(file, policy, day), required_approvals
      ObligorMonitoring  one obligor over days: evidence, reviews, adoptions
        ObligorRatchet   its refinement of GradeRatchet, and its liveness
          MCObligorMonitoring   instances for TLC
          EvidenceReading       a review read call by call, over its adapters
            MCEvidenceReading   instances for TLC
      DemoEstate         the shipped obligors and the verdicts published for them
                         (used by MCObligorMonitoring)
GradeRatchet             abstract: how a grade of record may move
ReviewProtocol           abstract: what a review promises caller, trail and console
  WatchlistReview        the review pipeline: many requests, failures, restarts
Deployment               what an environment and a settings file make of the process
  MemoSeam               masking, the two screens, the narrators, memo validation, the payload
    Serving              the running process: import, caches, worker threads, hand-off
      MCServing          two dozen deployments for TLC
EngineProofs             theorems of the engine, for one evaluation
  ObligorProofs          of the obligor over time, and of its refinement
    FusionProofs         of the score: sums of weights, caps, bands
      WaitingProofs      of two evaluations a day apart
    ReadingProofs        of the review read call by call
ReviewProofs, ServingProofs    of the pipeline and of the service
```

**EarlyWarningEngine and below** translate `evaluate` as operators, one per method.
A file of evidence is one record: grade, clean count, last review date, covenant
terms, certificate rows (a sequence: the feed's order decides which of two rows
for one covenant and period counts), arrears snapshot, metric readings, news. Values
that the code compares are integers (ratios and amounts in the smallest unit the
policy uses; percentages in basis points, coverage rounded as the code rounds it);
names, references and summaries are left out. What is kept of a citation is whether a signal has
a locator, because an uncited rule makes `evaluate` raise.

**ObligorMonitoring** is the system over time. `file` is what the ports would
return, `today` the calendar, `last` the last assessment, `peak` a history
variable (the highest clean count since the grade last moved). The service's own
action is `Review(asked)`: resolve the test period as `_review_obligor` does, keep
that period's terms and certificates and the news of the clamped window, evaluate. The other actions belong to the systems around it and are marked external in the map: `Certify`
(a certificate or a restatement), `RollPeriod`, `Waive`, `Service` (arrears),
`Publish`, `Spread`, `CountClean`, `RestartCount`, `Tick`, and the officer's
`Adopt` and `Confirm`, possible only on a proposal that was escalated and still made on the grade of
record. One review is one step here, on one state of the file.

**GradeRatchet** is what the watchlist promises of the grade alone: down at once
but never to loss; up only a capped climb, on a clean history counted since the
last move. `ObligorRatchet` maps the detailed state onto it.

**EvidenceReading** takes the review apart. Its six reads are actions, in the code's
order, filling a `copy` of the file; the systems of record and the officers act between
them (`Meanwhile`), so that the engine may be handed a file that never existed. `stood` is a history variable: the facts
(open breaches, material days, a restructuring, a missing snapshot) on file at
every moment since the review began. `Erring` names the feeds that may answer with an
HTTP error: the adapters for the registry, the covenants and the media turn one into an empty body,
which each then reads as data; the warehouse, and every feed that is down, unconfigured
or answers 403, raises (`ReadFails`). A review begins and ends on one day.

**WatchlistReview** is the other half: it abstracts what the engine concludes and
keeps everything that happens around it. Each request has a stage (reading,
screening a prompt, generating, screening an answer, evaluating, recording,
routing, answering), and every port call may fail where the code lets it fail. The one seam to the model,
`_screened_generate`, serves both jobs. `Restart` loses the requests in flight and may bring the
routing switch up in the other position. **ReviewProtocol** is its abstract
specification: decide, then perhaps submit, then an answer that is honest about the
hand-off, or give up.

**DemoEstate** is the offline estate as data of the engine: each shipped obligor with its
terms, certificates, servicing snapshot, readings and media, money in units of 20, dates as days
before the sweep. `ObligorLadder` starts from these files, and from one of them put at every grade,
under the shipped policy; `TheBookIsGradedAsPublished` holds the model's first review of each
against the golden case that names it. It is the check that the engine of the model is the engine of the code.

**Deployment** is pure: an environment whose variables are unset, emptied or set, and a
settings file, go in; a refusal or the settings come out, with the profile each kind of
consumer reads (`ExposureProfile`, `BindProfile`), the bindings after the file's rebindings, the
control checks, the end-user posture and the model pill. **MemoSeam** is what leaves a
review and what comes back: an assessment is the figures the engine computed, the identifiers in its prose
and in its locators, its sources and its grades; the masking at the one seam, what each
guardrail can answer of a text, each narrator, `validate_memo`, the console's payload with its second masking.

**Serving** is the process. `Start` is the import of `api/app.py`, which freezes the guard from a load
of its own; `LoadSettings` and `Store` are `lru_cache` around `build_container`; `Admit` is a route's dependency,
`Resolve` the four families of identity adapters; `BindRouter` and `KeepRouter` are the two halves of a
`cached_property`; `Review` reads, evaluates, drafts and hands off; `Enqueue` and `Refer` are the two statements of the offline router,
`Submit` the managed one. `Edit` changes the settings file of a running process and `Restart` loses
what is in memory. The tools and the command line run beside the API on the same host, each call with a container of its own.
What a review concludes is here only whether it escalates: that is what the other modules are about.

## 3. Runs

| run | question | result |
|---|---|---|
| `ObligorCovenants` | one covenant at pass, and two of which only one rolls to its next period: certificates, restatements, waivers, roll-over, a fresh metric | TypeOK, FloorsBind, UpgradesAreEarned, NothingPassesUnseen, WaitingNeverUpgrades, AnUncuredBreachHoldsTheGrade hold |
| `ObligorArrears` | every arrears tier and both materiality legs, a missing snapshot, media, a metric, a restructuring, a policy that prices a floor at loss | FloorsBind, NothingPassesUnseen, LossIsOnlyAffirmed, BoundedFamiliesNeverClassifyAlone hold |
| `ObligorLadder` | the shipped book under the shipped policy, the whole ladder, up and down, with fairness | CrossingTakesTwo, FindingsReachTheirCaps, RatchetSpec (refinement), WatchlistHasAnExit, TheBookIsGradedAsPublished hold |
| `WatchlistReview` | two requests in flight, up to two media items each, every fault, restarts | TypeOK, CompletedReviewsAreOnTheTrail, DecidedBeforeRouted, FaultsNeverPutAReviewBack, ProtocolSpec (refinement), EveryReviewEnds hold |
| `EvidenceReading` | a review read call by call, while the file changes and grades are adopted, no feed erring | StandingFactsBind, QuietReviewIsAtomic, MovesStayEarned hold |
| `DoubtfulBand` | can doubtful be proposed without a breach or an arrears clock? | violated: it can |
| `ObservedBreach` | does an open breach bind every review? | violated: only a review of its own period |
| `Serving` | two dozen deployments, right and wrong, each imported, called by two threads, edited and restarted | TypeOK, WhoeverIsAnsweredWasAdmitted, NobodyIsBlamedForTheDeployment, AFailedHandOffIsTheConsoles, RoutedMeansHeld, NothingMaskedComesBack, ThePillNamesWhatAnswers, TheGuardAgreesWithTheAdapter, EveryCallIsAnswered hold |
| `PortFault` | is an error of a system of record ever read as an answer? | violated: an erring covenant service is a clean covenant sheet, an erring registry is a grade of pass |
| `DraftFault` | does a failed memo draft ever cost more than the memo? | violated: it can cost the review |
| `BootRefusal` | does a configuration that cannot work refuse at boot? | violated: it comes up, confined to loopback, and refuses at the first request |
| `OutboxRace` | is what was queued offline in the outbox the container keeps? | violated: two first reviews bind the router twice |

**The properties, and how they could fail.** They are stated over the raw evidence
on file (a certificate row that fails its covenant, days past due and amounts),
never over the statuses and signals the engine derived.

* `FloorsBind`: a breach of the reviewed period that no live waiver covers, two of them, one that repeats, a material
  past-due clock or a restructuring puts the proposal at its floor or worse,
  whatever the score and whatever the grade.
* `UpgradesAreEarned`: never out of a breach or material arrears, never on too few
  clean periods, never past the notch cap or the evidence.
* `NothingPassesUnseen`: when no officer is asked, the obligor is at pass and stays
  there, with nothing on file that a person should see.
* `LossIsOnlyAffirmed`: no policy and no evidence makes the engine originate a loss.
* `BoundedFamiliesNeverClassifyAlone`: media, or the bank's own process findings,
  do not move the band off pass however much of them there is.
* `FindingsReachTheirCaps`: a downgrade goes no further than the floor of an event on file, or than the caps of
  the families that count against the obligor reach together. It is the independence of sources
  `docs/conceptual-soundness.md` claims, in the form that holds: under the shipped policy one family alone
  never proposes worse than special mention, nor two of them doubtful, without a floor at it.
* `WaitingNeverUpgrades`: passing a day with no new record never turns a review into an
  upgrade, although figures go stale and stale figures stop counting against the obligor.
  A news item leaving the window a review reads, or the one the policy counts, is the exception, stated in the property.
* `AnUncuredBreachHoldsTheGrade`: a breach that was neither cured nor waived still holds the grade when its
  certificate passes the reporting lag, and the breach, its signal and its floor go with it. This and the previous one are
  about a coverage gate that one gap closes, as it is in the run (three pieces of evidence) and, under the shipped
  policy, for up to three covenants. With four covenants and six required metrics it is not: nine of ten is exactly the
  0.90 the code asks for, so once the certificate of a breach is 121 days old the next review may propose
  an upgrade, where `SPEC.md` says an observed breach is a fact. Section 4 has the hypothesis the theorems need.
* `CrossingTakesTwo`: each move of the grade across the non-performing line, days after
  its review, was made by a proposal that asked for two approvals.
* `RatchetSpec`: the refinement; no sequence of reviews, adoptions, restarts of the
  count and stale proposals lets one clean history pay for two climbs.
* `WatchlistHasAnExit`: an obligor whose file stays clean reaches pass from every grade,
  even though a missing review date is a high-severity finding that withholds upgrades.
* `StandingFactsBind`: a fact on file from the first read to the last binds the proposal
  and brings an officer in, although the six reads saw six different files. A fact that came
  or went in between may be missed, which is why this is not `FloorsBind`.
* `QuietReviewIsAtomic`: when nothing changed in between, the answer is that of `Review`, which
  is what makes the one-step review of `ObligorMonitoring` a fair model.
* `MovesStayEarned`: the ratchet's promise about moves of the grade, with torn reviews.
* `TheBookIsGradedAsPublished`: the grade, the movement, the review and the approvals of every golden case, from its obligor's own evidence.
* `WhoeverIsAnsweredWasAdmitted`: an end-user route answers a verified assertion, or a caller on the
  host itself, who under a deliberately chosen profile is the persona it names, or the default one. A forwarding header makes a caller
  of the loopback interface a stranger. The two exceptions it states are the operator's: the demo opt-in, and a
  file edited under a running process, whose guard was frozen before the edit.
* `TheGuardAgreesWithTheAdapter`: the two readings of the deployment agree, whatever raised in between.
* `NobodyIsBlamedForTheDeployment`: 401 means that some credential would have done.
* `AFailedHandOffIsTheConsoles`, `RoutedMeansHeld`: what the caller is told of a hand-off is what became of it, with threads appending to the same outbox.
* `NothingMaskedComesBack`: a memo shown says no identifier that was masked in the text it was drafted from, and no proposal's prose holds one of any jurisdiction.
* `ThePillNamesWhatAnswers`: the health route names the model that drafts, with an adapter rebound within its posture too.
* `EveryCallIsAnswered`: none of the ways a call can fail leaves it without an answer.
* `FaultsNeverPutAReviewBack`: each step of a worker thread, a fault of a port included, leaves its review fewer
  calls to make, or ends it. A retry at the seam to the model would break it.
* `CompletedReviewsAreOnTheTrail`, `DecidedBeforeRouted`, `ProtocolSpec`,
  `EveryReviewEnds`: as their comments say.

**Bounds, and why they are enough.** The policies of the runs keep the shipped
weights, caps, bands and floors and scale the clocks to days, so that a calendar of
two or three days crosses every one: a lag and a grace of one day,
tiers at one, two and three days past due, a review clock of two. Two covenants are
the fewest for a second breach and for test periods that diverge; two certificate rows the fewest
for a restatement. `PeriodLength`, `MaxDay` and `MaxRows` bound
the calendar and the file; the clean count stops at the number an upgrade needs, above
which the code does not distinguish values. `ObligorLadder` keeps the shipped policy and the shipped dates: the calendar
is the day of the sweep (`FirstDay`, `MaxDay`), and only money is coarser, by a factor every amount of the book is a multiple of. `DoubtfulBand` uses the shipped policy
unchanged. `Lookback` is what callers ask of the media: the API's default of 180 days under the shipped policy, and
more, or less, than the clamp of the code allows under the scaled ones. `EvidenceReading` plays one day, on which one covenant rolls to its next period and another,
with no dates of its own, stays behind in breach: the fewest covenants for which the latest period changes between two reads.
Its two initial files have room for one more certificate and for one more metric respectively. For the pipeline, two requests are the fewest that interleave (a request
touches nothing of another's but the console, and is independent in it), and two items the fewest for
which categorising an item and going on to the next differ.
For the service, two threads are the fewest that race for a cache and `MaxCalls = 2` gives each a call, or one of them two; the
24 deployments are the documented ones with the mistakes each makes possible (a variable forgotten or emptied, a switch misspelt, a file missing, partial,
rebound or edited, the SDK not installed), and the 13 requests cover every route, every kind of peer and credential, and an `as_of` that is no date. The proofs have no such bounds. `CHECK_DEADLOCK` is off in the runs because each
system may really stop: the calendar and the evidence are bounded, and a pipeline whose requests were all answered has nothing to do.

**Fairness.** The pipeline assumes weak fairness of the thread serving each
request: the API runs each on a worker thread, and each port call has a timeout or returns.
Nothing makes a request arrive or a restart happen. `Serving` assumes the same of its threads (`WF_vars(Serve(t))`), and for the same reason: every
remote call of the managed adapters carries a deadline, and the local ones do not wait. `WatchlistHasAnExit` assumes what the bank's process does and this
code does not: reviews recur (`ReviewsRecur`), an officer eventually adopts or closes
what stays on the desk, and the registry counts clean periods. It says that the *code* leaves a way out, given such a process.

## 4. Proofs

`tlapm` checks the modules `EngineProofs`, `ObligorProofs`, `FusionProofs`, `WaitingProofs`, `ReadingProofs`,
`ReviewProofs`, `ServingProofs` and `GradeRatchet`. The assumptions are those the modules name:
`PolicyAssumption` (the policy is one `load_policy` accepts, with finitely many rules and integer weights: `IsPolicy /\ ValidPolicy`),
`CalendarAssumption`, `EvidenceAssumption` (the shapes of what the ports return; finitely many rows, and no reading or news item dated later than
the day it is read, which is the `as_of` the feeds compare with: `Returnable`),
`ItemsAssumption`, `TokensAssumption` (an identifier is not a figure of the engine) and `ServingAssumption` (the shapes of
deployments and requests). No bound of a run is among them: the theorems are of any number
of covenants, rows, days, requests, threads and deployments.

* `TypesHold` is inductive on its own; its work is that `evaluate`'s proposal is
  well-shaped for *every* valid policy (`EngineProofs`: `BandShape`, `Supported…`).
* `FloorsAlwaysBind`, `LossIsNeverOriginated` follow step by step from it: each
  event on the raw file is one of the engine's floors (`OpenBreachIsTested`,
  `ClockRuns`, `FloorsReach`), and the proposal is at least each floor short of loss (`ReviewBounds`).
* `UpgradesAreAlwaysEarned` needs one hypothesis that `validate_policy` does not establish,
  `ArrearsAreSevere`: the policy prices each past-due tier at high severity and positive weight. Without it,
  a policy that loads lets an obligor past due be upgraded. `NothingEverPassesUnseen` likewise
  needs the first past-due floor to be adverse. Both hold of the shipped policy.
* `MonitoringIsARatchet` is the refinement: every step of `ObligorMonitoring` is a step of
  `GradeRatchet` or a stutter. `GradeMovesAreEarned` then carries the abstract promise
  (`MovesEarned`) back through the mapping. `MovesEarned` rests on the inductive invariant
  `GradeRatchet!IInv`: the promise is about a move, which happens at an adoption, so the invariant must say that a *standing* offer stays
  earned while the registry's count moves under it, which is why `peak` exists: the count itself may have been restarted by then.
* `CrossingsTakeTwo` needs the invariant that the movement written in a proposal is the one its two grades make (`MovementIsTrue`).
* `BoundedFamiliesNeverDo` has two halves. `BoundedFamilyStaysAtPass` (`EngineProofs`) is the caps argument: a raw score above
  nothing in one bounded family only stays under the lowest adverse band, for all policies. `FusionProofs` then says that the raw
  scores are what they should be for any finite set of signals. The score is a fold, and no induction rule can be instantiated
  here, so every fact about a sum (`WeightSumShape`, `WeightSumRemove`, `WeightSumGrows`) is proved by smallest
  counterexample: among the finite sets that violate it one has least cardinality, and removing an element gives a smaller one.
  The invariant it needs is `EvidenceIsReturnable`, that the rows on file stay finitely many and undated ahead.
* `FindingsNeverExceedTheirCaps` has no hypothesis. A proposal worse than the grade of record is at the band or at a floor
  (`DowngradeHasASource`), the composite is no more than that of the counting families at their caps (`CapsBoundTheScore`), and
  the band climbs with the composite (`BandClimbs`).
* `DoubtfulNeedsAFloor` is the complement of `DoubtfulBand`: under a policy whose caps, all reached at once, stop short of the doubtful rung,
  nothing is downgraded to doubtful except by a floor priced at it. It speaks of the engine's floors, not of the raw evidence, because a
  breach certified without a date of receipt, or arrears of exactly the relative threshold, count for the engine and not for the property of the run.
* `WaitingNeverDoes` compares the evaluations of one file on two days. Every clock of the engine runs against the obligor, with two
  exceptions: a news item that lapses, which the property sets aside, and a covenant figure that goes stale and takes its finding with it
  (a metric that goes stale keeps its finding). That one leaves a gap in the evidence, and the gap must close the upgrade gate: the theorem assumes `OneGapClosesTheGate`,
  that one missing piece of evidence is below the policy's minimum coverage. Under the shipped minimum of 9000 that is so
  while a review asks for fewer than ten pieces, so for up to three covenants; with more, nine of ten are enough, and the
  upgrade is proposed. It also assumes that an overdue review has no negative weight. `GateStaysClosed` is the
  invariant: no covenant is ever added to a file, so the hypothesis on the initial files stays true of the file reviewed.
* `OldBreachesHoldTheGrade` needs the same `OneGapClosesTheGate`, and nothing else: a figure that fails its covenant, unwaived, is in
  breach while it is fresh and stale after (`FailingFigureIsBreachOrGap`); the first withholds an upgrade, and a gate one gap closes is passed by no stale test (`GateAsksForAll`).
* `StandingFactsAlwaysBind` rests on `StoodIInv`: what stands is on file now (`OnFile`), and every read that
  is done has it (`StoodIsHeld`). The facts only dwindle between two reads, so a read, once done,
  goes on holding what is left of them. It assumes that the covenant reads raise when they fail, which
  `PortFault` shows the managed adapter does not always do.
* `TornReviewsStayEarned` does not go through the refinement, because a torn review is not a step of the ratchet:
  it may offer a climb on a count that was restarted meanwhile. What saves it is `CountIsOfItsGrade`: the count a review holds was served by the
  grade it holds, or the grade has moved and the offer that moved it is spent, so nothing brings the old grade back before
  the review ends. That holds because grade and count come from one read, and one review of the obligor is under way at a time.
* `QuietReviewsAreAtomic` rests on `QuietIInv`, that what is held is what is on file, read by read.
* `MisleadingTakesTwo` is the complement of `PortFault`: that run lets both the registry and the covenant service err, and has to. While one of the two raises when
  it fails, `GradeIInv` (the grade held is the one on file) or `PeriodIInv` with `StoodIInv` (the covenants held are) keeps `AnErrorIsNotAnAnswer`.
* `TrailIsComplete`, `RoutedIsRecorded` and `PipelineKeepsTheProtocol` (`ReviewProofs`) rest on one
  inductive invariant of the pipeline, which ties each stage to what the trail and the console hold by then; `ReviewTypes` is its first conjunct.
* `FaultsPutNothingBack` counts the calls a review may still make (`CallsLeft`): every step of its thread lowers the count or ends the review, for any number of items.
  It is the safety half of `EveryReviewEnds`; the other half is the fairness of the thread.
* `ServingProofs` proves every safety property of the `Serving` run, from one inductive invariant. `LoadsAgree` says that a process whose file
  was not edited under it loads the same settings every time, the ones the guard was computed from: `GuardAgrees` follows, and with
  `PassedTheGuard` (a caller from beyond the host is past an open guard, and whoever is past `Admit` was resolved by the container it was admitted
  with) so does `AnsweredIsAdmitted`. `Holding` ties each stage to the container and the router a thread has, `Handed` to where its
  proposal is: `RoutedIsHeld` needs that what is shared only grows (`Grown`), so that another thread's step keeps it (`FrameKeeps`).
  `ControlsAreArmed` gives `FailedHandOffs`, `DraftedMemoIsFaithful` and `ItemIsClean` give `MaskingHolds`, for every answer a model may give.

  `OneAtATimeNothingIsLost` is the complement of `OutboxRace`: with a single worker thread `TheOutboxIsReachable` holds, because a thread that has bound
  a router keeps it before anyone binds another (`Kept`).

Only model-checked: the liveness properties `WatchlistHasAnExit`, `EveryReviewEnds` and `EveryCallIsAnswered` (fairness is
out of the prover's reach), and `TheBookIsGradedAsPublished`, which is about one book. Every other property of a passing run is a theorem.

## 5. Where code and documents disagree

* `DoubtfulBand`: the caps of the financial, behavioural and external families add up to exactly the doubtful rung, which
  `docs/conceptual-soundness.md` says needs a breach or an arrears clock. The trace has all three at their caps and nothing else.
* `ObservedBreach`: a review covers one period label, so an open breach of a covenant on
  an older label is not tested, where `SPEC.md` says an observed breach is a fact.
* `PortFault`: the managed adapters read an HTTP error other than 403 and 404 as an empty
  body, hence as an obligor without covenants, or at pass; the ports say neither may happen.
* `DraftFault`: the memo draft absorbs two exceptions; any other fails a review whose decision is already on the trail, before it is routed.
* `BootRefusal`: the import swallows the refusal of an unworkable configuration, which the settings file and the runbook call a refusal to boot.
* `OutboxRace`: the container binds the offline router without a lock, so an outbox with a proposal in it may be dropped, which the runbook says can be inspected and flushed.

## 6. Not modelled, and the plan

`PROJECT.json` lists each component with its status. Left out, and why:

* The review console, the review kit, the service kit, the identity provider's library and the embedded store are not in the repository. They are modelled from
  how the code uses them, so nothing is claimed of which of two submissions with one source key the console keeps, of the hash chain and its anchor, or
  of two queries on one connection.
* Text: prompts, summaries, formatting, the patterns themselves. Where a property is about text, it is the set of number tokens, sources and grades in it.
* The parsing of a policy from a settings file. The models start from a policy record; that a rule may ask for zero consecutive periods and still load is
  listed as a hazard without a property.
* The generator of the larger synthetic book, the scoring and model-risk reports, the demonstration scripts, the browser page and the deployment descriptions: they run
  outside a review and keep no state a review reads. The one obligor of the shipped estate that belongs to another tenant is a case of `Serving`, not of `DemoEstate`.
* The managed feeds' SQL, the request schemas' own validation (a malformed `as_of` is modelled), CORS.

Three assumptions of the models are not this code's to keep. Of several proposals for one
obligor only the last one reviewed may be adopted (the console and the registry
decide that), and a proposal is adopted only on the grade it was made on.
`EvidenceReading` has one review of the obligor under way at a time, where two callers may
ask for the same one at once. And `Serving` gives a tool call the process's environment and file, as a tool on the same host has.

In the order they are worth doing:

1. `PolicyLoading`: which settings files become a policy, and which of them the engine can
   evaluate without raising.
2. `Serving` over `WatchlistReview`: the two pipelines abstract each other's half, and a refinement would say so.
3. Proofs: that the engine never raises on a policy of `PolicyLoading`.
