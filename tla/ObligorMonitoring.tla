-------------------------- MODULE ObligorMonitoring --------------------------
(***************************************************************************)
(* One obligor on the watchlist over time.  The systems of record around   *)
(* the service change its evidence (a certificate arrives or is restated,  *)
(* a covenant rolls to its next period, arrears build up, news is          *)
(* published, days pass); reviews evaluate whatever the file holds that    *)
(* day; a credit officer may adopt what a review proposed, which is the    *)
(* only way the grade of record moves, because this build has no write     *)
(* path to the registry.                                                   *)
(***************************************************************************)
EXTENDS EarlyWarningEngine

CONSTANTS
    Policy,          \* the loaded policy
    InitialFiles,    \* the files an obligor may start with
    Values,          \* covenant values a certificate may report
    Expiries,        \* days a waiver may run to
    Snapshots,       \* arrears snapshots the servicing feed may return
    Stories,         \* news items, before they are dated
    Readings,        \* metric readings, before they are dated
    TestPeriods,     \* periods a caller may name, NoPeriod to leave it open
    Lookback,        \* days of news a caller asks for, 180 where it says nothing
    PeriodLength,    \* days in a covenant test period
    FirstDay,        \* the day the obligor is first looked at
    MaxDay,          \* bound: the last day modelled
    MaxRows          \* bound: certificate rows, and readings, on file

------------------------------------------------------------------------------
(* The shapes of what the ports return.                                    *)

\* Test periods are numbered in the order their labels sort; a term or a
\* request may carry no label.
NoPeriod == 0

TermType ==
    [id : STRING, period : Nat, periodEnd : OptionalDates, due : OptionalDates,
     op : Operators, threshold : Int, headroom : Int, waiver : BOOLEAN,
     expiry : OptionalDates, consecutive : Nat, located : BOOLEAN]

CertificateType ==
    [id : STRING, period : Nat, usable : BOOLEAN, value : Int,
     received : OptionalDates]

ArrearsType ==
    [known : BOOLEAN, days : Nat, pastDue : Nat, drawn : Nat, located : BOOLEAN]

ReadingType ==
    [metric : STRING, value : Int, ratio : BOOLEAN, asOf : Nat, ref : Nat,
     located : BOOLEAN]

NewsType ==
    [id : STRING, relevance : Relevances, category : STRING, published : Nat,
     located : BOOLEAN]

FileType ==
    [grade : Grades, clean : Nat, lastReview : OptionalDates, located : BOOLEAN,
     terms : SUBSET TermType, certificates : Seq(CertificateType),
     arrears : ArrearsType, window : SUBSET ReadingType, news : SUBSET NewsType]

\* What the feeds' queries return by a given day: finitely many rows, and no
\* reading or news item of a later day.
Returnable(f, day) ==
    /\ IsFiniteSet(f.terms) /\ IsFiniteSet(f.window) /\ IsFiniteSet(f.news)
    /\ \A o \in f.window : o.asOf <= day
    /\ \A n \in f.news : n.published <= day

ASSUME PolicyAssumption == IsPolicy(Policy) /\ ValidPolicy(Policy)

ASSUME CalendarAssumption ==
    /\ PeriodLength \in Nat \ {0} /\ MaxDay \in Nat /\ MaxRows \in Nat
    /\ FirstDay \in 0..MaxDay

ASSUME EvidenceAssumption ==
    /\ \A f \in InitialFiles : f \in FileType /\ Returnable(f, FirstDay)
    /\ Values \subseteq Int
    /\ Expiries \subseteq Nat
    /\ Snapshots \subseteq ArrearsType
    /\ \A s \in Stories : s \in [id : STRING, category : STRING,
                                 relevance : Relevances, located : BOOLEAN]
    /\ TestPeriods \subseteq Nat /\ Lookback \in Int
    /\ \A r \in Readings : r \in [metric : STRING, value : Int, ratio : BOOLEAN]

------------------------------------------------------------------------------
VARIABLES
    today,  \* the calendar day
    file,   \* the evidence the ports return for the obligor
    last,   \* the last review: an assessment, Unreviewed, or Ungrounded
    peak    \* history: the highest clean count since the grade last moved

vars == <<today, file, last, peak>>

Unreviewed == [outcome |-> "unreviewed"]
Ungrounded == [outcome |-> "ungrounded"]

\* A review that came to an assessment, with the test period it echoes.
Assessed(period, a) ==
    [outcome |-> "assessed", period |-> period, assessment |-> a]

IsAssessed == last.outcome = "assessed"

------------------------------------------------------------------------------
(* The systems of record.                                                  *)

\* A compliance certificate for a term's current period, or a restatement.
Certify(t, v) ==
    /\ Len(file.certificates) < MaxRows
    /\ file' = [file EXCEPT !.certificates =
                   Append(@, [id |-> t.id, period |-> t.period, usable |-> TRUE,
                              value |-> v, received |-> today])]
    /\ UNCHANGED <<today, last, peak>>

\* The covenant desk opens the next test period once the current one ended,
\* counting the consecutive breaches upstream.
RollPeriod(t) ==
    /\ t.periodEnd # NoDate /\ t.periodEnd <= today
    /\ LET breached == StatusOf(t, file.certificates, Policy, today) = "breach"
           next == [t EXCEPT !.period      = @ + 1,
                             !.periodEnd   = @ + PeriodLength,
                             !.due         = IF @ = NoDate THEN @
                                                          ELSE @ + PeriodLength,
                             !.consecutive = IF breached THEN @ + 1 ELSE 0]
       IN  file' = [file EXCEPT !.terms = (@ \ {t}) \cup {next}]
    /\ UNCHANGED <<today, last, peak>>

Waive(t, until) ==
    /\ ~t.waiver
    /\ file' = [file EXCEPT !.terms =
                   (@ \ {t}) \cup {[t EXCEPT !.waiver = TRUE, !.expiry = until]}]
    /\ UNCHANGED <<today, last, peak>>

Service(a) ==
    /\ file' = [file EXCEPT !.arrears = a]
    /\ UNCHANGED <<today, last, peak>>

Publish(s) ==
    /\ \A n \in file.news : n.id # s.id
    /\ file' = [file EXCEPT !.news =
                   @ \cup {[id |-> s.id, relevance |-> s.relevance,
                            category |-> s.category, located |-> s.located,
                            published |-> today]}]
    /\ UNCHANGED <<today, last, peak>>

Spread(r) ==
    /\ Cardinality(file.window) < MaxRows
    /\ \A o \in file.window : o.metric = r.metric => o.asOf < today
    /\ file' = [file EXCEPT !.window =
                   @ \cup {[metric |-> r.metric, value |-> r.value,
                            ratio |-> r.ratio, asOf |-> today, ref |-> 0,
                            located |-> TRUE]}]
    /\ UNCHANGED <<today, last, peak>>

\* The registry's own upkeep: it counts the clean periods, and starts over
\* when one was not clean.
CountClean ==
    /\ file.clean < Policy.cleanPeriods
    /\ file' = [file EXCEPT !.clean = @ + 1]
    /\ peak' = AtLeast(peak, file.clean + 1)
    /\ UNCHANGED <<today, last>>

RestartCount ==
    /\ file.clean > 0
    /\ file' = [file EXCEPT !.clean = 0]
    /\ UNCHANGED <<today, last, peak>>

Tick ==
    /\ today < MaxDay
    /\ today' = today + 1
    /\ UNCHANGED <<file, last, peak>>

------------------------------------------------------------------------------
(* The service and the officer.                                            *)

\* One period is reviewed at a time: the one the caller named, or else the
\* latest that any term on the feed carries.
PeriodOf(asked, terms) ==
    IF asked # NoPeriod THEN asked
    ELSE Max({NoPeriod} \cup {t.period : t \in terms})

Resolved(asked) == PeriodOf(asked, file.terms)

\* What is asked of the media feed: what the caller wants, up to the policy's
\* maximum, and at least a day; and what it returns.
NewsWindow  == AtLeast(1, AtMost(Lookback, Policy.lookback))
NewsOn(day) == {n \in file.news : day - n.published <= NewsWindow}

\* What a review of a period reads on a day: its terms, its certificates if it
\* has a label at all (a row of another period matches no term), the news
\* within the window, and all the rest.
EvidenceOn(period, day) ==
    [file EXCEPT !.terms        = {t \in @ : t.period = period},
                 !.certificates = IF period = NoPeriod THEN << >> ELSE @,
                 !.news         = NewsOn(day)]

EvidenceFor(period) == EvidenceOn(period, today)

\* The period the answer echoes, when there was anything of it to review.
Echoed(evidence, period) ==
    IF \/ \E t \in evidence.terms : t.period = period
       \/ \E i \in DOMAIN evidence.certificates :
             evidence.certificates[i].period = period
    THEN period ELSE NoPeriod

\* What a review comes to today: an uncited claim raises before any scoring.
\* A review that repeats the last one's answer leaves no new state.
OutcomeOn(evidence, period) ==
    IF Grounded(SignalsOf(evidence, Policy, today))
    THEN Assessed(Echoed(evidence, period), Evaluate(evidence, Policy, today))
    ELSE Ungrounded

Outcome(period) == OutcomeOn(EvidenceFor(period), period)

Review(asked) ==
    /\ last' = Outcome(Resolved(asked))
    /\ UNCHANGED <<today, file, peak>>

\* An officer adopts a routed proposal made on the grade still of record, which
\* may be days after the review; the registry then counts clean periods afresh.
Adopt ==
    /\ IsAssessed
    /\ last.assessment.decision = "escalated"
    /\ last.assessment.proposal.current = file.grade
    /\ last.assessment.proposal.proposed # file.grade
    /\ file' = [file EXCEPT !.grade = last.assessment.proposal.proposed,
                            !.clean = 0,
                            !.lastReview = last.assessment.asOf]
    /\ peak' = 0
    /\ UNCHANGED <<today, last>>

\* An officer closes a routed review that left the grade where it was.
Confirm ==
    /\ IsAssessed
    /\ last.assessment.decision = "escalated"
    /\ last.assessment.proposal.current = file.grade
    /\ last.assessment.proposal.proposed = file.grade
    /\ file' = [file EXCEPT !.lastReview = last.assessment.asOf]
    /\ UNCHANGED <<today, last, peak>>

Init ==
    /\ today = FirstDay
    /\ file \in InitialFiles
    /\ last = Unreviewed
    /\ peak = file.clean

Environment ==
    \/ \E t \in file.terms, v \in Values : Certify(t, v)
    \/ \E t \in file.terms : RollPeriod(t)
    \/ \E t \in file.terms, u \in Expiries : Waive(t, u)
    \/ \E a \in Snapshots : Service(a)
    \/ \E s \in Stories : Publish(s)
    \/ \E r \in Readings : Spread(r)
    \/ CountClean
    \/ RestartCount
    \/ Tick

Next == Environment \/ (\E n \in TestPeriods : Review(n)) \/ Adopt \/ Confirm

Spec == Init /\ [][Next]_vars

------------------------------------------------------------------------------
(* Properties.  They are stated over the raw evidence on file, not over    *)
(* what the engine derived from it on the way to its answer.               *)

ProposalType ==
    [current : Grades, band : Grades, floors : SUBSET FloorRules,
     ceiling : BOOLEAN, withheld : WithheldReasons, proposed : Grades,
     movement : Movements]

\* The obligor's file, the calendar and the review keep their shapes.
TypeOK ==
    /\ today \in 0..MaxDay
    /\ file \in FileType
    /\ peak \in Nat
    /\ \/ last \in {Unreviewed, Ungrounded}
       \/ /\ last.outcome = "assessed"
          /\ last.period \in Nat
          /\ last.assessment.asOf \in 0..MaxDay
          /\ last.assessment.proposal \in ProposalType
          /\ last.assessment.decision \in {"allowed", "escalated"}

\* The newest certificate row of a term's own period.
IsNewestRow(rows, i, t) ==
    /\ rows[i].id = t.id /\ rows[i].period = t.period
    /\ \A j \in DOMAIN rows :
          j > i => rows[j].id # t.id \/ rows[j].period # t.period

\* The newest figure among the rows fails the covenant, it is recent enough to
\* describe the obligor, and no waiver covers today.
OpenBreachIn(rows, t) ==
    /\ \E i \in DOMAIN rows :
          /\ IsNewestRow(rows, i, t)
          /\ rows[i].usable
          /\ ~Passes(rows[i].value, t.threshold, t.op)
          /\ rows[i].received # NoDate
          /\ today - rows[i].received <= Policy.lag
    /\ t.waiver => t.expiry < today

OpenBreach(t) == OpenBreachIn(file.certificates, t)

\* The open breaches of a labelled period.
OpenBreaches(period) ==
    {t \in file.terms : period # NoPeriod /\ t.period = period /\ OpenBreach(t)}

\* Days past due that clear both materiality legs.
MaterialDaysOf(a) ==
    IF /\ a.known
       /\ a.pastDue >= Policy.absolute
       /\ a.pastDue * 10000 > a.drawn * Policy.relative
    THEN a.days ELSE 0

MaterialDays == MaterialDaysOf(file.arrears)

\* A step that records a new assessment, the proposal in it, and the breaches
\* open in the period it reviewed.
Reviewed == last' # last /\ last'.outcome = "assessed"
Proposed == last'.assessment.proposal
Breaches == OpenBreaches(last'.period)

\* The proposal is at a rule's floor or worse, short only of loss.
Binds(rule) == Proposed.proposed >= AtMost(Policy.floors[rule], DOUBTFUL)

\* An event on file binds the proposal, whatever the score says: an open
\* breach of the period under review, a second one, or a past-due clock puts the proposed grade
\* at its floor or worse.  So does a restructuring inside the window.
FloorsBind ==
    [][Reviewed =>
             /\ Breaches # {} => Binds("floor-covenant-breach")
             /\ (\E s, t \in Breaches : s.id # t.id)
                   => Binds("floor-covenant-breach-repeat")
             /\ (\E t \in Breaches : t.consecutive >= 2)
                   => Binds("floor-covenant-breach-repeat")
             /\ MaterialDays >= Policy.sicr    => Binds("floor-arrears-sicr")
             /\ MaterialDays >= Policy.default => Binds("floor-arrears-default")
             /\ MaterialDays >= Policy.severe  => Binds("floor-arrears-severe")
             /\ Restructured(file.window)      => Binds("floor-restructured")]_vars

\* An upgrade rests on positive evidence: never out of an open breach, a
\* material past-due clock or too short a clean history, never further than
\* the notch cap, and never past where the evidence itself points.
UpgradesAreEarned ==
    [][Reviewed /\ Proposed.proposed < file.grade =>
         /\ Breaches = {}
         /\ MaterialDays < Policy.sicr
         /\ file.clean >= Policy.cleanPeriods
         /\ file.grade - Proposed.proposed <= Policy.notches
         /\ Proposed.proposed >= AtMost(Proposed.band, DOUBTFUL)]_vars

\* A review that asks nobody to look has nothing to hide: the obligor is at
\* pass, stays there, and no breach, material arrears or missing arrears
\* snapshot is on file.
NothingPassesUnseen ==
    [][Reviewed /\ last'.assessment.decision = "allowed" =>
         /\ file.grade = PASS /\ Proposed.proposed = PASS
         /\ Breaches = {}
         /\ MaterialDays < Policy.sicr
         /\ file.arrears.known]_vars

\* The engine never originates a loss classification, even under a policy
\* that prices a floor or a band at loss: it can only leave one in place.
LossIsOnlyAffirmed ==
    [][Reviewed /\ Proposed.proposed = LOSS => file.grade = LOSS]_vars

\* However long after its review, and however small the exposure, moving an
\* obligor into non-performing or back out of it took two approvals.
CrossingTakesTwo ==
    [][(file.grade \in NonPerforming) # (file'.grade \in NonPerforming)
         => RequiredApprovals(last.assessment.proposal, 0, Policy) = 2]_vars

\* Neither the family the model influences nor the one that measures the
\* bank's own file can lift the band off pass with no other family's help.
BoundedFamiliesNeverClassifyAlone ==
    [][\A n \in TestPeriods : Reviewed /\ last' = Outcome(Resolved(n)) =>
         LET signals == SignalsOf(EvidenceFor(Resolved(n)), Policy, today)
         IN  (\E f \in BoundedFamilies : \A s \in signals : s.weight > 0 => s.family = f)
             => Proposed.band = PASS]_vars

\* The families that count against the obligor, and the score were every one
\* of a set of families at its cap.
Scoring(signals) == {s.family : s \in {u \in signals : u.weight > 0}}
FullScore(families) ==
    Composite([f \in Families |-> IF f \in families THEN Policy.caps[f] ELSE 0], Policy)

\* Independent sources: a downgrade goes no further than an event's own floor,
\* or than the caps of the families that count against the obligor reach
\* together.  In the shipped policy one family alone never proposes worse
\* than special mention, nor two of them doubtful without a floor at it.
FindingsReachTheirCaps ==
    [][\A n \in TestPeriods : Reviewed /\ last' = Outcome(Resolved(n)) =>
         LET signals == SignalsOf(EvidenceFor(Resolved(n)), Policy, today)
         IN  \/ Proposed.proposed <= file.grade
             \/ \E r \in Proposed.floors : Policy.floors[r] >= Proposed.proposed
             \/ Band(FullScore(Scoring(signals)), Policy.bands) >= Proposed.proposed]_vars

\* docs/conceptual-soundness.md: the top rung "is above FINANCIAL plus
\* BEHAVIOURAL, so the most adverse proposal available needs a covenant breach
\* or an arrears clock behind it".
DoubtfulNeedsBreachOrClock ==
    [][Reviewed /\ Proposed.proposed = DOUBTFUL /\ file.grade < DOUBTFUL =>
         Breaches # {} \/ MaterialDays >= Policy.sicr]_vars

\* SPEC.md: "A term that HAS a usable observation is tested on it whatever the
\* calendar says, because an observed breach is a fact"; and
\* docs/conceptual-soundness.md: a covenant breach sets a floor, "the proposal
\* may be worse than the floor and never better".
AnObservedBreachIsAFact ==
    [][Reviewed /\ (\E t \in file.terms : OpenBreach(t))
         => Binds("floor-covenant-breach")]_vars

\* The newest figure received for a term's own period fails the covenant, however
\* long ago it came, and no waiver covers today.
FailsOnRecord(t) ==
    /\ \E i \in DOMAIN file.certificates :
          /\ IsNewestRow(file.certificates, i, t)
          /\ file.certificates[i].usable
          /\ ~Passes(file.certificates[i].value, t.threshold, t.op)
    /\ t.waiver => t.expiry < today

\* An old breach is not a cured one: while the newest figure of a covenant under
\* review fails, unwaived, there is no upgrade, although the reporting lag takes
\* the breach and its floor away.  A policy whose upgrade gate lets one stale
\* figure through is out of scope here too, and does upgrade.
AnUncuredBreachHoldsTheGrade ==
    [][Reviewed /\ (\E t \in file.terms : /\ t.period = last'.period
                                         /\ t.period # NoPeriod
                                         /\ FailsOnRecord(t))
         => Proposed.proposed >= file.grade]_vars

\* What a review of today's file would propose on a given day.
MovementOn(asked, day) ==
    ProposalOf(EvidenceOn(Resolved(asked), day), Policy, day).movement

\* A news item read today that tomorrow's review no longer reads, or no longer counts.
NewsLapses == \E n \in NewsOn(today) : today - n.published \in {NewsWindow, Policy.lookback}

\* Waiting is not evidence: with no new record on file, a day that passes can
\* only take an upgrade away.  A lapsed news item is the one exception, and a
\* policy whose upgrade gate lets one stale figure through is out of scope.
WaitingNeverUpgrades ==
    [][today' = today + 1 /\ ~NewsLapses =>
         \A n \in TestPeriods : MovementOn(n, today) # "upgrade"
                                => MovementOn(n, today + 1) # "upgrade"]_today
==============================================================================
