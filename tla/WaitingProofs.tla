----------------------------- MODULE WaitingProofs ---------------------------
(***************************************************************************)
(* Waiting is not evidence: what one more day, and nothing else, can do to *)
(* a proposal.  Every clock in the engine runs against the obligor, with   *)
(* two exceptions: a news item that lapses, and a covenant figure that     *)
(* goes stale, which takes its finding with it.  The first is set aside by *)
(* the property itself, the other is caught by the upgrade gate, if one    *)
(* gap in the evidence closes it.                                          *)
(***************************************************************************)
EXTENDS FusionProofs

------------------------------------------------------------------------------
(* The upgrade gate.                                                       *)

\* A policy under which one gap in that many pieces of evidence is too many.
ClosedByOneGap(most) ==
    \A of \in 1..most : (20000 * (of - 1) + of) \div (2 * of) < Policy.upgradeComplete

LEMMA GateNumbers ==
    \A n \in {Policy.grace, Policy.lag, Policy.reviewAge, Policy.lookback,
              Policy.upgradeComplete, Policy.cleanPeriods, Policy.notches} : n \in Int
BY PolicyNumbers DEF IsPolicy

LEMMA FewerDivideLess ==
    ASSUME NEW a \in Int, NEW b \in Int, NEW n \in Nat \ {0}, a <= b
    PROVE  a \div n <= b \div n
<1> DEFINE q == a \div n
           r == b \div n
<1>1. q \in Int /\ r \in Int
  OBVIOUS
<1>2. n * q <= a /\ b < n * r + n
  OBVIOUS
<1> HIDE DEF q, r
<1>3. ASSUME q > r PROVE FALSE
  <2>1. q >= r + 1
    BY <1>1, <1>3
  <2>2. n * q >= n * (r + 1)
    BY <1>1, <2>1
  <2>3. n * (r + 1) = n * r + n
    BY <1>1
  <2>4. QED
    BY <1>1, <1>2, <2>2, <2>3
<1>4. q <= r
  BY <1>1, <1>3
<1>5. QED
  BY <1>4 DEF q, r

\* A gate one gap closes is passed by none: nothing due is missing or stale, and
\* every required metric is fresh.
LEMMA GateAsksForAll ==
    ASSUME NEW tests, IsFiniteSet(tests), NEW window, NEW asOf,
           NEW most \in Nat, ClosedByOneGap(most),
           Cardinality(tests) + Cardinality(Policy.required) <= most,
           ~(Completeness(tests, window, Policy, asOf) < Policy.upgradeComplete)
    PROVE  /\ Evidenced(tests) = Closed(tests)
           /\ Covered(window, Policy, asOf) = Policy.required
<1> DEFINE c == Cardinality(Closed(tests))
           k == Cardinality(Policy.required)
           x == Cardinality(Evidenced(tests))
           y == Cardinality(Covered(window, Policy, asOf))
<1>1. IsFiniteSet(Closed(tests)) /\ IsFiniteSet(Policy.required) /\ Policy.required # {}
  <2>1. Closed(tests) \subseteq tests
    BY DEF Closed
  <2>2. QED
    BY <2>1, FS_Subset, PolicyAssumption DEF IsPolicy, ValidPolicy
<1>2. /\ Evidenced(tests) \subseteq Closed(tests)
      /\ Covered(window, Policy, asOf) \subseteq Policy.required
  BY DEF Evidenced, Covered
<1>3. /\ c \in Nat /\ k \in Nat /\ x \in Nat /\ y \in Nat
      /\ x <= c /\ y <= k /\ k # 0
      /\ x = c => Evidenced(tests) = Closed(tests)
      /\ y = k => Covered(window, Policy, asOf) = Policy.required
  <2>1. IsFiniteSet(Evidenced(tests)) /\ IsFiniteSet(Covered(window, Policy, asOf))
    BY <1>1, <1>2, FS_Subset
  <2>2. QED
    BY <1>1, <1>2, <2>1, FS_Subset, FS_CardinalityType, FS_EmptySet
<1>4. c + k <= most
  <2>1. Closed(tests) \subseteq tests
    BY DEF Closed
  <2>2. c <= Cardinality(tests) /\ Cardinality(tests) \in Nat
    BY <2>1, FS_Subset, FS_CardinalityType
  <2>3. QED
    BY <1>3, <2>2
<1>5. Completeness(tests, window, Policy, asOf)
        = (20000 * (x + y) + (c + k)) \div (2 * (c + k))
  BY <1>3 DEF Completeness
<1> HIDE DEF c, k, x, y
<1>6. ASSUME x + y # c + k PROVE FALSE
  <2> DEFINE of == c + k
             a  == 20000 * (x + y) + of
             b  == 20000 * (of - 1) + of
  <2>1. of \in 1..most /\ x + y <= of - 1
    BY <1>3, <1>4, <1>6
  <2>2. a \in Int /\ b \in Int /\ a <= b /\ 2 * of \in Nat \ {0}
    BY <1>3, <2>1
  <2>3. a \div (2 * of) <= b \div (2 * of)
    BY <2>2, FewerDivideLess
  <2>4. b \div (2 * of) < Policy.upgradeComplete
    BY <2>1 DEF ClosedByOneGap
  <2>5. a \div (2 * of) = Completeness(tests, window, Policy, asOf)
    BY <1>5
  <2>6. /\ a \div (2 * of) \in Int /\ b \div (2 * of) \in Int
        /\ Policy.upgradeComplete \in Int
    <3>1. \A u \in Int, v \in Nat \ {0} : u \div v \in Int
      OBVIOUS
    <3>2. QED
      BY <2>2, <3>1, GateNumbers
  <2> HIDE DEF a, b, of
  <2>7. QED
    BY <2>3, <2>4, <2>5, <2>6
<1>7. x = c /\ y = k
  BY <1>3, <1>6
<1>8. QED
  BY <1>3, <1>7

------------------------------------------------------------------------------
(* One more day on the same records.                                       *)

\* A term's certificate, when it has one, is a row of the feed.
LEMMA SelectedIsARow ==
    ASSUME NEW t, NEW rows \in Seq(CertificateType), RowsFor(t, rows) # {}
    PROVE  Selected(t, rows) \in CertificateType
<1> DEFINE R        == RowsFor(t, rows)
           after(i) == {j \in R : j > i}
           Bad      == {after(i) : i \in R}
<1>1. /\ DOMAIN rows = 1..Len(rows) /\ Len(rows) \in Nat
      /\ \A i \in DOMAIN rows : rows[i] \in CertificateType
  BY LenProperties
<1>2. R \subseteq 1..Len(rows) /\ IsFiniteSet(R)
  <2>1. R \subseteq 1..Len(rows)
    BY <1>1 DEF RowsFor
  <2>2. IsFiniteSet(1..Len(rows))
    BY <1>1, FS_Interval
  <2> HIDE DEF R
  <2>3. QED
    BY <2>1, <2>2, FS_Subset
<1> HIDE DEF R
<1>3. PICK i \in R : \A j \in R : ~(after(j) \subseteq after(i) /\ after(j) # after(i))
  <2>1. Bad \subseteq SUBSET R /\ Bad # {}
    BY DEF R
  <2> HIDE DEF Bad, after
  <2>2. ASSUME NEW B, B = Bad
        PROVE  \E T \in B : \A U \in B : ~(U \subseteq T /\ U # T)
    <3>1. IsFiniteSet(R) /\ B \subseteq SUBSET R /\ B # {}
      BY <1>2, <2>1, <2>2
    <3>2. QED
      BY <3>1, SmallestSet
  <2>3. PICK T \in Bad : \A U \in Bad : ~(U \subseteq T /\ U # T)
    BY <2>2
  <2>4. QED
    BY <2>3 DEF Bad
<1>4. ASSUME NEW j \in R, j > i PROVE FALSE
  <2>1. j \in Int /\ i \in Int /\ \A k \in R : k \in Int
    BY <1>2
  <2>2. \A k \in R : k > j => k > i
    BY <1>4, <2>1
  <2>3. after(j) \subseteq after(i)
    BY <2>2
  <2>4. j \in after(i) /\ j \notin after(j)
    BY <1>4, <2>1
  <2>5. QED
    BY <1>3, <2>3, <2>4
<1>5. \A j \in RowsFor(t, rows) : j \in Int /\ j <= i
  BY <1>2, <1>4 DEF R
<1>6. i \in RowsFor(t, rows)
  BY DEF R
<1>7. Selected(t, rows) = rows[i]
  BY <1>5, <1>6, NewestRowIsSelected
<1>8. QED
  BY <1>1, <1>2, <1>7

\* A term that is neither missing, stale nor in breach tomorrow has the status
\* it has today.
LEMMA StatusStands ==
    ASSUME NEW t \in TermType, NEW rows \in Seq(CertificateType), NEW day \in Int,
           StatusOf(t, rows, Policy, day + 1) \notin {"not_evidenced", "stale", "breach"}
    PROVE  StatusOf(t, rows, Policy, day) = StatusOf(t, rows, Policy, day + 1)
<1> DEFINE obs == Selected(t, rows)
           none == RowsFor(t, rows) = {} \/ ~obs.usable
<1>1. /\ t.periodEnd \in Int /\ t.due \in Int /\ t.expiry \in Int
      /\ Policy.grace \in Int /\ Policy.lag \in Int
  BY GateNumbers DEF TermType, OptionalDates, NoDate
<1>2. CASE none
  <2>1. NotYetDue(t, Policy, day + 1)
    BY <1>2 DEF StatusOf
  <2>2. NotYetDue(t, Policy, day)
    BY <1>1, <2>1 DEF NotYetDue
  <2>3. QED
    BY <1>2, <2>1, <2>2 DEF StatusOf
<1>3. CASE ~none
  <2>1. \A d \in Int : StatusOf(t, rows, Policy, d) = TestedStatus(t, obs, Policy, d)
    BY <1>3 DEF StatusOf
  <2>2. obs.received \in Int
    BY <1>3, SelectedIsARow DEF CertificateType, OptionalDates, NoDate
  <2> HIDE DEF obs, none
  <2>3. ~Stale(t, obs, Policy, day + 1)
    BY <2>1 DEF TestedStatus
  <2>4. ~Stale(t, obs, Policy, day)
    BY <1>1, <2>2, <2>3 DEF Stale, LagFrom
  <2>5. CASE Passes(obs.value, t.threshold, t.op)
    BY <2>1, <2>3, <2>4, <2>5 DEF TestedStatus
  <2>6. CASE ~Passes(obs.value, t.threshold, t.op)
    <3>1. WaiverLive(t, day + 1)
      BY <2>1, <2>3, <2>6 DEF TestedStatus
    <3>2. WaiverLive(t, day)
      BY <1>1, <3>1 DEF WaiverLive
    <3>3. QED
      BY <2>1, <2>3, <2>4, <2>6, <3>1, <3>2 DEF TestedStatus
  <2>7. QED
    BY <2>5, <2>6
<1>4. QED
  BY <1>2, <1>3

\* Evidence that passes the gate tomorrow, with no covenant in breach, is tested
\* today as it will be then, and is as complete.
LEMMA EvidenceStands ==
    ASSUME NEW f \in FileType, IsFiniteSet(f.terms), NEW day \in Int,
           \A o \in f.window : o.asOf <= day,
           NEW most \in Nat, ClosedByOneGap(most),
           Cardinality(f.terms) + Cardinality(Policy.required) <= most,
           ~(CompleteOf(f, Policy, day + 1) < Policy.upgradeComplete),
           BreachedIds(TestsOf(f, Policy, day + 1)) = {}
    PROVE  /\ TestsOf(f, Policy, day) = TestsOf(f, Policy, day + 1)
           /\ CompleteOf(f, Policy, day) = CompleteOf(f, Policy, day + 1)
<1> DEFINE next == TestsOf(f, Policy, day + 1)
<1>1. IsFiniteSet(next) /\ Cardinality(next) <= Cardinality(f.terms)
  BY FiniteTests DEF TestsOf
<1>2. Cardinality(next) + Cardinality(Policy.required) <= most
  <2>1. /\ Cardinality(next) \in Nat /\ Cardinality(f.terms) \in Nat
        /\ Cardinality(Policy.required) \in Nat
    BY <1>1, FS_CardinalityType, PolicyNumbers DEF IsPolicy
  <2>2. QED
    BY <1>1, <2>1
<1>3. ~(Completeness(next, f.window, Policy, day + 1) < Policy.upgradeComplete)
  BY DEF CompleteOf
<1>4. /\ Evidenced(next) = Closed(next)
      /\ Covered(f.window, Policy, day + 1) = Policy.required
  <2> HIDE DEF next
  <2>1. QED
    BY <1>1, <1>2, <1>3, GateAsksForAll
<1>5. ASSUME NEW t \in f.terms
      PROVE  CovenantTest(t, f.certificates, Policy, day)
               = CovenantTest(t, f.certificates, Policy, day + 1)
  <2> DEFINE test   == CovenantTest(t, f.certificates, Policy, day + 1)
             status == StatusOf(t, f.certificates, Policy, day + 1)
  <2>1. test \in next /\ test.status = status
    BY DEF TestsOf, CovenantTests, CovenantTest
  <2>2. status # "breach"
    BY <2>1 DEF BreachedIds
  <2>3. status \notin {"not_evidenced", "stale"}
    <3> HIDE DEF test, status, next
    <3>1. QED
      BY <1>4, <2>1 DEF Evidenced, Closed
  <2>4. t \in TermType /\ f.certificates \in Seq(CertificateType)
    BY DEF FileType
  <2>5. StatusOf(t, f.certificates, Policy, day) = status
    BY <2>2, <2>3, <2>4, StatusStands
  <2>6. QED
    BY <2>5 DEF CovenantTest
<1>6. TestsOf(f, Policy, day) = next
  BY <1>5 DEF TestsOf, CovenantTests
<1>7. Covered(f.window, Policy, day) = Policy.required
  <2>1. \A o \in f.window : o.asOf \in Int
    BY DEF FileType, ReadingType
  <2>2. ASSUME NEW m \in Policy.required PROVE m \in Covered(f.window, Policy, day)
    <3>0. m \in Covered(f.window, Policy, day + 1)
      BY <1>4
    <3>1. PICK o \in f.window : o.metric = m /\ day + 1 - o.asOf <= Policy.lag
      BY <2>1, <3>0, GateNumbers DEF Covered
    <3>2. o.asOf <= day /\ day - o.asOf <= Policy.lag
      BY <2>1, <3>1, GateNumbers
    <3>3. QED
      BY <3>1, <3>2 DEF Covered
  <2>3. QED
    BY <2>2 DEF Covered
<1>8. QED
  BY <1>4, <1>6, <1>7 DEF CompleteOf, Completeness

\* The rules fire tomorrow what they fire today, but for news that lapses.
LEMMA RulesStand ==
    ASSUME NEW f \in FileType, NEW day \in Int,
           \A n \in f.news : day - n.published # Policy.lookback
    PROVE  RuleSignals(f.window, f.news, Policy, day)
             = RuleSignals(f.window, f.news, Policy, day + 1)
<1>1. \A n \in f.news : n.published \in Int
  BY DEF FileType, NewsType
<1>2. \A n \in f.news : day - n.published <= Policy.lookback
                          <=> day + 1 - n.published <= Policy.lookback
  BY <1>1, GateNumbers
<1>3. \A r : ExternalSignals(r, f.news, Policy, day)
               = ExternalSignals(r, f.news, Policy, day + 1)
  <2> TAKE r
  <2> DEFINE items(d) == {n \in f.news : /\ n.relevance = "confirmed"
                                         /\ n.category = r.metric
                                         /\ d - n.published <= Policy.lookback}
  <2>1. items(day) = items(day + 1)
    BY <1>1, <1>2, GateNumbers
  <2>2. \A d : ExternalSignals(r, f.news, Policy, d)
                 = {RuleSignal(r, i.id, i.located) : i \in items(d)}
    BY DEF ExternalSignals
  <2> HIDE DEF items
  <2>3. QED
    BY <2>1, <2>2
<1>4. QED
  BY <1>3 DEF RuleSignals

\* The review clock only runs on: what it fires today it still fires tomorrow,
\* and what it adds is that the review is overdue.
LEMMA ClockRunsOn ==
    ASSUME NEW f \in FileType, NEW day \in Int
    PROVE  /\ ClockSignals(f, Policy, day) \subseteq ClockSignals(f, Policy, day + 1)
           /\ \A s \in ClockSignals(f, Policy, day + 1) \ ClockSignals(f, Policy, day) :
                 s.weight = Policy.clock["overdue"].weight
<1> DEFINE late == Signal("ews-review", "process", Policy.clock["overdue"].severity,
                          Policy.clock["overdue"].weight, "overdue", f.located)
           none == Signal("ews-review", "process", Policy.clock["absent"].severity,
                          Policy.clock["absent"].weight, "absent", f.located)
<1>1. f.lastReview \in Int
  BY DEF FileType, OptionalDates, NoDate
<1> DEFINE fired(d) == IF f.lastReview = NoDate THEN {none}
                       ELSE IF d - f.lastReview > Policy.reviewAge THEN {late} ELSE {}
<1>2. /\ ClockSignals(f, Policy, day) = fired(day)
      /\ ClockSignals(f, Policy, day + 1) = fired(day + 1)
  BY DEF ClockSignals
<1>3. day - f.lastReview > Policy.reviewAge => day + 1 - f.lastReview > Policy.reviewAge
  BY <1>1, GateNumbers
<1>4. late.weight = Policy.clock["overdue"].weight
  BY DEF Signal
<1> HIDE DEF late, none
<1>5. /\ fired(day) \subseteq fired(day + 1)
      /\ \A s \in fired(day + 1) \ fired(day) : s = late
  BY <1>1, <1>3, GateNumbers
<1>6. QED
  BY <1>2, <1>4, <1>5

------------------------------------------------------------------------------
(* When an upgrade is proposed.                                            *)

\* Exactly when the floored evidence is better than the grade and nothing
\* withholds the climb.
LEMMA UpgradeIsSupported ==
    ASSUME NEW p, IsPolicy(p), ValidPolicy(p), NEW f, f.grade \in Grades,
           NEW signals, NEW tests, NEW complete, NEW composite,
           NEW floors, floors \subseteq FloorRules
    PROVE  Proposal(f, signals, tests, complete, p, composite, floors).movement = "upgrade"
             <=> /\ UnderCeiling(Floored(Band(composite, p.bands), floors, p)) < f.grade
                 /\ Withheld(f, signals, tests, complete, p) = "none"
<1> DEFINE supported == UnderCeiling(Floored(Band(composite, p.bands), floors, p))
           held      == Withheld(f, signals, tests, complete, p)
           withheld  == IF supported < f.grade THEN held ELSE "none"
           proposed  == ProposedRank(f.grade, supported, withheld, p)
<1>1. Proposal(f, signals, tests, complete, p, composite, floors).movement
        = MovementOf(f.grade, proposed)
  BY DEF Proposal
<1>2. supported \in 0..4
  <2>1. Band(composite, p.bands) \in Grades
    BY BandIsAGrade DEF IsPolicy, ValidPolicy, Ladders
  <2>2. Floored(Band(composite, p.bands), floors, p) \in Grades
    BY <2>1, FlooringBinds DEF ValidPolicy
  <2>3. QED
    BY <2>2 DEF UnderCeiling, AtMost, Grades, PASS, LOSS, DOUBTFUL
<1>3. f.grade \in 0..4 /\ p.notches \in Int /\ p.notches >= 1
  BY DEF Grades, PASS, LOSS, IsPolicy, ValidPolicy, UpgradeOk
<1> HIDE DEF supported, held
<1>4. /\ proposed \in 0..4
      /\ proposed < f.grade => supported < f.grade /\ withheld = "none"
  <2>1. PICK n \in Int : n >= 1 /\ p.notches = n
    BY <1>3
  <2>2. QED
    BY <1>2, <1>3, <2>1, RankBounds
<1>5. supported < f.grade /\ held = "none" => proposed < f.grade
  BY <1>2, <1>3 DEF ProposedRank, AtLeast
<1> HIDE DEF proposed
<1>6. MovementOf(f.grade, proposed) = "upgrade" <=> proposed < f.grade
  BY <1>3, <1>4 DEF MovementOf
<1>7. QED
  BY <1>1, <1>4, <1>5, <1>6 DEF supported, held

\* Tomorrow's signals on the same evidence are today's, and at most a late review.
LEMMA SignalsStand ==
    ASSUME NEW f \in FileType, NEW day \in Int,
           \A n \in f.news : day - n.published # Policy.lookback,
           TestsOf(f, Policy, day) = TestsOf(f, Policy, day + 1),
           CompleteOf(f, Policy, day) = CompleteOf(f, Policy, day + 1),
           Policy.clock["overdue"].weight >= 0
    PROVE  /\ SignalsOf(f, Policy, day) \subseteq SignalsOf(f, Policy, day + 1)
           /\ \A s \in SignalsOf(f, Policy, day + 1) \ SignalsOf(f, Policy, day) :
                 s.weight >= 0
<1> DEFINE rest == UNION {ArrearsGateSignals(f.arrears, Policy),
                          CovenantSignals(TestsOf(f, Policy, day)),
                          RuleSignals(f.window, f.news, Policy, day),
                          ArrearsSignals(f.arrears, Policy),
                          CoverageSignals(CompleteOf(f, Policy, day), Policy)}
           now  == ClockSignals(f, Policy, day)
           next == ClockSignals(f, Policy, day + 1)
<1>1. RuleSignals(f.window, f.news, Policy, day)
        = RuleSignals(f.window, f.news, Policy, day + 1)
  BY RulesStand
<1>2. SignalsOf(f, Policy, day) = rest \cup now
  BY DEF SignalsOf
<1>3. SignalsOf(f, Policy, day + 1) = rest \cup next
  BY <1>1 DEF SignalsOf
<1>4. now \subseteq next /\ \A s \in next \ now : s.weight >= 0
  BY ClockRunsOn
<1> HIDE DEF rest, now, next
<1>5. QED
  BY <1>2, <1>3, <1>4

\* So an upgrade that tomorrow would bring was there to be had today.
LEMMA UpgradeWasThere ==
    ASSUME NEW f \in FileType, NEW day \in Int, IsFiniteSet(f.terms),
           \A d : Weighted(SignalsOf(f, Policy, d)),
           \A o \in f.window : o.asOf <= day,
           \A n \in f.news : day - n.published # Policy.lookback,
           Policy.clock["overdue"].weight >= 0,
           NEW most \in Nat, ClosedByOneGap(most),
           Cardinality(f.terms) + Cardinality(Policy.required) <= most,
           ProposalOf(f, Policy, day + 1).movement = "upgrade"
    PROVE  ProposalOf(f, Policy, day).movement = "upgrade"
<1> DEFINE tests(d)     == TestsOf(f, Policy, d)
           complete(d)  == CompleteOf(f, Policy, d)
           signals(d)   == SignalsOf(f, Policy, d)
           score(d)     == Composite(RawScores(signals(d)), Policy)
           floors(d)    == FloorsOf(f, Policy, d)
           supported(d) == UnderCeiling(Floored(Band(score(d), Policy.bands), floors(d), Policy))
           held(d)      == Withheld(f, signals(d), tests(d), complete(d), Policy)
<1>1. \A d : /\ floors(d) \subseteq FloorRules
             /\ ProposalOf(f, Policy, d)
                  = Proposal(f, signals(d), tests(d), complete(d), Policy, score(d), floors(d))
  BY DEF ProposalOf, FloorsOf, Floors
<1>2. f.grade \in Grades
  BY DEF FileType
<1>3. \A d : ProposalOf(f, Policy, d).movement = "upgrade"
               <=> supported(d) < f.grade /\ held(d) = "none"
  <2> HIDE DEF signals, tests, complete, score, floors
  <2>1. QED
    BY <1>1, <1>2, PolicyNumbers, UpgradeIsSupported
<1>4. supported(day + 1) < f.grade /\ held(day + 1) = "none"
  BY <1>3
<1>5. ~(complete(day + 1) < Policy.upgradeComplete) /\ BreachedIds(tests(day + 1)) = {}
  BY <1>4 DEF Withheld
<1>6. tests(day) = tests(day + 1) /\ complete(day) = complete(day + 1)
  BY <1>5, EvidenceStands
<1>7. /\ signals(day) \subseteq signals(day + 1)
      /\ \A s \in signals(day + 1) \ signals(day) : s.weight >= 0
  BY <1>6, SignalsStand
<1>8. held(day) = "none"
  <2>1. ActiveAt(HIGH, signals(day)) => ActiveAt(HIGH, signals(day + 1))
    BY <1>7 DEF ActiveAt
  <2> HIDE DEF signals, tests, complete
  <2>2. QED
    BY <1>4, <1>6, <2>1 DEF Withheld
<1>9. floors(day) = floors(day + 1)
  BY <1>6 DEF FloorsOf
<1>10. score(day) \in Int /\ score(day + 1) \in Int /\ score(day) <= score(day + 1)
  <2> HIDE DEF signals
  <2>1. Weighted(signals(day + 1))
    BY DEF signals
  <2>2. QED
    BY <1>7, <2>1, PolicyNumbers, ScoreGrows
<1> HIDE DEF score, floors
<1>11. supported(day) <= supported(day + 1) /\ supported(day) \in Int /\ supported(day + 1) \in Int
  <2> DEFINE a == Band(score(day), Policy.bands)
             b == Band(score(day + 1), Policy.bands)
             x == Floored(a, floors(day), Policy)
             y == Floored(b, floors(day), Policy)
  <2>1. Policy.bands \in Ladders /\ LadderOk(Policy.bands) /\ Covers(Policy)
    BY PolicyNumbers DEF IsPolicy, ValidPolicy, Ladders
  <2>2. a \in Grades /\ b \in Grades /\ a <= b
    BY <1>10, <2>1, BandIsAGrade, BandClimbs
  <2> HIDE DEF a, b
  <2>3. x \in Grades /\ y \in Grades /\ x <= y
    BY <1>1, <2>1, <2>2, PolicyNumbers, FlooringBinds, FlooringClimbs
  <2> HIDE DEF x, y
  <2>4. supported(day) = UnderCeiling(x) /\ supported(day + 1) = UnderCeiling(y)
    BY <1>9 DEF a, b, x, y
  <2> HIDE DEF supported
  <2>5. QED
    BY <2>3, <2>4 DEF UnderCeiling, AtMost, Grades, PASS, DOUBTFUL, LOSS
<1>12. supported(day) < f.grade
  <2> HIDE DEF supported
  <2>1. QED
    BY <1>2, <1>4, <1>11 DEF Grades, PASS, LOSS
<1>13. QED
  BY <1>3, <1>8, <1>12

------------------------------------------------------------------------------
(* The system.                                                             *)

\* The most pieces of evidence a review of these covenants can ask for.
MostAsked(terms) == Cardinality(terms) + Cardinality(Policy.required)

\* One gap in an obligor's evidence closes the upgrade gate, as it does under the
\* shipped policy for up to three covenants; with a fourth, nine tenths of ten
\* pieces are enough.
OneGapClosesTheGate == \A f \in InitialFiles : ClosedByOneGap(MostAsked(f.terms))

\* No covenant is ever added to a file, so it stays that way.
GateStaysClosed == ClosedByOneGap(MostAsked(file.terms))

LEMMA FewerAreAsked ==
    ASSUME NEW terms, IsFiniteSet(terms), NEW fewer, IsFiniteSet(fewer),
           Cardinality(fewer) <= Cardinality(terms), ClosedByOneGap(MostAsked(terms))
    PROVE  ClosedByOneGap(MostAsked(fewer))
<1>1. MostAsked(fewer) \in Int /\ MostAsked(terms) \in Int /\ MostAsked(fewer) <= MostAsked(terms)
  <2>1. /\ Cardinality(terms) \in Nat /\ Cardinality(fewer) \in Nat
        /\ Cardinality(Policy.required) \in Nat
    BY FS_CardinalityType, PolicyNumbers DEF IsPolicy
  <2>2. QED
    BY <2>1 DEF MostAsked
<1>2. 1..MostAsked(fewer) \subseteq 1..MostAsked(terms)
  BY <1>1
<1>3. QED
  BY <1>2 DEF ClosedByOneGap

LEMMA GateStays ==
    ASSUME TypeOK, EvidenceIsReturnable, GateStaysClosed, [Next]_vars
    PROVE  GateStaysClosed'
<1>1. file \in FileType /\ IsFiniteSet(file.terms)
  BY DEF TypeOK, EvidenceIsReturnable, Returnable
<1>2. CASE file'.terms = file.terms
  BY <1>2 DEF GateStaysClosed, MostAsked, ClosedByOneGap
<1>3. ASSUME NEW t \in file.terms, NEW next,
             file' = [file EXCEPT !.terms = (@ \ {t}) \cup {next}]
      PROVE  GateStaysClosed'
  <2> DEFINE left == file.terms \ {t}
             now  == left \cup {next}
  <2>1. file'.terms = now
    BY <1>1, <1>3 DEF FileType
  <2>2. IsFiniteSet(left) /\ Cardinality(left) = Cardinality(file.terms) - 1
    BY <1>1, FS_RemoveElement
  <2> HIDE DEF left
  <2>3. /\ IsFiniteSet(now)
        /\ Cardinality(now) = IF next \in left THEN Cardinality(left)
                                               ELSE Cardinality(left) + 1
    BY <2>2, FS_AddElement
  <2> HIDE DEF now
  <2>4. Cardinality(now) <= Cardinality(file.terms)
    BY <1>1, <2>2, <2>3, FS_CardinalityType
  <2>5. ClosedByOneGap(MostAsked(now))
    BY <1>1, <2>3, <2>4, FewerAreAsked DEF GateStaysClosed
  <2>6. QED
    BY <2>1, <2>5 DEF GateStaysClosed, MostAsked, ClosedByOneGap
<1>4. CASE \E t \in file.terms : RollPeriod(t)
  BY <1>3, <1>4 DEF RollPeriod
<1>5. CASE \E t \in file.terms, u \in Expiries : Waive(t, u)
  BY <1>3, <1>5 DEF Waive
<1>6. QED
  BY <1>1, <1>2, <1>4, <1>5
     DEF Next, Environment, vars, Certify, Service, Publish, Spread, CountClean,
         RestartCount, Tick, Review, Adopt, Confirm, FileType

\* Where no item lapses, tomorrow's review of the file reads what today's does.
LEMMA NewsStands ==
    ASSUME TypeOK, ~NewsLapses
    PROVE  \A period : EvidenceOn(period, today + 1) = EvidenceFor(period)
<1> DEFINE window == NewsWindow
<1>1. today \in Int /\ \A n \in file.news : n.published \in Int
  BY CalendarAssumption DEF TypeOK, FileType, NewsType
<1>2. window \in Int
  BY EvidenceAssumption, GateNumbers DEF NewsWindow, AtLeast, AtMost
<1>3. \A n \in file.news :
         today - n.published <= window => today - n.published # window
  BY DEF NewsLapses, NewsOn
<1> HIDE DEF window
<1>4. \A n \in file.news :
         today + 1 - n.published <= window <=> today - n.published <= window
  BY <1>1, <1>2, <1>3
<1>5. NewsOn(today + 1) = NewsOn(today)
  <2> DEFINE kept(day) == {n \in file.news : day - n.published <= window}
  <2>1. kept(today + 1) = kept(today)
    BY <1>1, <1>2, <1>4
  <2>2. \A day : NewsOn(day) = kept(day)
    BY DEF NewsOn, window
  <2> HIDE DEF kept
  <2>3. QED
    BY <2>1, <2>2
<1>6. QED
  BY <1>5 DEF EvidenceFor, EvidenceOn

\* Waiting is not evidence (the engine's date comparisons, taken together): on
\* unchanged records a day that passes never turns a review into an upgrade,
\* unless a news item lapses with it.  That takes a policy whose gate one gap
\* closes, and that does not pay an obligor for a review that is overdue.
THEOREM WaitingNeverDoes ==
    ASSUME OneGapClosesTheGate, Policy.clock["overdue"].weight >= 0
    PROVE  Spec => WaitingNeverUpgrades
<1> DEFINE A == today' = today + 1 /\ ~NewsLapses =>
                  \A n \in TestPeriods : MovementOn(n, today) # "upgrade"
                                         => MovementOn(n, today + 1) # "upgrade"
<1>1. Init => GateStaysClosed
  BY DEF Init, OneGapClosesTheGate, GateStaysClosed
<1>2. TypeOK /\ EvidenceIsReturnable /\ GateStaysClosed => A
  <2> SUFFICES ASSUME TypeOK, EvidenceIsReturnable, GateStaysClosed, ~NewsLapses,
                      NEW n \in TestPeriods, MovementOn(n, today + 1) = "upgrade"
               PROVE  MovementOn(n, today) = "upgrade"
    OBVIOUS
  <2> DEFINE f    == EvidenceFor(Resolved(n))
             most == MostAsked(f.terms)
  <2>1. /\ f \in FileType /\ f.window = file.window /\ f.news = NewsOn(today)
        /\ f.terms \subseteq file.terms
    BY EvidenceShape
  <2>2. IsFiniteSet(f.terms) /\ \A d : Weighted(SignalsOf(f, Policy, d))
    BY ReadIsReturnable
  <2>3. today \in Int /\ \A o \in f.window : o.asOf <= today
    BY <2>1, CalendarAssumption DEF TypeOK, EvidenceIsReturnable, Returnable
  <2>4. \A i \in f.news : today - i.published # Policy.lookback
    BY <2>1 DEF NewsLapses
  <2>5. ProposalOf(f, Policy, today + 1).movement = "upgrade"
    BY NewsStands DEF MovementOn
  <2> HIDE DEF f
  <2>6. IsFiniteSet(file.terms) /\ Cardinality(f.terms) <= Cardinality(file.terms)
    BY <2>1, FS_Subset DEF EvidenceIsReturnable, Returnable
  <2>7. ClosedByOneGap(most)
    BY <2>2, <2>6, FewerAreAsked DEF GateStaysClosed
  <2>8. most \in Nat /\ Cardinality(f.terms) + Cardinality(Policy.required) <= most
    <3>1. Cardinality(f.terms) \in Nat /\ Cardinality(Policy.required) \in Nat
      BY <2>2, FS_CardinalityType, PolicyNumbers DEF IsPolicy
    <3>2. QED
      BY <3>1 DEF MostAsked
  <2> HIDE DEF most
  <2>9. ProposalOf(f, Policy, today).movement = "upgrade"
    BY <2>1, <2>2, <2>3, <2>4, <2>5, <2>7, <2>8, UpgradeWasThere
  <2>10. QED
    BY <2>9 DEF MovementOn, EvidenceFor, f
<1>3. TypeOK /\ EvidenceIsReturnable /\ GateStaysClosed => [A]_today
  BY <1>2
<1>4. QED
  BY <1>1, <1>3, GateStays, TypesHold, ReturnableHolds, PTL DEF Spec, WaitingNeverUpgrades

------------------------------------------------------------------------------
(* A breach that only grew old.                                            *)

\* A figure that fails its covenant, without a waiver, is in breach until it is
\* too old to be tested.
LEMMA FailingFigureIsBreachOrGap ==
    ASSUME TypeOK, NEW t \in file.terms, FailsOnRecord(t)
    PROVE  StatusOf(t, file.certificates, Policy, today) \in {"breach", "stale"}
<1> DEFINE rows == file.certificates
<1>1. t \in TermType /\ rows \in Seq(CertificateType)
  BY DEF TypeOK, FileType
<1>2. DOMAIN rows \subseteq Nat /\ \A i \in DOMAIN rows : rows[i] \in CertificateType
  BY <1>1, LenProperties
<1>3. PICK i \in DOMAIN rows :
           /\ IsNewestRow(rows, i, t)
           /\ rows[i].usable
           /\ ~Passes(rows[i].value, t.threshold, t.op)
  BY DEF FailsOnRecord
<1>4. i \in RowsFor(t, rows) /\ \A j \in RowsFor(t, rows) : j \in Int /\ j <= i
  BY <1>2, <1>3 DEF IsNewestRow, RowsFor
<1>5. Selected(t, rows) = rows[i]
  BY <1>4, NewestRowIsSelected
<1>6. ~WaiverLive(t, today)
  BY <1>1, CalendarAssumption DEF FailsOnRecord, WaiverLive, TermType, OptionalDates, NoDate, TypeOK
<1>7. TestedStatus(t, rows[i], Policy, today) \in {"breach", "stale"}
  BY <1>3, <1>6 DEF TestedStatus
<1>8. QED
  BY <1>3, <1>4, <1>5, <1>7 DEF StatusOf

\* An uncured breach holds the grade of record (_one_covenant_test, _completeness,
\* _upgrade_withheld) under a policy whose gate one gap closes: while its figure
\* is fresh the breach withholds the upgrade, and after that the gap does.  The
\* shipped policy is one for up to three covenants: with a fourth, the nine pieces
\* of evidence left of ten are enough for an upgrade.
THEOREM OldBreachesHoldTheGrade ==
    ASSUME OneGapClosesTheGate PROVE Spec => AnUncuredBreachHoldsTheGrade
<1> DEFINE A == Reviewed /\ (\E t \in file.terms : /\ t.period = last'.period
                                                  /\ t.period # NoPeriod
                                                  /\ FailsOnRecord(t))
                  => Proposed.proposed >= file.grade
<1>1. Init => GateStaysClosed
  BY DEF Init, OneGapClosesTheGate, GateStaysClosed
<1>2. TypeOK /\ EvidenceIsReturnable /\ GateStaysClosed /\ [Next]_vars => [A]_vars
  <2> SUFFICES ASSUME TypeOK, EvidenceIsReturnable, GateStaysClosed, [Next]_vars, Reviewed,
                      NEW t \in file.terms, t.period = last'.period, t.period # NoPeriod,
                      FailsOnRecord(t), ~(Proposed.proposed >= file.grade)
               PROVE  FALSE
    OBVIOUS
  <2>1. PICK n \in TestPeriods :
           /\ Proposed = ProposalOf(EvidenceFor(Resolved(n)), Policy, today)
           /\ last'.period \in {Resolved(n), NoPeriod}
    BY ReviewedIsReview
  <2> DEFINE f     == EvidenceFor(Resolved(n))
             tests == TestsOf(f, Policy, today)
             test  == CovenantTest(t, f.certificates, Policy, today)
  <2>2. /\ f \in FileType /\ f.grade = file.grade /\ t \in f.terms
        /\ f.certificates = file.certificates /\ f.terms \subseteq file.terms
    BY <2>1, EvidenceShape
  <2>3. IsFiniteSet(f.terms)
    BY ReadIsReturnable
  <2>4. test \in tests /\ test.status \in {"breach", "stale"}
    BY <2>2, FailingFigureIsBreachOrGap DEF TestsOf, CovenantTests, CovenantTest
  <2>5. Withheld(f, SignalsOf(f, Policy, today), tests,
                 CompleteOf(f, Policy, today), Policy) = "none"
    <3>1. Proposed \in ProposalType /\ f.grade \in Grades
      BY <2>1, <2>2, ReviewBounds DEF FileType
    <3>2. Proposed.proposed < f.grade
      BY <2>2, <3>1 DEF ProposalType, Grades, PASS, LOSS
    <3>3. QED
      BY <2>1, <2>2, <3>2, ReviewBounds
  <2>6. BreachedIds(tests) = {} /\ ~(CompleteOf(f, Policy, today) < Policy.upgradeComplete)
    <3> HIDE DEF f, tests
    <3>1. QED
      BY <2>5 DEF Withheld
  <2>7. IsFiniteSet(tests) /\ Cardinality(tests) <= Cardinality(f.terms)
    BY <2>3, FiniteTests DEF TestsOf
  <2>8. /\ MostAsked(file.terms) \in Nat
        /\ Cardinality(tests) + Cardinality(Policy.required) <= MostAsked(file.terms)
    <3>1. IsFiniteSet(file.terms) /\ Cardinality(f.terms) <= Cardinality(file.terms)
      BY <2>2, FS_Subset DEF EvidenceIsReturnable, Returnable
    <3>2. /\ Cardinality(tests) \in Nat /\ Cardinality(f.terms) \in Nat
          /\ Cardinality(file.terms) \in Nat /\ Cardinality(Policy.required) \in Nat
      BY <2>3, <2>7, <3>1, FS_CardinalityType, PolicyNumbers DEF IsPolicy
    <3> HIDE DEF f, tests
    <3>3. QED
      BY <2>7, <3>1, <3>2 DEF MostAsked
  <2>9. ~(Completeness(tests, f.window, Policy, today) < Policy.upgradeComplete)
    BY <2>6 DEF CompleteOf
  <2> HIDE DEF tests, test
  <2>10. Evidenced(tests) = Closed(tests)
    BY <2>7, <2>8, <2>9, GateAsksForAll DEF GateStaysClosed
  <2>11. test.status # "stale"
    BY <2>4, <2>10 DEF Evidenced, Closed
  <2>12. test.status # "breach"
    BY <2>4, <2>6 DEF BreachedIds
  <2>13. QED
    BY <2>4, <2>11, <2>12
<1>3. QED
  BY <1>1, <1>2, GateStays, TypesHold, ReturnableHolds, PTL
     DEF Spec, AnUncuredBreachHoldsTheGrade
==============================================================================
