---------------------------- MODULE ObligorProofs ----------------------------
(***************************************************************************)
(* What holds of every obligor's monitoring, for every policy that loads,  *)
(* every calendar and every body of evidence.                              *)
(***************************************************************************)
EXTENDS ObligorRatchet, EngineProofs

LEMMA PolicyNumbers ==
    /\ IsPolicy(Policy) /\ ValidPolicy(Policy)
    /\ \A n \in {Policy.lag, Policy.absolute, Policy.relative, Policy.sicr,
                 Policy.default, Policy.severe, Policy.cleanPeriods,
                 Policy.notches} : n \in Int
    /\ ClocksOk(Policy)
BY PolicyAssumption DEF IsPolicy, ValidPolicy

------------------------------------------------------------------------------
(* A review of a well-shaped file.                                         *)

\* What a review of a period reads is a file, and differs from the file on
\* record in nothing but the covenants and the news of its window.
LEMMA EvidenceShape ==
    ASSUME TypeOK, NEW n, NEW f, f = EvidenceFor(n)
    PROVE  /\ f \in FileType
           /\ f.grade = file.grade /\ f.clean = file.clean
           /\ f.arrears = file.arrears /\ f.window = file.window
           /\ f.news = NewsOn(today) /\ f.lastReview = file.lastReview
           /\ f.terms = {t \in file.terms : t.period = n}
           /\ n # NoPeriod => f.certificates = file.certificates
<1>1. file \in FileType
  BY DEF TypeOK
<1> DEFINE terms == {t \in file.terms : t.period = n}
           rows  == IF n = NoPeriod THEN << >> ELSE file.certificates
<1>2. f = [file EXCEPT !.terms = terms, !.certificates = rows, !.news = NewsOn(today)]
  BY <1>1 DEF EvidenceFor, EvidenceOn, FileType
<1>3. terms \in SUBSET TermType
  BY <1>1 DEF FileType
<1>4. rows \in Seq(CertificateType)
  <2>1. file.certificates \in Seq(CertificateType)
    BY <1>1 DEF FileType
  <2>2. QED
    BY <2>1
<1>5. n # NoPeriod => rows = file.certificates
  OBVIOUS
<1>6. NewsOn(today) \in SUBSET NewsType
  BY <1>1 DEF FileType, NewsOn
<1> HIDE DEF terms, rows
<1>7. QED
  BY <1>1, <1>2, <1>3, <1>4, <1>5, <1>6 DEF FileType, terms

\* Everything the ladder promises of the proposal made on a file today.
LEMMA ReviewBounds ==
    ASSUME NEW f \in FileType, NEW q, q = ProposalOf(f, Policy, today)
    PROVE  /\ q \in ProposalType
           /\ q.current = f.grade
           /\ \A r \in FloorsOf(f, Policy, today) :
                 q.proposed >= AtMost(Policy.floors[r], DOUBTFUL)
           /\ q.proposed >= AtMost(q.band, DOUBTFUL)
           /\ q.proposed > f.grade => q.proposed <= DOUBTFUL
           /\ q.proposed < f.grade =>
                 /\ f.grade - q.proposed <= Policy.notches
                 /\ Withheld(f, SignalsOf(f, Policy, today),
                             TestsOf(f, Policy, today),
                             CompleteOf(f, Policy, today), Policy) = "none"
           /\ q.movement = "affirm" => q.proposed = f.grade
<1> DEFINE signals   == SignalsOf(f, Policy, today)
           tests     == TestsOf(f, Policy, today)
           complete  == CompleteOf(f, Policy, today)
           composite == Composite(RawScores(signals), Policy)
           floors    == FloorsOf(f, Policy, today)
<1>1. q = Proposal(f, signals, tests, complete, Policy, composite, floors)
  BY DEF ProposalOf
<1>2. f.grade \in Grades
  BY DEF FileType
<1>3. floors \subseteq FloorRules
  BY DEF FloorsOf, Floors
<1>4. q = [current |-> q.current, band |-> q.band, floors |-> q.floors,
           ceiling |-> q.ceiling, withheld |-> q.withheld,
           proposed |-> q.proposed, movement |-> q.movement]
  BY <1>1 DEF Proposal
<1> HIDE DEF signals, tests, complete, composite, floors
<1>5. /\ q.current = f.grade /\ q.floors = floors
      /\ q.band \in Grades /\ q.proposed \in Grades
      /\ q.ceiling \in BOOLEAN /\ q.withheld \in WithheldReasons
      /\ q.movement \in Movements
      /\ \A r \in floors : q.proposed >= AtMost(Policy.floors[r], DOUBTFUL)
      /\ q.proposed >= AtMost(q.band, DOUBTFUL)
      /\ q.proposed > f.grade => q.proposed <= DOUBTFUL
      /\ q.proposed < f.grade =>
            /\ f.grade - q.proposed <= Policy.notches
            /\ Withheld(f, signals, tests, complete, Policy) = "none"
      /\ q.movement = "affirm" => q.proposed = f.grade
  BY <1>1, <1>2, <1>3, PolicyNumbers, ProposalBounds
<1>6. q \in ProposalType
  BY <1>2, <1>3, <1>4, <1>5 DEF ProposalType
<1>7. QED
  BY <1>5, <1>6 DEF signals, tests, complete, floors

LEMMA OutcomeShape ==
    ASSUME NEW n, NEW f, NEW o, o = OutcomeOn(f, n)
    PROVE  \/ o = Ungrounded
           \/ /\ o.outcome = "assessed" /\ o.period = Echoed(f, n)
              /\ o.assessment.asOf = today
              /\ o.assessment.proposal = ProposalOf(f, Policy, today)
              /\ o.assessment.decision =
                    IF ReasonsOf(f, Policy, today) # {} THEN "escalated" ELSE "allowed"
BY DEF OutcomeOn, Assessed, Evaluate

\* The echoed period is a label on file, if it is any.
LEMMA EchoedShape ==
    ASSUME NEW f \in FileType, NEW n
    PROVE  Echoed(f, n) \in Nat /\ Echoed(f, n) \in {n, NoPeriod}
<1>1. \A t \in f.terms : t.period \in Nat
  BY DEF FileType, TermType
<1>2. \A i \in DOMAIN f.certificates : f.certificates[i].period \in Nat
  <2>1. f.certificates \in Seq(CertificateType)
    BY DEF FileType
  <2>2. \A i \in DOMAIN f.certificates : f.certificates[i] \in CertificateType
    BY <2>1, LenProperties
  <2>3. QED
    BY <2>2 DEF CertificateType
<1>3. QED
  BY <1>1, <1>2 DEF Echoed, NoPeriod

------------------------------------------------------------------------------
(* Type correctness.                                                       *)

LEMMA InitTypeOK == Init => TypeOK
BY EvidenceAssumption, CalendarAssumption DEF Init, TypeOK, FileType

\* A review of any well-shaped evidence, whichever period it was read for.
LEMMA OutcomeKeepsTypes ==
    ASSUME TypeOK, NEW f \in FileType, NEW n, last' = OutcomeOn(f, n),
           UNCHANGED <<today, file, peak>>
    PROVE  TypeOK'
<1> DEFINE o == OutcomeOn(f, n)
<1>1. last' = o
  OBVIOUS
<1>2. CASE o = Ungrounded
  BY <1>1, <1>2 DEF TypeOK
<1>3. CASE o # Ungrounded
  <2>1. /\ o.outcome = "assessed" /\ o.period \in Nat
        /\ o.assessment.asOf = today
        /\ o.assessment.proposal \in ProposalType
        /\ o.assessment.decision \in {"allowed", "escalated"}
    BY <1>3, OutcomeShape, EchoedShape, ReviewBounds
  <2> HIDE DEF o
  <2>2. QED
    BY <1>1, <2>1 DEF TypeOK
<1>4. QED
  BY <1>2, <1>3

LEMMA ReviewKeepsTypes == ASSUME TypeOK, NEW n, Review(n) PROVE TypeOK'
BY EvidenceShape, OutcomeKeepsTypes DEF Review, Outcome

LEMMA CloseKeepsTypes == ASSUME TypeOK, Adopt \/ Confirm PROVE TypeOK'
<1>1. /\ last.assessment.proposal.proposed \in Grades
      /\ last.assessment.asOf \in OptionalDates
  <2>1. last.outcome = "assessed"
    BY DEF Adopt, Confirm, IsAssessed
  <2>2. last \notin {Unreviewed, Ungrounded}
    BY <2>1 DEF Unreviewed, Ungrounded
  <2>3. QED
    BY <2>2, CalendarAssumption DEF TypeOK, ProposalType, OptionalDates
<1>2. file \in FileType
  BY DEF TypeOK
<1>3. CASE Adopt
  <2>1. file' = [file EXCEPT !.grade      = last.assessment.proposal.proposed,
                             !.clean      = 0,
                             !.lastReview = last.assessment.asOf]
    BY <1>3 DEF Adopt
  <2>2. file' \in FileType
    BY <1>1, <1>2, <2>1 DEF FileType
  <2>3. QED
    BY <1>3, <2>2 DEF Adopt, TypeOK
<1>4. CASE Confirm
  <2>1. file' = [file EXCEPT !.lastReview = last.assessment.asOf]
    BY <1>4 DEF Confirm
  <2>2. file' \in FileType
    BY <1>1, <1>2, <2>1 DEF FileType
  <2>3. QED
    BY <1>4, <2>2 DEF Confirm, TypeOK
<1>5. QED
  BY <1>3, <1>4

LEMMA EvidenceKeepsTypes == ASSUME TypeOK, Environment PROVE TypeOK'
<1> USE DEF TypeOK
<1>1. ASSUME NEW t \in file.terms, NEW v \in Values, Certify(t, v) PROVE TypeOK'
  <2> DEFINE row == [id |-> t.id, period |-> t.period, usable |-> TRUE,
                     value |-> v, received |-> today]
  <2>1. t \in TermType
    BY DEF FileType
  <2>2. row \in CertificateType
    BY <2>1, EvidenceAssumption, CalendarAssumption
       DEF TermType, CertificateType, OptionalDates
  <2> HIDE DEF row
  <2>3. file.certificates \in Seq(CertificateType)
    BY DEF FileType
  <2>4. Append(file.certificates, row) \in Seq(CertificateType)
    BY <2>2, <2>3
  <2>5. file' = [file EXCEPT !.certificates = Append(@, row)]
    BY <1>1 DEF Certify, row
  <2>6. file' \in FileType
    BY <2>4, <2>5 DEF FileType
  <2>7. QED
    BY <1>1, <2>6 DEF Certify
<1>2. ASSUME NEW t \in file.terms, RollPeriod(t) PROVE TypeOK'
  <2>1. t \in TermType
    BY DEF FileType
  <2> DEFINE end  == t.periodEnd + PeriodLength
             due  == IF t.due = NoDate THEN t.due ELSE t.due + PeriodLength
             run  == IF StatusOf(t, file.certificates, Policy, today) = "breach"
                     THEN t.consecutive + 1 ELSE 0
             next == [t EXCEPT !.period = t.period + 1, !.periodEnd = end,
                               !.due = due, !.consecutive = run]
  <2>2. file' = [file EXCEPT !.terms = (@ \ {t}) \cup {next}]
    BY <1>2 DEF RollPeriod
  <2>3. t.periodEnd \in OptionalDates /\ t.due \in OptionalDates
        /\ t.periodEnd # NoDate /\ t.consecutive \in Nat /\ t.period + 1 \in Nat
    BY <1>2, <2>1 DEF RollPeriod, TermType
  <2>4. end \in OptionalDates /\ due \in OptionalDates /\ run \in Nat
    BY <2>3, CalendarAssumption DEF OptionalDates, NoDate
  <2> HIDE DEF end, due, run
  <2>5. next \in TermType
    BY <2>1, <2>3, <2>4 DEF TermType
  <2> HIDE DEF next
  <2>6. file' \in FileType
    BY <2>2, <2>5 DEF FileType
  <2>7. QED
    BY <1>2, <2>6 DEF RollPeriod
<1>3. ASSUME NEW t \in file.terms, NEW u \in Expiries, Waive(t, u) PROVE TypeOK'
  <2>1. t \in TermType
    BY DEF FileType
  <2>2. [t EXCEPT !.waiver = TRUE, !.expiry = u] \in TermType
    BY <2>1, EvidenceAssumption DEF TermType, OptionalDates
  <2>3. file' \in FileType
    BY <1>3, <2>2 DEF Waive, FileType
  <2>4. QED
    BY <1>3, <2>3 DEF Waive
<1>4. ASSUME NEW a \in Snapshots, Service(a) PROVE TypeOK'
  <2>1. file' \in FileType
    BY <1>4, EvidenceAssumption DEF Service, FileType
  <2>2. QED
    BY <1>4, <2>1 DEF Service
<1>5. ASSUME NEW s \in Stories, Publish(s) PROVE TypeOK'
  <2> DEFINE item == [id |-> s.id, relevance |-> s.relevance, category |-> s.category,
                      located |-> s.located, published |-> today]
  <2>1. item \in NewsType
    BY EvidenceAssumption, CalendarAssumption DEF NewsType
  <2>2. file' = [file EXCEPT !.news = @ \cup {item}]
    BY <1>5 DEF Publish
  <2> HIDE DEF item
  <2>3. file' \in FileType
    BY <2>1, <2>2 DEF FileType
  <2>4. QED
    BY <1>5, <2>3 DEF Publish
<1>6. ASSUME NEW r \in Readings, Spread(r) PROVE TypeOK'
  <2> DEFINE row == [metric |-> r.metric, value |-> r.value, ratio |-> r.ratio,
                     asOf |-> today, ref |-> 0, located |-> TRUE]
  <2>1. row \in ReadingType
    BY EvidenceAssumption, CalendarAssumption DEF ReadingType
  <2>2. file' = [file EXCEPT !.window = @ \cup {row}]
    BY <1>6 DEF Spread
  <2> HIDE DEF row
  <2>3. file' \in FileType
    BY <2>1, <2>2 DEF FileType
  <2>4. QED
    BY <1>6, <2>3 DEF Spread
<1>7. CASE CountClean
  <2>1. file' \in FileType /\ file.clean \in Nat
    BY <1>7 DEF CountClean, FileType
  <2>2. QED
    BY <1>7, <2>1 DEF CountClean, AtLeast
<1>8. CASE RestartCount
  <2>1. file' \in FileType
    BY <1>8 DEF RestartCount, FileType
  <2>2. QED
    BY <1>8, <2>1 DEF RestartCount
<1>9. CASE Tick
  BY <1>9, CalendarAssumption DEF Tick
<1>10. QED
  BY <1>1, <1>2, <1>3, <1>4, <1>5, <1>6, <1>7, <1>8, <1>9 DEF Environment

\* The obligor's file, the calendar and the review keep their shapes.
THEOREM TypesHold == Spec => []TypeOK
<1>1. TypeOK /\ [Next]_vars => TypeOK'
  <2>1. ASSUME TypeOK, UNCHANGED vars PROVE TypeOK'
    BY <2>1 DEF TypeOK, vars
  <2>2. QED
    BY <2>1, EvidenceKeepsTypes, ReviewKeepsTypes, CloseKeepsTypes DEF Next
<1>2. QED
  BY <1>1, InitTypeOK, PTL DEF Spec

------------------------------------------------------------------------------
(* From the evidence on file to the floors that must apply.                *)

\* An open breach of the raw evidence is a breach of the engine's test.
LEMMA OpenBreachIsTested ==
    ASSUME TypeOK, NEW f \in FileType, NEW t \in f.terms, OpenBreachIn(f.certificates, t)
    PROVE  t.id \in BreachedIds(TestsOf(f, Policy, today))
<1> DEFINE rows == f.certificates
<1>1. t \in TermType /\ rows \in Seq(CertificateType) /\ today \in Int
  BY CalendarAssumption DEF TypeOK, FileType
<1>2. DOMAIN rows \subseteq Nat /\ \A i \in DOMAIN rows : rows[i] \in CertificateType
  BY <1>1, LenProperties
<1>3. PICK i \in DOMAIN rows :
           /\ IsNewestRow(rows, i, t)
           /\ rows[i].usable
           /\ ~Passes(rows[i].value, t.threshold, t.op)
           /\ rows[i].received # NoDate
           /\ today - rows[i].received <= Policy.lag
  BY DEF OpenBreachIn
<1>4. i \in RowsFor(t, rows) /\ \A j \in RowsFor(t, rows) : j \in Int /\ j <= i
  BY <1>2, <1>3 DEF IsNewestRow, RowsFor
<1>5. rows[i].usable = TRUE /\ rows[i].received \in Int
  BY <1>2, <1>3 DEF CertificateType, OptionalDates, NoDate
<1>6. ~WaiverLive(t, today)
  BY <1>1 DEF OpenBreachIn, WaiverLive, TermType, OptionalDates, NoDate
<1>7. StatusOf(t, rows, Policy, today) = "breach"
  BY <1>1, <1>3, <1>4, <1>5, <1>6, PolicyNumbers, BreachIsNamed
<1> DEFINE test == CovenantTest(t, rows, Policy, today)
<1>8. test.id = t.id /\ test.status = "breach"
  BY <1>7 DEF CovenantTest
<1>9. test \in TestsOf(f, Policy, today)
  BY DEF TestsOf, CovenantTests
<1>10. QED
  BY <1>8, <1>9 DEF BreachedIds

\* The engine's clock runs at least as long as the material one.
LEMMA ClockRuns ==
    ASSUME NEW a \in ArrearsType
    PROVE  /\ EffectiveDays(a, Policy) \in Nat
           /\ MaterialDaysOf(a) \in Nat
           /\ MaterialDaysOf(a) <= EffectiveDays(a, Policy)
<1>1. a.known \in BOOLEAN /\ a.days \in Nat /\ a.pastDue \in Nat /\ a.drawn \in Nat
  BY DEF ArrearsType
<1>2. EffectiveDays(a, Policy) \in Nat
  BY <1>1 DEF EffectiveDays
<1>3. MaterialDaysOf(a) \in {0, a.days}
  BY DEF MaterialDaysOf
<1>4. ASSUME a.known, a.pastDue >= Policy.absolute,
             a.pastDue * 10000 > a.drawn * Policy.relative
      PROVE  EffectiveDays(a, Policy) = a.days
  <2>1. a.known = TRUE
    BY <1>1, <1>4
  <2>2. a.pastDue >= RelativeLimit(a, Policy)
    BY <1>1, <1>4, PolicyNumbers, RelativeLegClears
  <2>3. a.pastDue >= Policy.absolute /\ a.days \in Nat
    BY <1>1, <1>4
  <2>4. QED
    BY <2>1, <2>2, <2>3, MaterialClockRuns
<1>5. MaterialDaysOf(a) = a.days => MaterialDaysOf(a) = 0 \/ EffectiveDays(a, Policy) = a.days
  BY <1>4 DEF MaterialDaysOf
<1>6. QED
  BY <1>1, <1>2, <1>3, <1>5

\* What is open in the file is open in what a review of its period reads.
LEMMA BreachesAreRead ==
    ASSUME TypeOK, NEW n, NEW f, f = EvidenceFor(n)
    PROVE  OpenBreaches(n) \in SUBSET {t \in f.terms : OpenBreachIn(f.certificates, t)}
<1>1. ASSUME NEW t \in OpenBreaches(n)
      PROVE  t \in f.terms /\ OpenBreachIn(f.certificates, t)
  BY EvidenceShape DEF OpenBreaches, OpenBreach
<1>2. QED
  BY <1>1

\* The floors an open breach, a past-due clock and a restructuring call for.
LEMMA FloorsReach ==
    ASSUME TypeOK, NEW f \in FileType,
           NEW open \in SUBSET {t \in f.terms : OpenBreachIn(f.certificates, t)},
           NEW clock, clock = MaterialDaysOf(f.arrears)
    PROVE  LET floors == FloorsOf(f, Policy, today)
           IN  /\ open # {} => "floor-covenant-breach" \in floors
               /\ (\E s, t \in open : s.id # t.id)
                     => "floor-covenant-breach-repeat" \in floors
               /\ (\E t \in open : t.consecutive >= 2)
                     => "floor-covenant-breach-repeat" \in floors
               /\ clock >= Policy.sicr    => "floor-arrears-sicr" \in floors
               /\ clock >= Policy.default => "floor-arrears-default" \in floors
               /\ clock >= Policy.severe  => "floor-arrears-severe" \in floors
               /\ Restructured(f.window)  => "floor-restructured" \in floors
<1> DEFINE floors == FloorsOf(f, Policy, today)
           ids    == BreachedIds(TestsOf(f, Policy, today))
           days   == EffectiveDays(f.arrears, Policy)
<1>1. \A t \in open : t \in f.terms /\ t.id \in ids
  BY OpenBreachIsTested
<1>2. \A m \in {Policy.sicr, Policy.default, Policy.severe} :
         clock >= m => days >= m
  BY ClockRuns, PolicyNumbers DEF FileType
<1> HIDE DEF days
<1>3. open # {} => "floor-covenant-breach" \in floors
  BY <1>1 DEF FloorsOf, Floors, FloorRules
<1>4. (\E s, t \in open : s.id # t.id) \/ (\E t \in open : t.consecutive >= 2)
        => RepeatBreach(f.terms, TestsOf(f, Policy, today))
  BY <1>1 DEF RepeatBreach
<1>5. RepeatBreach(f.terms, TestsOf(f, Policy, today))
        => "floor-covenant-breach-repeat" \in floors
  BY DEF FloorsOf, Floors, FloorRules
<1>6. /\ days >= Policy.sicr    => "floor-arrears-sicr" \in floors
      /\ days >= Policy.default => "floor-arrears-default" \in floors
      /\ days >= Policy.severe  => "floor-arrears-severe" \in floors
  BY DEF FloorsOf, Floors, FloorRules, days
<1>7. Restructured(f.window) => "floor-restructured" \in floors
  BY DEF FloorsOf, Floors, FloorRules
<1>8. QED
  BY <1>2, <1>3, <1>4, <1>5, <1>6, <1>7

------------------------------------------------------------------------------
(* The action properties.                                                  *)

\* Only a review records an assessment, and it is one of today's file.
LEMMA ReviewedIsReview ==
    ASSUME TypeOK, [Next]_vars, Reviewed
    PROVE  \E n \in TestPeriods :
              LET f == EvidenceFor(Resolved(n)) IN
              /\ Proposed = ProposalOf(f, Policy, today)
              /\ last'.assessment.decision =
                    IF ReasonsOf(f, Policy, today) # {} THEN "escalated" ELSE "allowed"
              /\ Breaches \subseteq OpenBreaches(Resolved(n))
              /\ last'.period \in {Resolved(n), NoPeriod}
<1>1. PICK n \in TestPeriods : Review(n)
  BY DEF Reviewed, Next, vars, Environment, Certify, RollPeriod, Waive, Service,
         Publish, Spread, CountClean, RestartCount, Tick, Adopt, Confirm
<1> DEFINE f == EvidenceFor(Resolved(n))
<1>2. last' = OutcomeOn(f, Resolved(n)) /\ last'.outcome = "assessed"
  BY <1>1 DEF Review, Outcome, Reviewed
<1>3. OutcomeOn(f, Resolved(n)) # Ungrounded
  BY <1>2 DEF Ungrounded
<1>4. /\ last'.period = Echoed(f, Resolved(n))
      /\ Proposed = ProposalOf(f, Policy, today)
      /\ last'.assessment.decision =
            IF ReasonsOf(f, Policy, today) # {} THEN "escalated" ELSE "allowed"
  BY <1>2, <1>3, OutcomeShape DEF Proposed
<1>5. Breaches \subseteq OpenBreaches(Resolved(n))
  BY <1>4, EvidenceShape, EchoedShape DEF Breaches, OpenBreaches
<1>6. last'.period \in {Resolved(n), NoPeriod}
  BY <1>4, EvidenceShape, EchoedShape
<1>7. QED
  BY <1>4, <1>5, <1>6

\* An event on file binds the proposal whatever the score says (_floors).
THEOREM FloorsAlwaysBind == Spec => FloorsBind
<1> DEFINE A == Reviewed =>
             /\ Breaches # {} => Binds("floor-covenant-breach")
             /\ (\E s, t \in Breaches : s.id # t.id)
                   => Binds("floor-covenant-breach-repeat")
             /\ (\E t \in Breaches : t.consecutive >= 2)
                   => Binds("floor-covenant-breach-repeat")
             /\ MaterialDays >= Policy.sicr    => Binds("floor-arrears-sicr")
             /\ MaterialDays >= Policy.default => Binds("floor-arrears-default")
             /\ MaterialDays >= Policy.severe  => Binds("floor-arrears-severe")
             /\ Restructured(file.window)      => Binds("floor-restructured")
<1>1. TypeOK /\ [Next]_vars => [A]_vars
  <2> SUFFICES ASSUME TypeOK, [Next]_vars PROVE A
    OBVIOUS
  <2>1. SUFFICES ASSUME Reviewed PROVE A
    OBVIOUS
  <2>2. PICK n \in TestPeriods :
           /\ Proposed = ProposalOf(EvidenceFor(Resolved(n)), Policy, today)
           /\ Breaches \subseteq OpenBreaches(Resolved(n))
    BY <2>1, ReviewedIsReview
  <2>3. \A r \in FloorsOf(EvidenceFor(Resolved(n)), Policy, today) : Binds(r)
    BY <2>2, EvidenceShape, ReviewBounds DEF Binds
  <2> DEFINE f == EvidenceFor(Resolved(n))
  <2>4. /\ f \in FileType /\ f.window = file.window
        /\ MaterialDays = MaterialDaysOf(f.arrears)
        /\ Breaches \in SUBSET {t \in f.terms : OpenBreachIn(f.certificates, t)}
    BY <2>2, EvidenceShape, BreachesAreRead DEF MaterialDays
  <2> HIDE DEF f
  <2>5. QED
    BY <2>3, <2>4, FloorsReach DEF f
<1>2. QED
  BY <1>1, TypesHold, PTL DEF Spec, FloorsBind

\* No evidence, under any policy, makes the engine propose a write-off.
THEOREM LossIsNeverOriginated == Spec => LossIsOnlyAffirmed
<1>1. TypeOK /\ [Next]_vars =>
        [Reviewed /\ Proposed.proposed = LOSS => file.grade = LOSS]_vars
  <2> SUFFICES ASSUME TypeOK, [Next]_vars, Reviewed, Proposed.proposed = LOSS
               PROVE  file.grade = LOSS
    OBVIOUS
  <2>1. file.grade \in Grades
    BY DEF TypeOK, FileType
  <2>2. Proposed.proposed > file.grade => Proposed.proposed <= DOUBTFUL
    BY ReviewedIsReview, EvidenceShape, ReviewBounds
  <2>3. QED
    BY <2>1, <2>2 DEF Grades, PASS, LOSS, DOUBTFUL
<1>2. QED
  BY <1>1, TypesHold, PTL DEF Spec, LossIsOnlyAffirmed

\* A material past-due clock fires a rule of its tier (_arrears_rules).
LEMMA ClockFires ==
    ASSUME NEW f \in FileType, MaterialDaysOf(f.arrears) >= Policy.sicr
    PROVE  \E t \in ArrearsTiers :
              \E s \in SignalsOf(f, Policy, today) :
                 s.severity = Policy.arrears[t].severity /\ s.weight = Policy.arrears[t].weight
<1> DEFINE days == EffectiveDays(f.arrears, Policy)
           tier == ArrearsTier(days, Policy)
<1>1. days \in Int /\ days >= Policy.sicr
  BY ClockRuns, PolicyNumbers DEF FileType
<1> HIDE DEF days
<1>2. tier \in ArrearsTiers
  BY <1>1, PolicyNumbers, TierIsReached
<1>3. tier # "none"
  BY <1>2 DEF ArrearsTiers
<1> DEFINE s == Signal("ews-arrears", "behavioural", Policy.arrears[tier].severity,
                       Policy.arrears[tier].weight, tier,
                       f.arrears.known /\ f.arrears.located)
<1>4. s \in ArrearsSignals(f.arrears, Policy)
  BY <1>3 DEF ArrearsSignals, days
<1>5. ArrearsSignals(f.arrears, Policy) \subseteq SignalsOf(f, Policy, today)
  BY DEF SignalsOf
<1>6. s.severity = Policy.arrears[tier].severity /\ s.weight = Policy.arrears[tier].weight
  BY DEF Signal
<1> HIDE DEF s, tier
<1>7. QED
  BY <1>2, <1>4, <1>5, <1>6

\* Every past-due tier is a live finding of high severity, as the shipped one is.
ArrearsAreSevere ==
    \A t \in ArrearsTiers : Policy.arrears[t].severity >= HIGH /\ Policy.arrears[t].weight > 0

\* An upgrade rests on positive evidence (_upgrade_withheld), under every policy
\* that prices past-due days as a severe finding: validate_policy does not ask
\* it to, and one that does not can upgrade an obligor in arrears.
THEOREM UpgradesAreAlwaysEarned ==
    ASSUME ArrearsAreSevere PROVE Spec => UpgradesAreEarned
<1> DEFINE A == Reviewed /\ Proposed.proposed < file.grade =>
                  /\ Breaches = {}
                  /\ MaterialDays < Policy.sicr
                  /\ file.clean >= Policy.cleanPeriods
                  /\ file.grade - Proposed.proposed <= Policy.notches
                  /\ Proposed.proposed >= AtMost(Proposed.band, DOUBTFUL)
<1>1. TypeOK /\ [Next]_vars => [A]_vars
  <2> SUFFICES ASSUME TypeOK, [Next]_vars, Reviewed, Proposed.proposed < file.grade
               PROVE  /\ Breaches = {}
                      /\ MaterialDays < Policy.sicr
                      /\ file.clean >= Policy.cleanPeriods
                      /\ file.grade - Proposed.proposed <= Policy.notches
                      /\ Proposed.proposed >= AtMost(Proposed.band, DOUBTFUL)
    OBVIOUS
  <2>1. PICK n \in TestPeriods :
           /\ Proposed = ProposalOf(EvidenceFor(Resolved(n)), Policy, today)
           /\ Breaches \subseteq OpenBreaches(Resolved(n))
    BY ReviewedIsReview
  <2> DEFINE f == EvidenceFor(Resolved(n))
  <2>f. /\ f \in FileType /\ f.grade = file.grade /\ f.clean = file.clean
        /\ MaterialDays = MaterialDaysOf(f.arrears)
        /\ Breaches \in SUBSET {t \in f.terms : OpenBreachIn(f.certificates, t)}
    BY <2>1, EvidenceShape, BreachesAreRead DEF MaterialDays
  <2>2. /\ file.grade - Proposed.proposed <= Policy.notches
        /\ Proposed.proposed >= AtMost(Proposed.band, DOUBTFUL)
        /\ Withheld(f, SignalsOf(f, Policy, today), TestsOf(f, Policy, today),
                    CompleteOf(f, Policy, today), Policy) = "none"
    BY <2>1, <2>f, ReviewBounds
  <2>3. /\ ~(file.clean < Policy.cleanPeriods)
        /\ ~ActiveAt(HIGH, SignalsOf(f, Policy, today))
        /\ BreachedIds(TestsOf(f, Policy, today)) = {}
    BY <2>2, <2>f DEF Withheld
  <2>4. Breaches = {}
    BY <2>f, <2>3, OpenBreachIsTested
  <2>5. ~(MaterialDays >= Policy.sicr)
    BY <2>f, <2>3, ClockFires DEF ActiveAt, ArrearsAreSevere
  <2>6. file.clean \in Int /\ Policy.cleanPeriods \in Int /\ MaterialDays \in Int
        /\ Policy.sicr \in Int
    BY PolicyNumbers, ClockRuns DEF TypeOK, FileType, MaterialDays
  <2>7. file.clean >= Policy.cleanPeriods /\ MaterialDays < Policy.sicr
    BY <2>3, <2>5, <2>6
  <2>8. QED
    BY <2>2, <2>4, <2>7
<1>2. QED
  BY <1>1, TypesHold, PTL DEF Spec, UpgradesAreEarned

\* A review that asks nobody to look leaves a clean obligor at pass
\* (_review_reasons), under every policy whose first past-due floor is adverse.
THEOREM NothingEverPassesUnseen ==
    ASSUME Policy.floors["floor-arrears-sicr"] >= SPECIAL_MENTION
    PROVE  Spec => NothingPassesUnseen
<1> DEFINE A == Reviewed /\ last'.assessment.decision = "allowed" =>
                  /\ file.grade = PASS /\ Proposed.proposed = PASS
                  /\ Breaches = {}
                  /\ MaterialDays < Policy.sicr
                  /\ file.arrears.known
<1>1. TypeOK /\ [Next]_vars => [A]_vars
  <2> SUFFICES ASSUME TypeOK, [Next]_vars, Reviewed,
                      last'.assessment.decision = "allowed"
               PROVE  /\ file.grade = PASS /\ Proposed.proposed = PASS
                      /\ Breaches = {}
                      /\ MaterialDays < Policy.sicr
                      /\ file.arrears.known
    OBVIOUS
  <2>1. PICK n \in TestPeriods :
           /\ Proposed = ProposalOf(EvidenceFor(Resolved(n)), Policy, today)
           /\ ReasonsOf(EvidenceFor(Resolved(n)), Policy, today) = {}
           /\ Breaches \subseteq OpenBreaches(Resolved(n))
    BY ReviewedIsReview
  <2> DEFINE f == EvidenceFor(Resolved(n))
             q == ProposalOf(f, Policy, today)
  <2>f. /\ f \in FileType /\ f.grade = file.grade /\ f.arrears = file.arrears
        /\ MaterialDays = MaterialDaysOf(f.arrears)
        /\ Breaches \in SUBSET {t \in f.terms : OpenBreachIn(f.certificates, t)}
    BY <2>1, EvidenceShape, BreachesAreRead DEF MaterialDays
  <2>2. /\ q.movement = "affirm" /\ ~(q.proposed >= SPECIAL_MENTION)
        /\ BreachedIds(TestsOf(f, Policy, today)) = {}
        /\ file.arrears.known
    BY <2>1, <2>f DEF ReasonsOf, EvidenceReasons, ReviewReasons
  <2>3. /\ q.proposed \in Grades /\ q.proposed = file.grade
        /\ \A r \in FloorsOf(f, Policy, today) :
              q.proposed >= AtMost(Policy.floors[r], DOUBTFUL)
    BY <2>2, <2>f, ReviewBounds DEF ProposalType
  <2> HIDE DEF q
  <2>4. q.proposed = PASS
    BY <2>2, <2>3 DEF Grades, PASS, SPECIAL_MENTION, LOSS
  <2>5. Breaches = {}
    BY <2>f, <2>2, OpenBreachIsTested
  <2>6. ~(MaterialDays >= Policy.sicr)
    <3>1. Policy.floors["floor-arrears-sicr"] \in Grades
      BY PolicyNumbers DEF IsPolicy, ValidPolicy, Covers, FloorRules
    <3>2. AtMost(Policy.floors["floor-arrears-sicr"], DOUBTFUL) >= SPECIAL_MENTION
      BY <3>1 DEF AtMost, Grades, PASS, SPECIAL_MENTION, DOUBTFUL, LOSS
    <3>3. AtMost(Policy.floors["floor-arrears-sicr"], DOUBTFUL) \in Int
      BY <3>1 DEF AtMost, Grades, PASS, DOUBTFUL, LOSS
    <3>4. "floor-arrears-sicr" \notin FloorsOf(f, Policy, today)
      BY <2>3, <2>4, <3>2, <3>3 DEF PASS, SPECIAL_MENTION
    <3>5. QED
      BY <2>f, <3>4, FloorsReach
  <2>7. MaterialDays < Policy.sicr
    BY <2>6, PolicyNumbers, ClockRuns DEF TypeOK, FileType, MaterialDays
  <2>8. QED
    BY <2>1, <2>2, <2>3, <2>4, <2>5, <2>7 DEF q
<1>2. QED
  BY <1>1, TypesHold, PTL DEF Spec, NothingPassesUnseen

------------------------------------------------------------------------------
(* The ratchet.                                                            *)

LEMMA RatchetInit == Init => Ratchet!Init
BY EvidenceAssumption
   DEF Init, FileType, Ratchet!Init, Ratchet!NoOffer, StandingOffer, IsAssessed,
       Unreviewed, Ratchet!Grades, Ratchet!PASS, Ratchet!LOSS, Grades, PASS, LOSS

\* A review makes an offer the ratchet allows, or none.
LEMMA RatchetReview == ASSUME TypeOK, NEW n, Review(n) PROVE Ratchet!Review
<1> DEFINE f == EvidenceFor(Resolved(n))
           made == OutcomeOn(f, Resolved(n))
<1>1. UNCHANGED <<file.grade, file.clean, peak>> /\ last' = made
  BY DEF Review, Outcome
<1>2. CASE made = Ungrounded
  <2>1. StandingOffer' = Ratchet!NoOffer
    BY <1>1, <1>2 DEF StandingOffer, IsAssessed, Ungrounded, Ratchet!NoOffer
  <2>2. QED
    BY <1>1, <2>1 DEF Ratchet!Review
<1>3. CASE made # Ungrounded
  <2> DEFINE q == ProposalOf(f, Policy, today)
             o == [from |-> q.current, to |-> q.proposed]
  <2>1. StandingOffer' = o
    BY <1>1, <1>3, OutcomeShape DEF StandingOffer, IsAssessed
  <2>2. /\ q.current = file.grade /\ q.current \in Grades /\ q.proposed \in Grades
        /\ q.proposed > file.grade => q.proposed <= DOUBTFUL
        /\ q.proposed < file.grade =>
              /\ file.grade - q.proposed <= Policy.notches
              /\ Withheld(f, SignalsOf(f, Policy, today),
                          TestsOf(f, Policy, today),
                          CompleteOf(f, Policy, today), Policy) = "none"
    BY EvidenceShape, ReviewBounds DEF ProposalType
  <2>3. q.proposed < file.grade => ~(file.clean < Policy.cleanPeriods)
    BY <2>2, EvidenceShape DEF Withheld
  <2>4. q.proposed < file.grade => file.clean >= Policy.cleanPeriods
    BY <2>3, PolicyNumbers DEF TypeOK, FileType
  <2> HIDE DEF q
  <2>5. o \in Ratchet!Offers /\ Ratchet!MayOffer(o)
    BY <2>2, <2>4 DEF Ratchet!Offers, Ratchet!MayOffer, Ratchet!Grades, Ratchet!PASS,
       Ratchet!LOSS, Ratchet!DOUBTFUL, Grades, PASS, LOSS, DOUBTFUL
  <2>6. QED
    BY <1>1, <2>1, <2>5 DEF Ratchet!Review
<1>4. QED
  BY <1>2, <1>3

\* Every other step is an adoption, a count, or nothing the ratchet sees.
LEMMA RatchetStep == ASSUME TypeOK, [Next]_vars PROVE [Ratchet!Next]_(Ratchet!vars)
<1> USE DEF Ratchet!vars
<1>1. CASE \E n \in TestPeriods : Review(n)
  BY <1>1, RatchetReview DEF Ratchet!Next
<1>2. CASE Adopt
  <2>1. last \notin {Unreviewed, Ungrounded}
    BY <1>2 DEF Adopt, IsAssessed, Unreviewed, Ungrounded
  <2>2. /\ last.assessment.proposal.current \in Grades
        /\ last.assessment.proposal.proposed \in Grades
    BY <2>1 DEF TypeOK, ProposalType
  <2>3. StandingOffer = [from |-> last.assessment.proposal.current,
                         to   |-> last.assessment.proposal.proposed]
    BY <1>2 DEF Adopt, StandingOffer
  <2>4. StandingOffer \in Ratchet!Offers /\ StandingOffer' = StandingOffer
    BY <1>2, <2>2, <2>3 DEF Adopt, StandingOffer, IsAssessed, Ratchet!Offers,
       Ratchet!Grades, Ratchet!PASS, Ratchet!LOSS, Grades, PASS, LOSS
  <2>5. /\ file'.grade = last.assessment.proposal.proposed /\ file'.clean = 0
        /\ last.assessment.proposal.current = file.grade
        /\ last.assessment.proposal.proposed # file.grade
        /\ peak' = 0
    BY <1>2 DEF Adopt, TypeOK, FileType
  <2>6. Ratchet!Adopt
    BY <2>3, <2>4, <2>5 DEF Ratchet!Adopt
  <2>7. QED
    BY <2>6 DEF Ratchet!Next
<1>3. CASE CountClean
  <2>1. file'.clean = file.clean + 1 /\ file'.grade = file.grade /\ last' = last
        /\ peak' = AtLeast(peak, file.clean + 1)
    BY <1>3 DEF CountClean, TypeOK, FileType
  <2>2. StandingOffer' = StandingOffer
    BY <2>1 DEF StandingOffer, IsAssessed
  <2>3. Ratchet!Count
    BY <2>1, <2>2 DEF Ratchet!Count, Ratchet!AtLeast, AtLeast
  <2>4. QED
    BY <2>3 DEF Ratchet!Next
<1>4. CASE RestartCount
  <2>1. file'.clean = 0 /\ file'.grade = file.grade /\ last' = last /\ peak' = peak
    BY <1>4 DEF RestartCount, TypeOK, FileType
  <2>2. StandingOffer' = StandingOffer
    BY <2>1 DEF StandingOffer, IsAssessed
  <2>3. Ratchet!Restart
    BY <2>1, <2>2 DEF Ratchet!Restart
  <2>4. QED
    BY <2>3 DEF Ratchet!Next
<1>5. CASE \/ \E t \in file.terms, v \in Values : Certify(t, v)
           \/ \E t \in file.terms : RollPeriod(t)
           \/ \E t \in file.terms, u \in Expiries : Waive(t, u)
           \/ \E a \in Snapshots : Service(a)
           \/ \E s \in Stories : Publish(s)
           \/ \E r \in Readings : Spread(r)
           \/ Tick \/ Confirm \/ UNCHANGED vars
  <2>1. file'.clean = file.clean /\ file'.grade = file.grade /\ last' = last /\ peak' = peak
    BY <1>5 DEF Certify, RollPeriod, Waive, Service, Publish, Spread, Tick, Confirm,
       vars, TypeOK, FileType
  <2>2. StandingOffer' = StandingOffer
    BY <2>1 DEF StandingOffer, IsAssessed
  <2>3. QED
    BY <2>1, <2>2
<1>6. QED
  BY <1>1, <1>2, <1>3, <1>4, <1>5 DEF Next, Environment

\* Monitoring an obligor implements the ratchet, whatever evidence comes in
\* between a review and the adoption of what it proposed.
THEOREM MonitoringIsARatchet == Spec => RatchetSpec
<1>1. TypeOK /\ [Next]_vars => [Ratchet!Next]_(Ratchet!vars)
  BY RatchetStep
<1>2. QED
  BY <1>1, RatchetInit, TypesHold, PTL DEF Spec, RatchetSpec, Ratchet!Spec

\* So every move of an obligor's grade of record is an earned one.
THEOREM GradeMovesAreEarned == Spec => Ratchet!MovesAreEarned
<1>1. Policy.cleanPeriods \in Int /\ Policy.notches \in Int
  BY PolicyNumbers
<1>2. Ratchet!Spec => Ratchet!MovesAreEarned
  BY <1>1, Ratchet!MovesEarned
<1>3. QED
  BY <1>2, MonitoringIsARatchet DEF RatchetSpec

------------------------------------------------------------------------------
(* Dual control.                                                           *)

\* The movement on the last assessment is the one its two grades make.
MovementIsTrue ==
    IsAssessed => LET q == last.assessment.proposal
                  IN  q.movement = MovementOf(q.current, q.proposed)

LEMMA NextMovementIsTrue ==
    ASSUME TypeOK, MovementIsTrue, [Next]_vars PROVE MovementIsTrue'
<1>1. ASSUME NEW n \in TestPeriods, Review(n) PROVE MovementIsTrue'
  <2> DEFINE f    == EvidenceFor(Resolved(n))
             made == OutcomeOn(f, Resolved(n))
             q    == ProposalOf(f, Policy, today)
  <2>1. last' = made
    BY <1>1 DEF Review, Outcome
  <2>2. CASE made = Ungrounded
    BY <2>1, <2>2 DEF Ungrounded, MovementIsTrue, IsAssessed
  <2>3. CASE made # Ungrounded
    <3>1. q.movement = MovementOf(q.current, q.proposed)
      BY DEF ProposalOf, Proposal
    <3>2. last'.assessment.proposal = q
      BY <2>1, <2>3, OutcomeShape
    <3>3. QED
      BY <3>1, <3>2 DEF MovementIsTrue
  <2>4. QED
    BY <2>2, <2>3
<1>2. CASE last' = last
  BY <1>2 DEF MovementIsTrue, IsAssessed
<1>3. QED
  BY <1>1, <1>2 DEF Next, Environment, vars, Certify, RollPeriod, Waive, Service, Publish,
     Spread, CountClean, RestartCount, Tick, Adopt, Confirm

\* Two approvals stand behind every crossing of the non-performing line, in
\* either direction, whatever the exposure: the proposal that made the move
\* still says which way it went.
THEOREM CrossingsTakeTwo == Spec => CrossingTakesTwo
<1>1. Init => MovementIsTrue
  BY DEF Init, MovementIsTrue, IsAssessed, Unreviewed
<1>2. TypeOK /\ MovementIsTrue /\ [Next]_vars => MovementIsTrue'
  BY NextMovementIsTrue
<1>3. TypeOK /\ MovementIsTrue /\ [Next]_vars =>
        [(file.grade \in NonPerforming) # (file'.grade \in NonPerforming)
           => RequiredApprovals(last.assessment.proposal, 0, Policy) = 2]_vars
  <2> SUFFICES ASSUME TypeOK, MovementIsTrue, Next,
                      (file.grade \in NonPerforming) # (file'.grade \in NonPerforming)
               PROVE  RequiredApprovals(last.assessment.proposal, 0, Policy) = 2
    OBVIOUS
  <2> DEFINE q == last.assessment.proposal
  <2>1. Adopt
    BY DEF Next, Environment, Certify, RollPeriod, Waive, Service, Publish, Spread,
       CountClean, RestartCount, Tick, Review, Confirm, TypeOK, FileType
  <2>2. IsAssessed /\ q.current = file.grade /\ q.proposed = file'.grade
    BY <2>1 DEF Adopt, TypeOK, FileType
  <2>3. q.movement = MovementOf(q.current, q.proposed)
    BY <2>2 DEF MovementIsTrue
  <2>4. file.grade \in Grades /\ q.proposed \in Grades
    <3>1. last \notin {Unreviewed, Ungrounded}
      BY <2>2 DEF IsAssessed, Unreviewed, Ungrounded
    <3>2. QED
      BY <3>1 DEF TypeOK, ProposalType, FileType
  <2> HIDE DEF q
  <2>5. CASE q.proposed \in NonPerforming
    BY <2>5 DEF RequiredApprovals, q
  <2>6. CASE q.proposed \notin NonPerforming
    <3>1. q.current \in NonPerforming
      BY <2>2, <2>6
    <3>2. q.proposed < q.current
      BY <2>2, <2>4, <2>6, <3>1
         DEF NonPerforming, Grades, PASS, SPECIAL_MENTION, SUBSTANDARD, DOUBTFUL, LOSS
    <3>3. q.movement = "upgrade"
      BY <2>2, <2>3, <2>4, <3>2 DEF MovementOf, Grades, PASS, LOSS
    <3>4. QED
      BY <3>1, <3>3 DEF RequiredApprovals, q
  <2>7. QED
    BY <2>5, <2>6
<1>4. QED
  BY <1>1, <1>2, <1>3, TypesHold, PTL DEF Spec, CrossingTakesTwo
==============================================================================
