-------------------------- MODULE EarlyWarningEngine -------------------------
(***************************************************************************)
(* EarlyWarningEngine.evaluate (domain/early_warning.py): one obligor's    *)
(* evidence in, one watchlist grade PROPOSAL out, in the engine's order:   *)
(* signals (S1-S10), grounding (S16), fusion, band, floors, proposal,      *)
(* review reasons (S11-S15).  A pure operator of its arguments.            *)
(*                                                                         *)
(* The evidence of one obligor is a record f of                            *)
(*   grade, clean, lastReview, located      the registry's record          *)
(*   terms, certificates                    covenants (CovenantLadder)     *)
(*   arrears                                [known, days, pastDue, drawn,  *)
(*                                           located]                      *)
(*   window   a set of [metric, value, asOf, ref, ratio, located]          *)
(*   news     a set of [id, relevance, category, published, located]       *)
(* where "located" says that the source gave a locator to cite, and known  *)
(* is FALSE when the servicing feed returned no snapshot.                  *)
(***************************************************************************)
EXTENDS EarlyWarningPolicy, CovenantLadder, FiniteSetsExt

Signal(rule, family, severity, weight, ref, located) ==
    [rule |-> rule, family |-> family, severity |-> severity,
     weight |-> weight, ref |-> ref, located |-> located]

------------------------------------------------------------------------------
(* S1, S8: arrears materiality, the effective clock and its tiers.         *)

RelativeLimit(a, p) == (a.drawn * p.relative) \div 10000

PastDue(a) == a.known /\ (a.days > 0 \/ a.pastDue > 0)

Material(a, p) ==
    /\ PastDue(a)
    /\ a.pastDue >= p.absolute
    /\ a.pastDue >= RelativeLimit(a, p)

\* Mutant: days past due count whether or not they are material.
EffectiveDaysUngated(a, p) == a.days

EffectiveDays(a, p) == IF Material(a, p) THEN a.days ELSE 0

\* What was considered is recorded with no weight even when nothing fired.
ArrearsGateSignals(a, p) ==
    IF ~a.known
    THEN {Signal("ews-arrears-not-evidenced", "process", MEDIUM, 0, "none", FALSE)}
    ELSE IF PastDue(a) /\ ~Material(a, p)
    THEN {Signal("ews-arrears-immaterial", "process", LOW, 0, "arrears", a.located)}
    ELSE {}

Backstops == {"none", "sicr_presumption", "default_presumption"}

\* The tier is the furthest clock reached: at most one past-due rule fires.
ReachedTiers(days, p) ==
    {t \in ArrearsTiers : days >= CASE t = "sicr"    -> p.sicr
                                    [] t = "default" -> p.default
                                    [] t = "severe"  -> p.severe}

ArrearsTier(days, p) ==
    CASE "severe"  \in ReachedTiers(days, p) -> "severe"
      [] ReachedTiers(days, p) \cap {"default", "severe"} = {"default"} -> "default"
      [] ReachedTiers(days, p) = {"sicr"}    -> "sicr"
      [] OTHER                               -> "none"

Backstop(days, p) ==
    CASE ArrearsTier(days, p) = "none" -> "none"
      [] ArrearsTier(days, p) = "sicr" -> "sicr_presumption"
      [] OTHER                         -> "default_presumption"

ArrearsSignals(a, p) ==
    LET tier == ArrearsTier(EffectiveDays(a, p), p)
    IN  IF tier = "none" THEN {}
        ELSE {Signal("ews-arrears", "behavioural", p.arrears[tier].severity,
                     p.arrears[tier].weight, tier, a.known /\ a.located)}

------------------------------------------------------------------------------
(* S4: one signal per covenant test that is neither compliant nor not due. *)

CovenantSignals(tests) ==
    {Signal(t.rule, t.family, t.severity, t.weight, t.id, t.located) :
        t \in {u \in tests : u.status \notin QuietStatuses}}

------------------------------------------------------------------------------
(* S5, S6, S7: the configured rules over the window and the media.         *)

\* The declared total order of a metric's rows; ref stands for period and
\* source_ref, which break ties between equally dated rows.
Newer(a, b) == a.asOf > b.asOf \/ (a.asOf = b.asOf /\ a.ref > b.ref)

Position(o, rows) == Cardinality({x \in rows : Newer(x, o)})

MostRecent(rows, n) == {o \in rows : Position(o, rows) < n}

RuleSignal(r, ref, located) ==
    Signal(r.id, r.family, r.severity, r.weight, ref, located)

\* A level rule needs every one of its last n periods to breach; a history
\* shorter than n fires nothing.
LevelSignals(r, rows) ==
    LET Beyond(v, t) == IF r.cmp = "max" THEN v > t ELSE v < t
        recent       == MostRecent(rows, r.periods)
    IN  IF \E t \in r.threshold : /\ Cardinality(rows) >= r.periods
                                  /\ \A o \in recent : Beyond(o.value, t)
        THEN {RuleSignal(r, r.metric,
                         \E o \in MostRecent(rows, 1) : o.located)}
        ELSE {}

\* A change rule compares the two newest rows; a ratio from zero is absent.
Moved(r, latest, prior, t) ==
    LET by    == (latest.value - prior.value) * (IF latest.ratio THEN 10000 ELSE 1)
        limit == t * (IF latest.ratio THEN Magnitude(prior.value) ELSE 1)
    IN  /\ latest.ratio => prior.value # 0
        /\ IF r.cmp = "delta_max" THEN by > limit ELSE by < limit

ChangeSignals(r, rows) ==
    {RuleSignal(r, r.metric, o[1].located \/ o[2].located) :
        o \in {lp \in rows \X rows : /\ Position(lp[1], rows) = 0
                                     /\ Position(lp[2], rows) = 1
                                     /\ \E t \in r.threshold :
                                            Moved(r, lp[1], lp[2], t)}}

\* Only an item the feed confirmed, inside the lookback, fires its category.
ExternalSignals(r, news, p, asOf) ==
    {RuleSignal(r, i.id, i.located) :
        i \in {n \in news : /\ n.relevance = "confirmed"
                            /\ n.category = r.metric
                            /\ asOf - n.published <= p.lookback}}

RuleSignals(window, news, p, asOf) ==
    UNION {LET rows == {o \in window : o.metric = r.metric}
           IN  CASE r.cmp = "present"       -> ExternalSignals(r, news, p, asOf)
                 [] r.cmp \in {"max", "min"} -> LevelSignals(r, rows)
                 [] OTHER                    -> ChangeSignals(r, rows)
           : r \in p.rules}

------------------------------------------------------------------------------
(* S9: the review clock.  S10: the completeness of the evidence.           *)

ClockSignals(f, p, asOf) ==
    LET Clock(tier) ==
            {Signal("ews-review", "process", p.clock[tier].severity,
                    p.clock[tier].weight, tier, f.located)}
    IN  IF f.lastReview = NoDate THEN Clock("absent")
        ELSE IF asOf - f.lastReview > p.reviewAge THEN Clock("overdue")
        ELSE {}

Closed(tests)    == {t \in tests : t.status # "not_due"}

\* Mutant: a stale figure still counts as evidence.
EvidencedEvenIfStale(tests) == {t \in Closed(tests) : t.status # "not_evidenced"}

Evidenced(tests) == {t \in Closed(tests) : t.status \notin {"not_evidenced", "stale"}}

Covered(window, p, asOf) ==
    {m \in p.required : \E o \in window : /\ o.metric = m
                                          /\ o.asOf <= asOf
                                          /\ asOf - o.asOf <= p.lag}

\* In basis points, rounded to the nearest as the code's four decimals are.
Completeness(tests, window, p, asOf) ==
    LET of   == Cardinality(Closed(tests)) + Cardinality(p.required)
        have == Cardinality(Evidenced(tests)) + Cardinality(Covered(window, p, asOf))
    IN  IF of = 0 THEN 0 ELSE (20000 * have + of) \div (2 * of)

CoverageSignals(complete, p) ==
    IF complete < p.minComplete
    THEN {Signal("ews-data-coverage-insufficient", "process", MEDIUM,
                 p.coverage, "none", FALSE)}
    ELSE {}
------------------------------------------------------------------------------
(* S16: a fired rule points at its source, or the evaluation raises.       *)

GroundingExempt == {"ews-data-coverage-insufficient", "ews-arrears-not-evidenced"}

Grounded(signals) ==
    \A s \in signals : s.located \/ s.rule \in GroundingExempt

------------------------------------------------------------------------------
(* S11, S12: capped fusion and the band.                                   *)

Raw(signals, family) ==
    MapThenSumSet(LAMBDA s : s.weight, {s \in signals : s.family = family})

RawScores(signals) == [f \in Families |-> Raw(signals, f)]

\* Mutant: the family caps are forgotten.
CompositeUncapped(raw, p) ==
    AtMost(100, raw["financial"] + raw["behavioural"] + raw["external"] + raw["process"])

Composite(raw, p) ==
    LET Capped(f) == AtMost(raw[f], p.caps[f])
    IN  AtMost(100, Capped("financial") + Capped("behavioural")
                    + Capped("external") + Capped("process"))

\* The last rung whose score is reached; the first one when none is.
Rungs(composite, bands) == {i \in DOMAIN bands : composite >= bands[i].min}

Band(composite, bands) ==
    IF Rungs(composite, bands) = {} THEN bands[1].grade
                                    ELSE bands[Max(Rungs(composite, bands))].grade

------------------------------------------------------------------------------
(* S13: every floor that applies, not only the one that wins.              *)

BreachedIds(tests) == {t.id : t \in {u \in tests : u.status = "breach"}}

RepeatBreach(terms, tests) ==
    LET ids == BreachedIds(tests)
    IN  \/ \E a, b \in ids : a # b
        \/ \E t \in terms : t.id \in ids /\ t.consecutive >= 2

RestructuredWindowDays == 365

\* The published figure is read whatever its own date is.
Restructured(window) ==
    \E o \in window : /\ o.metric = "restructured_within_days"
                      /\ o.value <= RestructuredWindowDays * 10000

Floors(terms, tests, days, window, p) ==
    {r \in FloorRules :
        CASE r = "floor-covenant-breach"        -> BreachedIds(tests) # {}
          [] r = "floor-covenant-breach-repeat" -> RepeatBreach(terms, tests)
          [] r = "floor-arrears-sicr"           -> days >= p.sicr
          [] r = "floor-arrears-default"        -> days >= p.default
          [] r = "floor-arrears-severe"         -> days >= p.severe
          [] r = "floor-restructured"           -> Restructured(window)}

------------------------------------------------------------------------------
(* S14: the proposal.  Downgrades are immediate and uncapped; an upgrade   *)
(* is withheld for the first reason that applies, else capped in notches.  *)

Floored(band, floors, p) == Max({band} \cup {p.floors[r] : r \in floors})

\* Mutants: the ceiling is forgotten, or set a rung too low.
UnderNoCeiling(rank)  == rank
UnderLowCeiling(rank) == AtMost(rank, SUBSTANDARD)

\* No evidence this engine reads supports a loss classification.
UnderCeiling(rank) == AtMost(rank, DOUBTFUL)

ActiveAt(severity, signals) ==
    \E s \in signals : s.severity >= severity /\ s.weight > 0

WithheldReasons == {"none", "insufficient-clean-periods", "active-signal",
                    "covenant-breach", "insufficient-evidence"}

\* Mutant: the clean history is not asked for.
WithheldWithoutHistory(f, signals, tests, complete, p) ==
    IF ActiveAt(HIGH, signals)           THEN "active-signal"
    ELSE IF BreachedIds(tests) # {}      THEN "covenant-breach"
    ELSE IF complete < p.upgradeComplete THEN "insufficient-evidence"
    ELSE "none"

Withheld(f, signals, tests, complete, p) ==
    IF f.clean < p.cleanPeriods             THEN "insufficient-clean-periods"
    ELSE IF ActiveAt(HIGH, signals)         THEN "active-signal"
    ELSE IF BreachedIds(tests) # {}         THEN "covenant-breach"
    ELSE IF complete < p.upgradeComplete    THEN "insufficient-evidence"
    ELSE "none"

\* Mutants: the climb is not capped, or is counted from the wrong rank.
ProposedRankUncapped(current, supported, withheld, p) ==
    IF withheld # "none" THEN AtLeast(supported, current) ELSE supported
ProposedRankOvershot(current, supported, withheld, p) ==
    IF supported >= current \/ withheld # "none" THEN AtLeast(supported, current)
                                                 ELSE supported - p.notches

\* The rank proposed, from the rank the evidence supports.
ProposedRank(current, supported, withheld, p) ==
    IF supported >= current THEN supported
    ELSE IF withheld # "none"   THEN current
    ELSE AtLeast(supported, current - p.notches)

MovementOf(current, proposed) ==
    CASE proposed > current -> "downgrade"
      [] proposed < current -> "upgrade"
      [] OTHER              -> "affirm"

Proposal(f, signals, tests, complete, p, composite, floors) ==
    LET band      == Band(composite, p.bands)
        evidence  == Floored(band, floors, p)
        supported == UnderCeiling(evidence)
        withheld  == IF supported < f.grade
                     THEN Withheld(f, signals, tests, complete, p) ELSE "none"
        proposed  == ProposedRank(f.grade, supported, withheld, p)
    IN  [current  |-> f.grade, band |-> band, floors |-> floors,
         ceiling  |-> evidence >= LOSS, withheld |-> withheld,
         proposed |-> proposed, movement |-> MovementOf(f.grade, proposed)]

------------------------------------------------------------------------------
(* S15: why a human must look at it.                                       *)

WaiverExpiring(tests, p, asOf) ==
    \E t \in tests : /\ t.status = "waived"
                     /\ t.waivedUntil # NoDate
                     /\ t.waivedUntil - asOf <= p.notice

\* Mutant: a missing arrears snapshot is nobody's business.
EvidenceReasonsCoverageOnly(arrears, complete, p) ==
    IF complete < p.minComplete THEN {"data-coverage-insufficient"} ELSE {}

\* The two findings about absent evidence, added as they are made (S1, S10).
EvidenceReasons(arrears, complete, p) ==
    {r \in {"arrears-not-evidenced", "data-coverage-insufficient"} :
        CASE r = "arrears-not-evidenced"      -> ~arrears.known
          [] r = "data-coverage-insufficient" -> complete < p.minComplete}

\* Mutant: only a downgrade needs an officer.
ReviewReasonsOnTheWayDown(proposal, tests, signals, p, asOf) ==
    IF \/ proposal.movement = "downgrade" \/ proposal.proposed >= SPECIAL_MENTION
       \/ BreachedIds(tests) # {} \/ ActiveAt(p.gate, signals)
    THEN {"regrade-proposed"} ELSE {}

ReviewReasons(proposal, tests, signals, p, asOf) ==
    {r \in {"regrade-proposed", "adverse-classified-periodic-review",
            "covenant-breach", "waiver-expiring", "high-severity-signal"} :
        CASE r = "regrade-proposed"           -> proposal.movement # "affirm"
          [] r = "adverse-classified-periodic-review" ->
                                         proposal.proposed >= SPECIAL_MENTION
          [] r = "covenant-breach"            -> BreachedIds(tests) # {}
          [] r = "waiver-expiring"            -> WaiverExpiring(tests, p, asOf)
          [] r = "high-severity-signal"       -> ActiveAt(p.gate, signals)}

------------------------------------------------------------------------------
(* The whole evaluation.                                                   *)

TestsOf(f, p, asOf)    == CovenantTests(f.terms, f.certificates, p, asOf)
CompleteOf(f, p, asOf) == Completeness(TestsOf(f, p, asOf), f.window, p, asOf)

SignalsOf(f, p, asOf) ==
    UNION {ArrearsGateSignals(f.arrears, p),
           CovenantSignals(TestsOf(f, p, asOf)),
           RuleSignals(f.window, f.news, p, asOf),
           ArrearsSignals(f.arrears, p),
           ClockSignals(f, p, asOf),
           CoverageSignals(CompleteOf(f, p, asOf), p)}

FloorsOf(f, p, asOf) ==
    Floors(f.terms, TestsOf(f, p, asOf), EffectiveDays(f.arrears, p), f.window, p)

ProposalOf(f, p, asOf) ==
    Proposal(f, SignalsOf(f, p, asOf), TestsOf(f, p, asOf),
             CompleteOf(f, p, asOf), p,
             Composite(RawScores(SignalsOf(f, p, asOf)), p), FloorsOf(f, p, asOf))

ReasonsOf(f, p, asOf) ==
    EvidenceReasons(f.arrears, CompleteOf(f, p, asOf), p)
    \cup ReviewReasons(ProposalOf(f, p, asOf), TestsOf(f, p, asOf),
                       SignalsOf(f, p, asOf), p, asOf)

\* The worst of the proposed grade's own severity and the fired signals'.
WorstSeverity(proposal, signals) ==
    Max({GradeSeverity(proposal.proposed)} \cup {s.severity : s \in signals})

Evaluate(f, p, asOf) ==
    LET proposal == ProposalOf(f, p, asOf)
        reasons  == ReasonsOf(f, p, asOf)
    IN  [asOf     |-> asOf,
         proposal |-> proposal,
         reasons  |-> reasons,
         backstop |-> Backstop(EffectiveDays(f.arrears, p), p),
         severity |-> WorstSeverity(proposal, SignalsOf(f, p, asOf)),
         decision |-> IF reasons # {} THEN "escalated" ELSE "allowed"]

\* Mutant: only the way into non-performing takes two.
RequiredApprovalsOnEntry(proposal, exposure, p) ==
    IF proposal.proposed \in NonPerforming \/ exposure > p.dual THEN 2 ELSE 1

\* required_approvals: the only place the exposure is read.
RequiredApprovals(proposal, exposure, p) ==
    IF \/ proposal.proposed \in NonPerforming
       \/ proposal.current \in NonPerforming /\ proposal.movement = "upgrade"
       \/ exposure > p.dual
    THEN 2 ELSE 1
==============================================================================
