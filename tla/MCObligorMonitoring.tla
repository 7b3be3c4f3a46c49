------------------------- MODULE MCObligorMonitoring -------------------------
(***************************************************************************)
(* Small instances of ObligorMonitoring.  The shipped policy is kept where *)
(* it classifies (caps, bands, floors, weights); its clocks are scaled to  *)
(* days a short calendar reaches, and its required metrics and rules are   *)
(* cut to one of each kind.                                                *)
(***************************************************************************)
EXTENDS ObligorRatchet, DemoEstate

ShortClocks ==
    [DefaultPolicy EXCEPT
        !.lag = 1, !.grace = 1, !.notice = 0, !.absolute = 5, !.relative = 100,
        !.sicr = 1, !.default = 2, !.severe = 3, !.reviewAge = 2,
        !.lookback = 1, !.cleanPeriods = 1, !.required = {"dscr"},
        !.rules = {r \in @ : r.id \in {"fin-dscr-thin", "ext-insolvency",
                                        "ext-litigation"}}]

\* A policy that prices the severe past-due floor at loss, as a test does.
\* Its first adverse band is lowered so that uncapped media alone would reach it.
LossFloor == [ShortClocks EXCEPT !.floors["floor-arrears-severe"] = LOSS,
                                 !.bands[2].min = 25]

\* A covenant in its first test period, which ends on the given day.
Term(id, ends, consecutive) ==
    [id |-> id, period |-> 1, periodEnd |-> ends, due |-> ends + 1, op |-> ">=",
     threshold |-> 100, headroom |-> NoOverride, waiver |-> FALSE,
     expiry |-> NoDate, consecutive |-> consecutive, located |-> TRUE]

Arrears(days, pastDue) ==
    [known |-> TRUE, days |-> days, pastDue |-> pastDue, drawn |-> 1000,
     located |-> TRUE]
NoSnapshot == [Arrears(0, 0) EXCEPT !.known = FALSE]
Clean      == Arrears(0, 0)

Reading(metric, v) == [metric |-> metric, value |-> v, ratio |-> FALSE]
Story(id, category, relevance) ==
    [id |-> id, category |-> category, relevance |-> relevance, located |-> TRUE]

Row(metric, v, day) == [metric |-> metric, value |-> v, ratio |-> FALSE, asOf |-> day,
                        ref |-> 0, located |-> TRUE]

File(grade, terms) ==
    [grade |-> grade, clean |-> 0, lastReview |-> 0, located |-> TRUE,
     terms |-> terms, certificates |-> << >>, arrears |-> Clean,
     window |-> {Row("dscr", 15000, 0)},
     news |-> {}]

\* A certificate that reports a breach.
Breached(t) == [id |-> t.id, period |-> t.period, usable |-> TRUE, value |-> 90,
                received |-> 0]

Nothing   == {}
AnyPeriod == {NoPeriod}

\* Two covenants waived to the same day, of which only one rolls; and one covenant
\* at pass, with room in the window for a fresher metric.
Waived(t)        == [t EXCEPT !.waiver = TRUE, !.expiry = 1]
Undated(t)       == [t EXCEPT !.periodEnd = NoDate]
TwoCovenants     == [File(SPECIAL_MENTION,
                          {Waived(Term("A", 1, 1)), Undated(Waived(Term("B", 2, 0)))})
                        EXCEPT !.window = @ \cup {Row("current_ratio", 20000, 0)}]
OneCovenant      == File(PASS, {Term("A", 2, 1)})
CovenantFiles    == {OneCovenant, TwoCovenants}
CovenantReadings == {Reading("dscr", 15000)}
CovenantValues   == {90, 120}
CovenantExpiries == {1}
NamedPeriods     == {NoPeriod, 1}

\* Arrears through every tier and both materiality legs, with media.
ArrearsFiles     == {File(g, {}) : g \in {PASS, LOSS}}
ArrearsSnapshots == {Clean, NoSnapshot, Arrears(3, 9)}
                    \cup {Arrears(d, 20) : d \in 1..3}
ArrearsStories   == {Story("n1", "insolvency", "confirmed"),
                     Story("n2", "litigation", "confirmed")}
ArrearsReadings  == {Reading("dscr", 11000), Reading("restructured_within_days", 1000000)}

\* The shipped estate on its sweep date, and the clean obligor among them again at
\* every grade of record, with a review date and without one.
SweepDay        == AS_OF
LadderFiles     == Estate \cup {[Alpha EXCEPT !.grade = g, !.clean = 0, !.lastReview = d] :
                                   g \in Grades, d \in {AS_OF, NoDate}}
LadderSnapshots == {ArrearsSnapshot(7800000, 0, 0), ArrearsSnapshot(7800000, 200000, 180)}

\* eval/run_eval.py: a review of an obligor of the book on the sweep date reads as
\* the golden case published for it, composite and floors included, whatever that
\* obligor's reviews and adoptions were before.
TheBookIsGradedAsPublished ==
    [][Reviewed /\ today = AS_OF =>
         \A c \in GoldenCases : c.obligor = file =>
             Agrees(c, last'.assessment,
                    Composite(RawScores(SignalsOf(file, Policy, today)), Policy))]_vars

\* Under the shipped policy, obligors whose metrics drift out while the covenants
\* hold, nothing is past due and most metrics are on file; media may follow.
Steady == {Row("ebitda", 50000, 0), Row("collections_concentration_pct", 100000, 0),
           Row("net_debt_to_ebitda", 45000, 0), Row("revolver_utilisation_pct", 960000, 0)}
Drift == {Row("net_debt_to_ebitda", 46000, 1), Row("dscr", 11000, 1),
           Row("current_ratio", 9000, 1), Row("revolver_utilisation_pct", 970000, 1),
           Row("excess_over_limit_days", 60000, 1), Row("returned_debits", 30000, 1)}
DriftFiles   == {[File(PASS, {}) EXCEPT !.window = Steady \cup w] : w \in SUBSET Drift}
DriftStories == {Story("n1", "insolvency", "confirmed")}
==============================================================================
