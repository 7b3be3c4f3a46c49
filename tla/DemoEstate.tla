------------------------------ MODULE DemoEstate ------------------------------
(***************************************************************************)
(* The synthetic estate the offline adapters serve, the demo drives and    *)
(* the evaluation scores (adapters/local/_fixtures.py): eleven obligors,   *)
(* each built for one edge of the engine, and the verdicts the golden      *)
(* cases publish for them (eval/datasets/golden_cases.jsonl).              *)
(*                                                                         *)
(* Day 0 is 1 January 2026.  Covenant values are in hundredths, metrics in *)
(* ten-thousandths, money in units of Coarse, which keeps products of      *)
(* amounts and basis points within TLC's integers.                         *)
(***************************************************************************)
EXTENDS EarlyWarningEngine

\* A date of the first eight months of 2026.
On(month, day) == <<0, 31, 59, 90, 120, 151, 181, 212>>[month] + day - 1

AS_OF                == On(6, 30)
TEST_PERIOD          == 1
PERIOD_END           == On(6, 30)
CERTIFICATE_DUE      == On(6, 15)
CERTIFICATE_RECEIVED == On(6, 10)

Coarse      == 20
Money(n)    == n \div Coarse

\* The shipped policy, its one amount of money included.
BookPolicy == [DefaultPolicy EXCEPT !.absolute = Money(500)]

------------------------------------------------------------------------------
(* One row of each table.                                                  *)

CovenantTerm(id, op, threshold) ==
    [id |-> id, period |-> TEST_PERIOD, periodEnd |-> PERIOD_END, due |-> CERTIFICATE_DUE,
     op |-> op, threshold |-> threshold, headroom |-> -1, waiver |-> FALSE,
     expiry |-> NoDate, consecutive |-> 0, located |-> TRUE]

\* Nine of the eleven carry this pair: leverage, and debt service.
Leverage    == CovenantTerm("lev", "<=", 350)
DebtService == CovenantTerm("dscr", ">=", 125)

Observed(id, value) ==
    [id |-> id, period |-> TEST_PERIOD, usable |-> TRUE, value |-> value,
     received |-> CERTIFICATE_RECEIVED]

Observation(metric, value, asOf) ==
    [metric |-> metric, value |-> value, ratio |-> metric = "ebitda", asOf |-> asOf,
     ref |-> 0, located |-> TRUE]

\* A metric's two periods, newest first, as the demo book ships them.
Window(metric, latest, prior) ==
    {Observation(metric, latest, On(6, 30)), Observation(metric, prior, On(3, 31))}

ArrearsSnapshot(drawn, pastDue, days) ==
    [known |-> TRUE, days |-> days, pastDue |-> Money(pastDue), drawn |-> Money(drawn),
     located |-> TRUE]

News(id, relevance, category) ==
    [id |-> id, relevance |-> relevance, category |-> category, published |-> On(5, 20),
     located |-> TRUE]

ObligorFixture(grade, clean, lastReview, terms, certificates, arrears, window, news) ==
    [grade |-> grade, clean |-> clean, lastReview |-> lastReview, located |-> TRUE,
     terms |-> terms, certificates |-> certificates, arrears |-> arrears,
     window |-> window, news |-> news]

\* What most obligors file: the rest of the required metrics, uneventful.
Liquidity   == Window("current_ratio", 16000, 15500) \cup Window("ebitda", 42000, 41000)
Collections == Window("collections_concentration_pct", 310000, 330000)
Quiet == Liquidity \cup Collections \cup Window("revolver_utilisation_pct", 420000, 400000)

\* A file that keeps both covenants and owes nothing.
Sound(grade, clean, lastReview, lev, dscr, drawn, window, news) ==
    ObligorFixture(grade, clean, lastReview, {Leverage, DebtService},
                   <<Observed("lev", lev), Observed("dscr", dscr)>>,
                   ArrearsSnapshot(drawn, 0, 0), window, news)

------------------------------------------------------------------------------
(* The obligors.                                                           *)

\* The baseline: a clean obligor that produces no review at all.
Alpha == Sound(PASS, 4, On(3, 31), 210, 192, 7800000,
               Quiet \cup Window("net_debt_to_ebitda", 21000, 22000)
                     \cup Window("dscr", 19200, 18500), {})

\* A single unwaived breach: the floor classifies, not the score.
Beta == ObligorFixture(PASS, 2, On(4, 15),
            {[Leverage EXCEPT !.consecutive = 1], DebtService},
            <<Observed("lev", 362), Observed("dscr", 148)>>,
            ArrearsSnapshot(9800000, 0, 0),
            Quiet \cup Window("net_debt_to_ebitda", 36200, 34000)
                  \cup Window("dscr", 14800, 15500), {})

\* A live waiver takes the floor away and not the signal.
Gamma == ObligorFixture(PASS, 1, On(2, 15),
            {[Leverage EXCEPT !.waiver = TRUE, !.expiry = On(8, 15)],
             CovenantTerm("tnw", ">=", 150)},
            <<Observed("lev", 370), Observed("tnw", 240)>>,
            ArrearsSnapshot(5200000, 0, 0),
            Quiet \cup Window("net_debt_to_ebitda", 37000, 35500)
                  \cup Window("dscr", 19200, 18500),
            {News("news-gamma-01", "dismissed", "supplier_distress")})

\* The family cap binds, and the arrears floor sets the grade.
Delta == ObligorFixture(PASS, 0, On(1, 31),
            {[DebtService EXCEPT !.consecutive = 1], Leverage},
            <<Observed("dscr", 118), Observed("lev", 342)>>,
            ArrearsSnapshot(38500000, 1240000, 96),
            Collections \cup Window("net_debt_to_ebitda", 34200, 33000)
                        \cup Window("dscr", 11800, 13000)
                        \cup Window("current_ratio", 12200, 13000)
                        \cup Window("ebitda", 33000, 50000)
                        \cup Window("revolver_utilisation_pct", 880000, 790000),
            {News("news-delta-01", "unconfirmed", "litigation")})

\* Material arrears on a spotless covenant sheet.
Epsilon ==
    [Sound(SPECIAL_MENTION, 0, On(3, 1), 205, 171, 3100000,
           Liquidity \cup Collections \cup Window("revolver_utilisation_pct", 450000, 440000)
                     \cup Window("net_debt_to_ebitda", 20500, 21500)
                     \cup Window("dscr", 17100, 16800), {})
        EXCEPT !.arrears = ArrearsSnapshot(3100000, 96400, 96)]

\* The upgrade path is entered, and refused on the clean periods.
Zeta == Sound(SPECIAL_MENTION, 1, On(4, 30), 230, 180, 7000000,
              Quiet \cup Window("net_debt_to_ebitda", 23000, 23500)
                    \cup Window("dscr", 18000, 17800), {})

\* The one-notch cap, on the way out of non-performing.
Eta == Sound(SUBSTANDARD, 3, On(3, 31), 215, 186, 4100000,
             Quiet \cup Window("net_debt_to_ebitda", 21500, 22500)
                   \cup Window("dscr", 18600, 18000), {})

\* Nothing certified, most metrics missing, never reviewed.
Theta == ObligorFixture(PASS, 2, NoDate,
            {[t EXCEPT !.due = On(4, 20)] : t \in {Leverage, DebtService}}, << >>,
            ArrearsSnapshot(11000000, 0, 0),
            Window("revolver_utilisation_pct", 550000, 540000)
                \cup Window("collections_concentration_pct", 310000, 320000), {})

\* An unconfirmed item can never move a grade.
Iota == Sound(PASS, 3, On(2, 28), 195, 205, 1900000,
              Quiet \cup Window("net_debt_to_ebitda", 19500, 20000)
                    \cup Window("dscr", 20500, 20200),
              {News("news-iota-01", "unconfirmed", "insolvency")})

\* Forty-one days past due that are not material.
Kappa ==
    [Sound(PASS, 3, On(3, 31), 240, 170, 1480000,
           Quiet \cup Window("net_debt_to_ebitda", 24000, 24500)
                 \cup Window("dscr", 17000, 17200), {})
        EXCEPT !.arrears = ArrearsSnapshot(1480000, 640, 41)]

\* Three confirmed items that arrive without a category and stay under their cap.
Lambda == Sound(PASS, 2, On(1, 30), 225, 166, 6000000,
                Quiet \cup Window("net_debt_to_ebitda", 22500, 23000)
                      \cup Window("dscr", 16600, 16400),
                {News(n, "confirmed", "unclear") :
                    n \in {"news-lambda-01", "news-lambda-02", "news-lambda-03"}})

\* The category whose words the offline narrator finds in an item's own text.
Categorise(id) ==
    CASE id = "news-lambda-01" -> "insolvency"
      [] id = "news-lambda-02" -> "litigation"
      [] id = "news-lambda-03" -> "rating_downgrade"

\* Confirmed items that arrive unclear are categorised before anything is scored.
Categorised(f) ==
    [f EXCEPT !.news =
        {IF n.relevance = "confirmed" /\ n.category = "unclear"
         THEN [n EXCEPT !.category = Categorise(n.id)] ELSE n : n \in @}]

\* This tenant's book as the engine sees it.
Estate == {Categorised(f) : f \in {Alpha, Beta, Gamma, Delta, Epsilon, Zeta, Eta, Theta,
                                   Iota, Kappa, Lambda}}

\* validate of demo_book.py: what the engine depends on and an edit of the book could
\* break.
ValidBook(files) ==
    /\ \A f \in files :
          /\ \A o, q \in f.window : o.metric = q.metric /\ o.asOf = q.asOf => o = q
          /\ \A o \in f.window : o.located
          /\ f.arrears.drawn > 0 /\ f.arrears.pastDue \in 0..f.arrears.drawn
          /\ f.arrears.days >= 0
          /\ f.window # {}
    /\ \E f \in files : DefaultRequiredMetrics \subseteq {o.metric : o \in f.window}

ASSUME BookAssumption == ValidBook(Estate)

------------------------------------------------------------------------------
(* The golden cases: obligor, grade, movement, floors, composite, routed.  *)

Case(f, grade, movement, floors, composite, routed) ==
    [obligor |-> Categorised(f), grade |-> grade, movement |-> movement,
     floors |-> floors, composite |-> composite, routed |-> routed]

GoldenCases ==
    { Case(Alpha,   PASS,            "affirm",    {}, 0,  FALSE),
      Case(Beta,    SPECIAL_MENTION, "downgrade", {"floor-covenant-breach"}, 30, TRUE),
      Case(Gamma,   PASS,            "affirm",    {}, 12, TRUE),
      Case(Delta,   SUBSTANDARD,     "downgrade", {"floor-covenant-breach",
                                "floor-arrears-sicr", "floor-arrears-default"}, 65, TRUE),
      Case(Epsilon, SUBSTANDARD,     "downgrade", {"floor-arrears-sicr",
                                "floor-arrears-default"}, 25, TRUE),
      Case(Zeta,    SPECIAL_MENTION, "affirm",    {}, 0,  TRUE),
      Case(Eta,     SPECIAL_MENTION, "upgrade",   {}, 0,  TRUE),
      Case(Theta,   PASS,            "affirm",    {}, 20, TRUE),
      Case(Iota,    PASS,            "affirm",    {}, 0,  FALSE),
      Case(Kappa,   PASS,            "affirm",    {}, 0,  FALSE),
      Case(Lambda,  PASS,            "affirm",    {}, 20, TRUE) }

\* What run_smoke scores of an assessment: all five must agree, the floors as an
\* exact set.
Agrees(case, assessment, composite) ==
    /\ assessment.proposal.proposed = case.grade
    /\ assessment.proposal.movement = case.movement
    /\ assessment.proposal.floors = case.floors
    /\ composite = case.composite
    /\ (assessment.decision = "escalated") = case.routed

===============================================================================
