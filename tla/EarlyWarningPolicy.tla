-------------------------- MODULE EarlyWarningPolicy -------------------------
(***************************************************************************)
(* The bank-owned policy (domain/policy.py): every number the engine       *)
(* compares against, the shipped reference values, and the refusals        *)
(* validate_policy makes when a settings file is loaded.                   *)
(*                                                                         *)
(* Percentages and ratios are held in basis points and the dual-control    *)
(* exposure in major currency units, so that all arithmetic is on          *)
(* integers.  A policy is a record; an operator that needs one takes it    *)
(* as its parameter p.                                                     *)
(***************************************************************************)
EXTENDS WatchTaxonomy, Sequences, FiniteSets

Weight(w, s, f) == [weight |-> w, severity |-> s, family |-> f]
Tier(w, s)      == [weight |-> w, severity |-> s]

\* One configured rule.  "present" rules match a news category, the others a
\* metric of the observation window.  The threshold is optional, so it is a set
\* of at most one value, in ten-thousandths like the metrics it is read against.
Rule(id, family, metric, cmp, threshold, periods, weight, severity) ==
    [id |-> id, family |-> family, metric |-> metric, cmp |-> cmp,
     threshold |-> threshold, periods |-> periods,
     weight |-> weight, severity |-> severity]

PresentRule(id, category, weight, severity) ==
    Rule(id, "external", category, "present", {}, 1, weight, severity)

\* The shipped reference rules (default_signal_rules).
DefaultRules ==
    { Rule("fin-leverage-trend", "financial", "net_debt_to_ebitda",
           "max", {40000}, 2, 20, HIGH),
      Rule("fin-dscr-thin", "financial", "dscr", "min", {12000}, 1, 18, MEDIUM),
      Rule("fin-ebitda-decline", "financial", "ebitda",
           "delta_min", {-3000}, 1, 15, MEDIUM),
      Rule("fin-liquidity-thin", "financial", "current_ratio",
           "min", {10000}, 1, 12, MEDIUM),
      Rule("beh-utilisation-jump", "behavioural", "revolver_utilisation_pct",
           "delta_max", {250000}, 1, 15, MEDIUM),
      Rule("beh-utilisation-sustained", "behavioural",
           "revolver_utilisation_pct", "max", {950000}, 2, 12, MEDIUM),
      Rule("beh-excess-days", "behavioural", "excess_over_limit_days",
           "max", {50000}, 1, 12, MEDIUM),
      Rule("beh-returned-debits", "behavioural", "returned_debits",
           "max", {20000}, 1, 10, MEDIUM),
      Rule("beh-collections-drop", "behavioural",
           "collections_concentration_pct", "delta_min", {-200000}, 1, 10, MEDIUM),
      PresentRule("ext-insolvency", "insolvency", 20, HIGH),
      PresentRule("ext-litigation", "litigation", 12, MEDIUM),
      PresentRule("ext-rating-downgrade", "rating_downgrade", 12, MEDIUM),
      PresentRule("ext-regulatory-action", "regulatory_action", 12, MEDIUM),
      PresentRule("ext-supplier-distress", "supplier_distress", 8, LOW) }

DefaultCaps ==
    [f \in Families |-> CASE f = "financial"   -> 40
                          [] f = "behavioural" -> 30
                          [] OTHER             -> 20]

DefaultBands ==
    << [min |-> 0,  grade |-> PASS],
       [min |-> 35, grade |-> SPECIAL_MENTION],
       [min |-> 70, grade |-> SUBSTANDARD],
       [min |-> 90, grade |-> DOUBTFUL] >>

DefaultFloorGrades ==
    [r \in FloorRules |->
        CASE r \in {"floor-covenant-breach-repeat", "floor-arrears-default"}
                                        -> SUBSTANDARD
          [] r = "floor-arrears-severe" -> DOUBTFUL
          [] OTHER                      -> SPECIAL_MENTION]

DefaultCovenantWeights ==
    [s \in Statuses |->
        CASE s = "breach"        -> Weight(30, HIGH,   "financial")
          [] s = "waived"        -> Weight(12, MEDIUM, "financial")
          [] s = "at_risk"       -> Weight(10, MEDIUM, "financial")
          [] s = "not_evidenced" -> Weight(12, MEDIUM, "process")
          [] s = "stale"         -> Weight(10, MEDIUM, "process")
          [] s = "not_due"       -> Weight(0,  LOW,    "process")
          [] s = "compliant"     -> Weight(0,  LOW,    "financial")]

DefaultArrearsWeights ==
    [t \in ArrearsTiers |-> IF t = "sicr" THEN Tier(15, HIGH)
                                          ELSE Tier(25, CRITICAL)]

\* An absent review costs what a late one does and is reported as more severe.
DefaultClockWeights ==
    [t \in ClockTiers |-> Tier(12, IF t = "absent" THEN HIGH ELSE MEDIUM)]

DefaultRequiredMetrics ==
    {"net_debt_to_ebitda", "dscr", "current_ratio", "ebitda",
     "revolver_utilisation_pct", "collections_concentration_pct"}

DefaultPolicy ==
    [headroom |-> 500, lag |-> 120, grace |-> 45, notice |-> 90,
     absolute |-> 50000, relative |-> 100,
     sicr |-> 30, default |-> 90, severe |-> 180, reviewAge |-> 365,
     caps |-> DefaultCaps, bands |-> DefaultBands,
     floors |-> DefaultFloorGrades, covenant |-> DefaultCovenantWeights,
     arrears |-> DefaultArrearsWeights, clock |-> DefaultClockWeights,
     coverage |-> 10, minComplete |-> 6000,
     cleanPeriods |-> 2, notches |-> 1, upgradeComplete |-> 9000,
     required |-> DefaultRequiredMetrics, gate |-> HIGH,
     dual |-> 25000000, lookback |-> 365, rules |-> DefaultRules]

------------------------------------------------------------------------------
(***************************************************************************)
(* The values of a policy that parsed.  A mapping may cover only some of   *)
(* its keys, because a configured block replaces the shipped one whole.    *)
(***************************************************************************)
IsWeight(w) == /\ w.weight \in Int
               /\ w.severity \in Severities
               /\ w.family \in Families

IsTier(t) == t.weight \in Int /\ t.severity \in Severities

IsPolicy(p) ==
    /\ \A n \in {p.headroom, p.lag, p.grace, p.notice, p.absolute, p.relative,
                 p.sicr, p.default, p.severe, p.reviewAge, p.coverage,
                 p.minComplete, p.cleanPeriods, p.notches, p.upgradeComplete,
                 p.dual, p.lookback} : n \in Int
    /\ DOMAIN p.caps \subseteq Families /\ \A f \in DOMAIN p.caps : p.caps[f] \in Int
    /\ p.bands \in Seq([min : Int, grade : Grades])
    /\ DOMAIN p.floors \subseteq FloorRules
    /\ \A r \in DOMAIN p.floors : p.floors[r] \in Grades
    /\ DOMAIN p.covenant \subseteq Statuses
    /\ \A s \in DOMAIN p.covenant : IsWeight(p.covenant[s])
    /\ \A t \in DOMAIN p.arrears : IsTier(p.arrears[t])
    /\ \A t \in DOMAIN p.clock : IsTier(p.clock[t])
    /\ p.gate \in Severities
    /\ IsFiniteSet(p.required)
    /\ IsFiniteSet(p.rules) /\ \A r \in p.rules : IsWeight(r)

\* _coverage_problems: every mapping covers every key the engine indexes.
Covers(p) ==
    /\ Families     \subseteq DOMAIN p.caps
    /\ FloorRules   \subseteq DOMAIN p.floors
    /\ Statuses     \subseteq DOMAIN p.covenant
    /\ ArrearsTiers \subseteq DOMAIN p.arrears
    /\ ClockTiers   \subseteq DOMAIN p.clock

\* The ladder starts at (0, pass) and climbs strictly in score and in grade.
LadderOk(bands) ==
    /\ bands # << >>
    /\ bands[1].min = 0 /\ bands[1].grade = PASS
    /\ \A i \in 1..(Len(bands) - 1) :
          /\ bands[i].min < bands[i + 1].min
          /\ bands[i].grade < bands[i + 1].grade

\* The scores at which a ladder leaves pass.
AdverseScores(bands) ==
    {bands[i].min : i \in {j \in 1..Len(bands) : bands[j].grade # PASS}}

\* A bounded family's cap stays below the first adverse score, which
\* validate_policy takes as 0 when the ladder has no adverse rung.
StaysBelowAdverse(cap, bands) ==
    IF AdverseScores(bands) = {} THEN cap < 0
    ELSE \A score \in AdverseScores(bands) : cap < score

CapsOk(p) ==
    /\ \A f \in DOMAIN p.caps : p.caps[f] >= 0
    /\ \A f \in DOMAIN p.caps \cap BoundedFamilies :
          StaysBelowAdverse(p.caps[f], p.bands)

ClocksOk(p) == p.sicr <= p.default /\ p.default <= p.severe

UpgradeOk(p) == p.notches >= 1 /\ p.minComplete <= p.upgradeComplete

\* validate_policy reports no problem.
ValidPolicy(p) ==
    /\ Covers(p)
    /\ LadderOk(p.bands)
    /\ CapsOk(p)
    /\ ClocksOk(p)
    /\ UpgradeOk(p)
    /\ p.required # {}
==============================================================================
