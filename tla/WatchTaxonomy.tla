---------------------------- MODULE WatchTaxonomy ----------------------------
(***************************************************************************)
(* The closed vocabularies the early-warning engine reasons over           *)
(* (domain/models.py, domain/kernel.py).  Grades and severities ARE their  *)
(* ranks, because the engine compares nothing else; every other vocabulary *)
(* is a set of names.                                                      *)
(***************************************************************************)
EXTENDS Integers

\* The supervisory ladder by rank, worst last (GRADE_RANK).
PASS            == 0
SPECIAL_MENTION == 1
SUBSTANDARD     == 2
DOUBTFUL        == 3
LOSS            == 4
Grades          == PASS..LOSS

\* Moving into this set, or back out of it, takes two signatures.
NonPerforming == {SUBSTANDARD, DOUBTFUL, LOSS}

\* SEVERITY_RANK.
LOW        == 0
MEDIUM     == 1
HIGH       == 2
CRITICAL   == 3
Severities == LOW..CRITICAL

\* What a grade reports as its own severity before any fired signal is read.
GradeSeverity(g) ==
    CASE g = PASS            -> LOW
      [] g = SPECIAL_MENTION -> MEDIUM
      [] g = SUBSTANDARD     -> HIGH
      [] OTHER               -> CRITICAL

Families        == {"financial", "behavioural", "external", "process"}
BoundedFamilies == {"external", "process"}

Statuses == {"compliant", "at_risk", "breach", "waived",
             "stale", "not_evidenced", "not_due"}

\* The two statuses that emit no signal.
QuietStatuses == {"compliant", "not_due"}

Operators  == {"<=", "<", ">=", ">", "=="}
Relevances == {"confirmed", "unconfirmed", "dismissed"}
Movements  == {"affirm", "upgrade", "downgrade"}

\* FLOOR_RULE_IDS: every floor the engine can apply.
FloorRules == {"floor-covenant-breach", "floor-covenant-breach-repeat",
               "floor-arrears-sicr", "floor-arrears-default",
               "floor-arrears-severe", "floor-restructured"}

ArrearsTiers == {"sicr", "default", "severe"}
ClockTiers   == {"overdue", "absent"}

\* Dates are day numbers; an optional date that is absent is NoDate.
NoDate        == -1
OptionalDates == Nat \cup {NoDate}

AtLeast(a, b) == IF a > b THEN a ELSE b
AtMost(a, b)  == IF a < b THEN a ELSE b
==============================================================================
