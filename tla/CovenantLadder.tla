---------------------------- MODULE CovenantLadder ---------------------------
(***************************************************************************)
(* Steps S2 and S3 of the engine: one status per covenant term, on the     *)
(* observation the feed returned for it (EarlyWarningEngine._covenant_tests*)
(* and _one_covenant_test).                                                *)
(*                                                                         *)
(* A term is [id, period, periodEnd, due, op, threshold, headroom, waiver, *)
(* expiry, consecutive, located]; an observation is [id, period, usable,   *)
(* value, received].  "usable" is observed_value being present, "located"  *)
(* is the term carrying a citation that is not the policy row, headroom is *)
(* the per-term override in basis points, or NoOverride.                   *)
(***************************************************************************)
EXTENDS WatchTaxonomy, Sequences

NoOverride == -1

Magnitude(n) == IF n < 0 THEN -n ELSE n

\* The only place a covenant value is compared with its threshold.  The
\* equality tolerance only absorbs float noise, of which integers have none.
Passes(v, t, op) ==
    CASE op = "<=" -> v <= t
      [] op = "<"  -> v < t
      [] op = ">=" -> v >= t
      [] op = ">"  -> v > t
      [] op = "==" -> v = t

WithinHeadroom(v, t, band) == Magnitude(v - t) * 10000 <= Magnitude(t) * band

\* The observation a term is tested on: rows are indexed by covenant and
\* period, and a later row of the feed replaces an earlier one.
RowsFor(term, observations) ==
    {i \in DOMAIN observations : /\ observations[i].id = term.id
                                 /\ observations[i].period = term.period}

\* Mutant: the first row of the feed wins.
SelectedFirst(term, observations) ==
    observations[CHOOSE i \in RowsFor(term, observations) :
                    \A j \in RowsFor(term, observations) : i <= j]

Selected(term, observations) ==
    observations[CHOOSE i \in RowsFor(term, observations) :
                    \A j \in RowsFor(term, observations) : j <= i]

\* COV-1: the period is still open, or the certificate grace still runs.
NotYetDue(term, p, asOf) ==
    \/ term.periodEnd # NoDate /\ term.periodEnd > asOf
    \/ term.due # NoDate /\ asOf - term.due < p.grace

\* COV-3: the date the reporting lag is counted from, and whether it ran out.
LagFrom(term, obs) == IF obs.received # NoDate THEN obs.received
                                               ELSE term.periodEnd

Stale(term, obs, p, asOf) ==
    LagFrom(term, obs) # NoDate /\ asOf - LagFrom(term, obs) > p.lag

\* Mutant: a waiver never expires.
WaiverForever(term, asOf) == term.waiver

WaiverLive(term, asOf) ==
    term.waiver /\ term.expiry # NoDate /\ term.expiry >= asOf

HeadroomBand(term, p) == IF term.headroom # NoOverride THEN term.headroom
                                                       ELSE p.headroom

\* The status of a term with a usable observation, first match winning.
TestedStatus(term, obs, p, asOf) ==
    IF Stale(term, obs, p, asOf) THEN "stale"
    ELSE IF ~Passes(obs.value, term.threshold, term.op)
         THEN IF WaiverLive(term, asOf) THEN "waived" ELSE "breach"
    ELSE IF WithinHeadroom(obs.value, term.threshold, HeadroomBand(term, p))
         THEN "at_risk"
    ELSE "compliant"

StatusOf(term, observations, p, asOf) ==
    IF \/ RowsFor(term, observations) = {}
       \/ ~Selected(term, observations).usable
    THEN IF NotYetDue(term, p, asOf) THEN "not_due" ELSE "not_evidenced"
    ELSE TestedStatus(term, Selected(term, observations), p, asOf)

\* A lapsed waiver leaves a breach a reader can tell from one never waived.
Lapsed(term) == term.waiver /\ term.expiry # NoDate

RuleOf(term, status) ==
    CASE status = "breach" /\ Lapsed(term) -> "covenant-breach-waiver-expired"
      [] status = "breach" /\ ~Lapsed(term) -> "covenant-breach"
      [] status = "waived"                  -> "covenant-breach-waived"
      [] OTHER                              -> status

CovenantTest(term, observations, p, asOf) ==
    LET status == StatusOf(term, observations, p, asOf)
    IN  [id          |-> term.id,
         status      |-> status,
         rule        |-> RuleOf(term, status),
         waivedUntil |-> IF status = "waived" THEN term.expiry ELSE NoDate,
         located     |-> term.located,
         weight      |-> p.covenant[status].weight,
         severity    |-> p.covenant[status].severity,
         family      |-> p.covenant[status].family]

CovenantTests(terms, observations, p, asOf) ==
    {CovenantTest(t, observations, p, asOf) : t \in terms}
==============================================================================
