----------------------------- MODULE EngineProofs ----------------------------
(***************************************************************************)
(* What the engine's operators return, for every policy that loads and     *)
(* every file of evidence.                                                 *)
(***************************************************************************)
EXTENDS EarlyWarningEngine, SequenceTheorems, TLAPS

\* A non-empty set of grades has a worst member, which Max returns.
LEMMA WorstGrade ==
    ASSUME NEW S, S \subseteq Grades, S # {}
    PROVE  Max(S) \in S /\ \A g \in S : g <= Max(S)
<1>1. \E x \in S : \A y \in S : x >= y
  <2>1. CASE 4 \in S
    BY <2>1 DEF Grades, PASS, LOSS
  <2>2. CASE 4 \notin S /\ 3 \in S
    BY <2>2 DEF Grades, PASS, LOSS
  <2>3. CASE 4 \notin S /\ 3 \notin S /\ 2 \in S
    BY <2>3 DEF Grades, PASS, LOSS
  <2>4. CASE 4 \notin S /\ 3 \notin S /\ 2 \notin S /\ 1 \in S
    BY <2>4 DEF Grades, PASS, LOSS
  <2>5. CASE 4 \notin S /\ 3 \notin S /\ 2 \notin S /\ 1 \notin S
    <3>1. \A y \in S : y = 0
      BY <2>5 DEF Grades, PASS, LOSS
    <3>2. PICK x \in S : TRUE
      OBVIOUS
    <3>3. QED
      BY <3>1, <3>2
  <2>6. QED
    BY <2>1, <2>2, <2>3, <2>4, <2>5
<1>2. \A x \in S : x \in Int
  BY DEF Grades, PASS, LOSS
<1>3. QED
  BY <1>1, <1>2 DEF Max

Ladders == Seq([min : Int, grade : Grades])

LEMMA LadderRungs ==
    ASSUME NEW bands \in Ladders
    PROVE  /\ Len(bands) \in Nat
           /\ DOMAIN bands = 1..Len(bands)
           /\ \A i \in 1..Len(bands) : bands[i].min \in Int /\ bands[i].grade \in 0..4
<1>1. bands \in [1..Len(bands) -> [min : Int, grade : Grades]] /\ Len(bands) \in Nat
  BY LenProperties DEF Ladders
<1>2. \A i \in 1..Len(bands) : bands[i] \in [min : Int, grade : Grades]
  BY <1>1
<1>3. QED
  BY <1>1, <1>2 DEF Grades, PASS, LOSS

\* A ladder that climbs strictly in grade has at most one rung per grade.
LEMMA LadderIsShort ==
    ASSUME NEW bands \in Ladders, LadderOk(bands)
    PROVE  Len(bands) \in 1..5
<1>1. Len(bands) \in Nat /\ Len(bands) # 0
  BY LadderRungs DEF LadderOk, Ladders
<1>2. \A i \in 1..Len(bands) : bands[i].grade \in 0..4
  BY LadderRungs
<1>3. \A i \in 1..(Len(bands) - 1) : bands[i].grade < bands[i + 1].grade
  BY DEF LadderOk
<1>4. ASSUME Len(bands) >= 6 PROVE FALSE
  <2>1. /\ bands[1].grade < bands[2].grade /\ bands[2].grade < bands[3].grade
        /\ bands[3].grade < bands[4].grade /\ bands[4].grade < bands[5].grade
        /\ bands[5].grade < bands[6].grade
    BY <1>1, <1>3, <1>4
  <2>2. \A i \in 1..6 : bands[i].grade \in 0..4
    BY <1>1, <1>2, <1>4
  <2>3. QED
    BY <2>1, <2>2
<1>5. Len(bands) <= 5
  BY <1>1, <1>4
<1>6. \A n \in Nat : n # 0 /\ n <= 5 => n \in 1..5
  OBVIOUS
<1>7. QED
  BY <1>1, <1>5, <1>6

\* Whatever the score, the band is the grade of the highest rung it reaches.
LEMMA RungReached ==
    ASSUME NEW bands \in Ladders, LadderOk(bands), NEW composite,
           Rungs(composite, bands) # {}
    PROVE  Max(Rungs(composite, bands)) \in Rungs(composite, bands)
<1> DEFINE R == Rungs(composite, bands)
<1>1. R \subseteq 1..5
  <2>1. Len(bands) \in 1..5 /\ DOMAIN bands = 1..Len(bands)
    BY LadderIsShort, LadderRungs
  <2>2. QED
    BY <2>1 DEF Rungs
<1>2. \E x \in R : \A y \in R : x >= y
  <2>1. CASE 5 \in R
    BY <1>1, <2>1
  <2>2. CASE 5 \notin R /\ 4 \in R
    BY <1>1, <2>2
  <2>3. CASE 5 \notin R /\ 4 \notin R /\ 3 \in R
    BY <1>1, <2>3
  <2>4. CASE 5 \notin R /\ 4 \notin R /\ 3 \notin R /\ 2 \in R
    BY <1>1, <2>4
  <2>5. CASE 5 \notin R /\ 4 \notin R /\ 3 \notin R /\ 2 \notin R
    BY <1>1, <2>5
  <2>6. QED
    BY <2>1, <2>2, <2>3, <2>4, <2>5
<1>3. QED
  BY <1>2 DEF Max

LEMMA BandIsAGrade ==
    ASSUME NEW bands \in Ladders, LadderOk(bands), NEW composite
    PROVE  Band(composite, bands) \in Grades
<1>1. Len(bands) \in 1..5
  BY LadderIsShort
<1>2. DOMAIN bands = 1..Len(bands) /\ \A i \in 1..Len(bands) : bands[i].grade \in Grades
  BY LadderRungs DEF Grades, PASS, LOSS
<1>3. CASE Rungs(composite, bands) = {}
  BY <1>1, <1>2, <1>3 DEF Band
<1>4. CASE Rungs(composite, bands) # {}
  <2>1. Max(Rungs(composite, bands)) \in DOMAIN bands
    BY <1>4, RungReached DEF Rungs
  <2>2. QED
    BY <1>2, <1>4, <2>1 DEF Band
<1>5. QED
  BY <1>3, <1>4

------------------------------------------------------------------------------
(* Floors, ceiling and movement.                                           *)

\* Flooring keeps to the ladder and clears every floor that applies.
LEMMA FlooringBinds ==
    ASSUME NEW p, IsPolicy(p), Covers(p),
           NEW band \in Grades, NEW floors, floors \subseteq FloorRules
    PROVE  /\ Floored(band, floors, p) \in Grades
           /\ Floored(band, floors, p) >= band
           /\ \A r \in floors : /\ p.floors[r] \in Grades
                                /\ Floored(band, floors, p) >= p.floors[r]
<1> DEFINE S == {band} \cup {p.floors[r] : r \in floors}
<1>1. \A r \in floors : p.floors[r] \in Grades
  BY DEF IsPolicy, Covers
<1>2. S \subseteq Grades /\ S # {}
  BY <1>1
<1>3. Max(S) \in S /\ \A g \in S : g <= Max(S)
  BY <1>2, WorstGrade
<1>4. Floored(band, floors, p) = Max(S)
  BY DEF Floored
<1>5. \A g \in Grades : g \in Int
  BY DEF Grades, PASS, LOSS
<1> HIDE DEF S
<1>6. Max(S) \in Grades /\ band \in S /\ \A r \in floors : p.floors[r] \in S
  BY <1>2, <1>3 DEF S
<1>7. QED
  BY <1>1, <1>3, <1>4, <1>5, <1>6

\* The move rule alone: down at once, up by a capped climb or not at all.
LEMMA RankBounds ==
    ASSUME NEW current \in 0..4, NEW supported \in 0..4, NEW withheld,
           NEW p, NEW n \in Int, n >= 1, p.notches = n,
           NEW r, r = ProposedRank(current, supported, withheld, p)
    PROVE  /\ r \in 0..4 /\ r >= supported
           /\ r > current => r = supported
           /\ r < current => supported < current
           /\ r < current => withheld = "none"
           /\ r < current => current - r <= n
<1>1. CASE supported >= current
  <2>1. r = supported
    BY <1>1 DEF ProposedRank
  <2>2. QED
    BY <1>1, <2>1
<1>2. CASE ~(supported >= current) /\ withheld # "none"
  <2>1. r = current
    BY <1>2 DEF ProposedRank
  <2>2. QED
    BY <1>2, <2>1
<1>3. CASE ~(supported >= current) /\ withheld = "none" /\ supported > current - n
  <2>1. r = supported
    BY <1>3 DEF ProposedRank, AtLeast
  <2>2. QED
    BY <1>3, <2>1
<1>4. CASE ~(supported >= current) /\ withheld = "none" /\ ~(supported > current - n)
  <2>1. r = current - n
    BY <1>4 DEF ProposedRank, AtLeast
  <2>2. QED
    BY <1>4, <2>1
<1>5. QED
  BY <1>1, <1>2, <1>3, <1>4

LEMMA MovementIsNamed ==
    ASSUME NEW current \in 0..4, NEW proposed \in 0..4
    PROVE  /\ MovementOf(current, proposed) \in Movements
           /\ MovementOf(current, proposed) = "affirm" => proposed = current
<1>1. CASE proposed > current
  BY <1>1 DEF MovementOf, Movements
<1>2. CASE proposed < current
  BY <1>2 DEF MovementOf, Movements
<1>3. CASE proposed = current
  BY <1>3 DEF MovementOf, Movements
<1>4. QED
  BY <1>1, <1>2, <1>3

\* Everything a review may rely on about a proposal, whatever was fired.
LEMMA ProposalBounds ==
    ASSUME NEW p, IsPolicy(p), ValidPolicy(p),
           NEW f, f.grade \in Grades,
           NEW signals, NEW tests, NEW complete, NEW composite,
           NEW floors, floors \subseteq FloorRules,
           NEW q, q = Proposal(f, signals, tests, complete, p, composite, floors)
    PROVE  /\ q.current = f.grade /\ q.floors = floors
           /\ q.band = Band(composite, p.bands) /\ q.band \in Grades
           /\ q.proposed \in Grades
           /\ q.ceiling \in BOOLEAN /\ q.withheld \in WithheldReasons
           /\ q.movement \in Movements
           /\ \A r \in floors : q.proposed >= AtMost(p.floors[r], DOUBTFUL)
           /\ q.proposed >= AtMost(q.band, DOUBTFUL)
           /\ q.proposed > f.grade => q.proposed <= DOUBTFUL
           /\ q.proposed < f.grade =>
                 /\ f.grade - q.proposed <= p.notches
                 /\ Withheld(f, signals, tests, complete, p) = "none"
           /\ q.movement = "affirm" => q.proposed = f.grade
<1> DEFINE band      == Band(composite, p.bands)
           evidence  == Floored(band, floors, p)
           supported == UnderCeiling(evidence)
           withheld  == IF supported < f.grade
                        THEN Withheld(f, signals, tests, complete, p) ELSE "none"
           proposed  == ProposedRank(f.grade, supported, withheld, p)
<1>1. q = [current  |-> f.grade, band |-> band, floors |-> floors,
           ceiling  |-> evidence >= LOSS, withheld |-> withheld,
           proposed |-> proposed, movement |-> MovementOf(f.grade, proposed)]
  BY DEF Proposal
<1>2. band \in Grades
  BY BandIsAGrade DEF IsPolicy, ValidPolicy, Ladders
<1>3. /\ evidence \in Grades /\ evidence >= band
      /\ \A r \in floors : p.floors[r] \in Grades /\ evidence >= p.floors[r]
  BY <1>2, FlooringBinds DEF ValidPolicy
<1>4. withheld \in WithheldReasons
  BY DEF Withheld, WithheldReasons
<1>5. p.notches \in Int /\ p.notches >= 1
  BY DEF IsPolicy, ValidPolicy, UpgradeOk
<1> HIDE DEF band, evidence
<1>6. /\ supported \in 0..4 /\ supported <= DOUBTFUL
      /\ supported >= AtMost(band, DOUBTFUL)
      /\ \A r \in floors : supported >= AtMost(p.floors[r], DOUBTFUL)
  BY <1>2, <1>3 DEF UnderCeiling, AtMost, Grades, PASS, LOSS, DOUBTFUL
<1>7. supported < f.grade /\ withheld = "none" =>
        Withheld(f, signals, tests, complete, p) = "none"
  OBVIOUS
<1> HIDE DEF supported, withheld
<1>8. f.grade \in 0..4
  BY DEF Grades, PASS, LOSS
<1>9. /\ proposed \in 0..4 /\ proposed >= supported
      /\ proposed > f.grade => proposed = supported
      /\ proposed < f.grade => /\ supported < f.grade /\ withheld = "none"
                              /\ f.grade - proposed <= p.notches
  <2>1. PICK n \in Int : n >= 1 /\ p.notches = n
    BY <1>5
  <2>2. QED
    BY <1>6, <1>8, <2>1, RankBounds
<1> HIDE DEF proposed
<1>10. /\ MovementOf(f.grade, proposed) \in Movements
       /\ MovementOf(f.grade, proposed) = "affirm" => proposed = f.grade
  BY <1>8, <1>9, MovementIsNamed
<1>11. \A a, b \in Int : AtMost(a, b) \in Int
  BY DEF AtMost
<1>12. /\ proposed >= AtMost(band, DOUBTFUL)
       /\ \A r \in floors : proposed >= AtMost(p.floors[r], DOUBTFUL)
  <2>1. band \in Int /\ DOUBTFUL \in Int /\ \A r \in floors : p.floors[r] \in Int
    BY <1>2, <1>3 DEF Grades, PASS, LOSS, DOUBTFUL
  <2>2. \A a, b, c \in Int : a >= b /\ b >= c => a >= c
    OBVIOUS
  <2>3. proposed \in Int /\ supported \in Int
    BY <1>6, <1>9
  <2>4. QED
    BY <1>6, <1>9, <1>11, <2>1, <2>2, <2>3
<1>13. /\ q.current = f.grade /\ q.floors = floors /\ q.band = band
       /\ q.ceiling \in BOOLEAN /\ q.withheld = withheld
       /\ q.proposed = proposed /\ q.movement = MovementOf(f.grade, proposed)
  BY <1>1
<1>14. proposed > f.grade => proposed <= DOUBTFUL
  BY <1>6, <1>9
<1>15. proposed < f.grade =>
         /\ f.grade - proposed <= p.notches
         /\ Withheld(f, signals, tests, complete, p) = "none"
  BY <1>7, <1>9
<1>16. q.band = Band(composite, p.bands) /\ q.proposed \in Grades
  BY <1>9, <1>13 DEF band, Grades, PASS, LOSS
<1>17. QED
  BY <1>2, <1>4, <1>10, <1>12, <1>13, <1>14, <1>15, <1>16

------------------------------------------------------------------------------
(* A bounded family on its own.                                            *)

\* The caps keep the composite of one bounded family at or under its cap.
LEMMA CapHolds ==
    ASSUME NEW p, IsPolicy(p), ValidPolicy(p),
           NEW raw \in [Families -> Int], NEW f \in BoundedFamilies,
           \A g \in Families : g # f => raw[g] <= 0
    PROVE  Composite(raw, p) \in Int /\ Composite(raw, p) <= p.caps[f]
<1>1. \A g \in Families : p.caps[g] \in Int /\ p.caps[g] >= 0 /\ raw[g] \in Int
  BY DEF IsPolicy, ValidPolicy, Covers, CapsOk
<1>2. \A g \in Families : /\ AtMost(raw[g], p.caps[g]) \in Int
                          /\ AtMost(raw[g], p.caps[g]) <= p.caps[g]
                          /\ raw[g] <= 0 => AtMost(raw[g], p.caps[g]) <= 0
  BY <1>1 DEF AtMost
<1>3. f \in {"external", "process"}
  BY DEF BoundedFamilies
<1> DEFINE a == AtMost(raw["financial"], p.caps["financial"])
           b == AtMost(raw["behavioural"], p.caps["behavioural"])
           c == AtMost(raw["external"], p.caps["external"])
           d == AtMost(raw["process"], p.caps["process"])
<1>4. a \in Int /\ b \in Int /\ c \in Int /\ d \in Int
  BY <1>2 DEF Families
<1>5. Composite(raw, p) = AtMost(100, a + b + c + d)
  BY DEF Composite
<1>6. a <= 0 /\ b <= 0 /\ ((f = "external" /\ c <= p.caps[f] /\ d <= 0)
                         \/ (f = "process" /\ c <= 0 /\ d <= p.caps[f]))
  BY <1>2, <1>3 DEF Families
<1> HIDE DEF a, b, c, d
<1>7. p.caps[f] \in Int
  BY <1>1, <1>3 DEF Families
<1>8. a + b + c + d \in Int /\ a + b + c + d <= p.caps[f]
  BY <1>4, <1>6, <1>7
<1>9. QED
  BY <1>5, <1>7, <1>8 DEF AtMost

\* Neither adverse media nor the bank's own file classifies on its own, under
\* any policy that loads, however many of their rules fire at any weight.
THEOREM BoundedFamilyStaysAtPass ==
    ASSUME NEW p, IsPolicy(p), ValidPolicy(p),
           NEW raw \in [Families -> Int], NEW f \in BoundedFamilies,
           \A g \in Families : g # f => raw[g] <= 0
    PROVE  Band(Composite(raw, p), p.bands) = PASS
<1> DEFINE score == Composite(raw, p)
<1>1. p.bands \in Ladders /\ LadderOk(p.bands)
  BY DEF IsPolicy, ValidPolicy, Ladders
<1>2. p.caps[f] \in Int /\ p.caps[f] >= 0 /\ StaysBelowAdverse(p.caps[f], p.bands)
  BY DEF IsPolicy, ValidPolicy, Covers, CapsOk, BoundedFamilies, Families
<1>3. score \in Int /\ score <= p.caps[f]
  BY CapHolds
<1> HIDE DEF score
<1>4. \A i \in 1..Len(p.bands) : score >= p.bands[i].min => p.bands[i].grade = PASS
  <2> SUFFICES ASSUME NEW i \in 1..Len(p.bands), score >= p.bands[i].min,
                      p.bands[i].grade # PASS
               PROVE  FALSE
    OBVIOUS
  <2>1. p.bands[i].min \in AdverseScores(p.bands)
    BY DEF AdverseScores
  <2>2. p.caps[f] < p.bands[i].min
    BY <1>2, <2>1 DEF StaysBelowAdverse
  <2>3. p.bands[i].min \in Int
    BY <1>1, LadderRungs
  <2>4. QED
    BY <1>2, <1>3, <2>2, <2>3
<1>5. CASE Rungs(score, p.bands) = {}
  BY <1>1, <1>5 DEF Band, LadderOk, score
<1>6. CASE Rungs(score, p.bands) # {}
  <2>1. Max(Rungs(score, p.bands)) \in Rungs(score, p.bands)
    BY <1>1, <1>6, RungReached
  <2>2. DOMAIN p.bands = 1..Len(p.bands)
    BY <1>1, LadderRungs
  <2>3. p.bands[Max(Rungs(score, p.bands))].grade = PASS
    BY <1>4, <2>1, <2>2 DEF Rungs
  <2>4. QED
    BY <1>6, <2>3 DEF Band, score
<1>7. QED
  BY <1>5, <1>6

------------------------------------------------------------------------------
(* Evidence that must not be lost on the way to a floor.                   *)

\* A covenant is tested on the newest row of its period.
LEMMA NewestRowIsSelected ==
    ASSUME NEW t, NEW observations, NEW i \in RowsFor(t, observations),
           \A j \in RowsFor(t, observations) : j <= i,
           \A j \in RowsFor(t, observations) : j \in Int
    PROVE  Selected(t, observations) = observations[i]
<1> DEFINE newest(k) == /\ k \in RowsFor(t, observations)
                        /\ \A j \in RowsFor(t, observations) : j <= k
<1>1. \A k \in RowsFor(t, observations) : newest(k) => k = i
  OBVIOUS
<1>2. QED
  BY <1>1 DEF Selected

\* A fresh failing figure that no live waiver covers is a breach.
LEMMA BreachIsNamed ==
    ASSUME NEW t, NEW observations, NEW p, NEW asOf \in Int,
           NEW i \in RowsFor(t, observations),
           \A j \in RowsFor(t, observations) : j \in Int /\ j <= i,
           observations[i].usable = TRUE,
           ~Passes(observations[i].value, t.threshold, t.op),
           observations[i].received # NoDate,
           observations[i].received \in Int, p.lag \in Int,
           asOf - observations[i].received <= p.lag,
           ~WaiverLive(t, asOf)
    PROVE  StatusOf(t, observations, p, asOf) = "breach"
<1>1. Selected(t, observations) = observations[i]
  BY NewestRowIsSelected
<1>2. ~Stale(t, observations[i], p, asOf)
  BY DEF Stale, LagFrom
<1>3. TestedStatus(t, observations[i], p, asOf) = "breach"
  BY <1>2 DEF TestedStatus
<1>4. QED
  BY <1>1, <1>3 DEF StatusOf

\* A past-due amount over its share of the drawn balance clears that leg.
LEMMA RelativeLegClears ==
    ASSUME NEW a, a.pastDue \in Nat, a.drawn \in Nat, NEW p, p.relative \in Int,
           a.pastDue * 10000 > a.drawn * p.relative
    PROVE  a.pastDue >= RelativeLimit(a, p)
<1>1. \A x \in Int, y \in Nat : y * 10000 > x => y >= x \div 10000
  OBVIOUS
<1>2. a.drawn * p.relative \in Int
  OBVIOUS
<1>3. QED
  BY <1>1, <1>2 DEF RelativeLimit

\* Arrears past both materiality legs run the clock at its full count.
LEMMA MaterialClockRuns ==
    ASSUME NEW a, a.known = TRUE, NEW p, a.days \in Nat,
           a.pastDue >= p.absolute, a.pastDue >= RelativeLimit(a, p)
    PROVE  EffectiveDays(a, p) = a.days
<1>1. CASE a.days = 0
  BY <1>1 DEF EffectiveDays
<1>2. CASE a.days # 0
  BY <1>2 DEF EffectiveDays, Material, PastDue
<1>3. QED
  BY <1>1, <1>2

\* A clock that reached the first tier reaches some tier.
LEMMA TierIsReached ==
    ASSUME NEW p, ClocksOk(p), NEW days \in Int,
           p.sicr \in Int, p.default \in Int, p.severe \in Int, days >= p.sicr
    PROVE  ArrearsTier(days, p) \in ArrearsTiers
<1>1. CASE days >= p.severe
  BY <1>1 DEF ArrearsTier, ReachedTiers, ArrearsTiers
<1>2. CASE ~(days >= p.severe) /\ days >= p.default
  BY <1>2 DEF ArrearsTier, ReachedTiers, ArrearsTiers
<1>3. CASE ~(days >= p.severe) /\ ~(days >= p.default)
  BY <1>3 DEF ArrearsTier, ReachedTiers, ArrearsTiers
<1>4. QED
  BY <1>1, <1>2, <1>3
==============================================================================
