----------------------------- MODULE GradeRatchet ----------------------------
(***************************************************************************)
(* What the watchlist promises about one obligor's grade of record, with   *)
(* the evidence abstracted away.  A review makes an offer on the grade it  *)
(* read; only an adopted offer moves the grade, perhaps much later.  Going *)
(* down is immediate and uncapped, short of loss; coming back up takes a   *)
(* clean history counted since the last move, and a capped climb.          *)
(***************************************************************************)
EXTENDS WatchTaxonomy, TLAPS

CONSTANTS
    MinClean,  \* clean periods an upgrade needs (upgrade_min_clean_periods)
    Notches    \* rungs one upgrade may climb (max_upgrade_notches)

VARIABLES
    grade,  \* the grade of record
    clean,  \* the registry's count of clean periods
    offer,  \* the standing offer, [from, to], or NoOffer
    peak    \* the highest that count has been since the grade last moved

vars == <<grade, clean, offer, peak>>

NoOffer == [from |-> -1, to |-> -1]
Offers  == [from : Grades, to : Grades]

\* The offers a review may make on the grade of record.
MayOffer(o) ==
    /\ o.from = grade
    /\ o.to > grade => o.to <= DOUBTFUL
    /\ o.to < grade => clean >= MinClean /\ grade - o.to <= Notches

\* A review makes an offer, or makes none because the file was not grounded.
Review ==
    /\ \/ offer' = NoOffer
       \/ offer' \in Offers /\ MayOffer(offer')
    /\ UNCHANGED <<grade, clean, peak>>

Adopt ==
    /\ offer \in Offers
    /\ offer.from = grade /\ offer.to # grade
    /\ grade' = offer.to
    /\ clean' = 0
    /\ peak' = 0
    /\ UNCHANGED offer

\* The registry counts one more clean period, or starts over.
Count ==
    /\ clean' = clean + 1
    /\ peak' = AtLeast(peak, clean')
    /\ UNCHANGED <<grade, offer>>

Restart ==
    /\ clean' = 0
    /\ UNCHANGED <<grade, offer, peak>>

Init ==
    /\ grade \in Grades
    /\ clean \in Nat
    /\ offer = NoOffer
    /\ peak = clean

Next == Review \/ Adopt \/ Count \/ Restart

Spec == Init /\ [][Next]_vars

------------------------------------------------------------------------------
\* The ratchet's shape.
TypeOK ==
    /\ grade \in Grades
    /\ clean \in Nat
    /\ offer \in Offers \cup {NoOffer}
    /\ peak \in Nat

\* An offer that could still be adopted keeps to the ladder, and one that would
\* climb it rests on a clean history served since the last move, however long
\* ago the review was and whatever the registry's count says by now.
StandingOfferIsEarned ==
    offer \in Offers /\ offer.from = grade =>
        /\ offer.to > grade => offer.to <= DOUBTFUL
        /\ offer.to < grade => peak >= MinClean /\ grade - offer.to <= Notches

\* The grade of record falls no further than doubtful, and climbs only within
\* the notch cap and on a clean history of its own: no two climbs share one.
MovesAreEarned ==
    [][/\ grade' > grade => grade' <= DOUBTFUL
       /\ grade' < grade => peak >= MinClean /\ grade - grade' <= Notches]_grade

\* The strengthening: the count has not passed its high-water mark.
IInv ==
    /\ TypeOK
    /\ StandingOfferIsEarned
    /\ clean <= peak
------------------------------------------------------------------------------
(* The promises hold of every policy whose two numbers are integers.       *)

LEMMA InitIInv == Init => IInv
BY DEF Init, IInv, TypeOK, StandingOfferIsEarned, Offers, NoOffer, Grades, PASS, LOSS

\* A standing offer survives every step: a review replaces it by a fresh one,
\* an adoption moves the grade off it, and the count never unearns anything.
LEMMA NextIInv ==
    ASSUME MinClean \in Int, Notches \in Int, IInv, [Next]_vars
    PROVE  IInv'
<1> USE DEF IInv, TypeOK, StandingOfferIsEarned, Offers, NoOffer, Grades, PASS, LOSS
<1>1. CASE Review
  BY <1>1 DEF Review, MayOffer
<1>2. CASE Adopt
  BY <1>2 DEF Adopt
<1>3. CASE Count
  BY <1>3 DEF Count, AtLeast
<1>4. CASE Restart
  BY <1>4 DEF Restart
<1>5. CASE UNCHANGED vars
  BY <1>5 DEF vars
<1>6. QED
  BY <1>1, <1>2, <1>3, <1>4, <1>5 DEF Next

\* The step that moves the grade is an adoption, so the move is as earned as
\* the standing offer was.
LEMMA StepIsEarned ==
    ASSUME IInv, [Next]_vars, grade' # grade
    PROVE  /\ grade' > grade => grade' <= DOUBTFUL
           /\ grade' < grade => peak >= MinClean /\ grade - grade' <= Notches
<1>1. Adopt
  BY DEF Next, vars, Review, Count, Restart
<1>2. QED
  BY <1>1 DEF Adopt, IInv, StandingOfferIsEarned

\* Of every policy: each move of the grade of record is an earned one.
THEOREM MovesEarned ==
    ASSUME MinClean \in Int, Notches \in Int
    PROVE  Spec => MovesAreEarned
<1>1. IInv /\ [Next]_vars => IInv'
  BY NextIInv
<1>2. IInv /\ [Next]_vars =>
        [/\ grade' > grade => grade' <= DOUBTFUL
         /\ grade' < grade => peak >= MinClean /\ grade - grade' <= Notches]_grade
  BY StepIsEarned
<1>3. QED
  BY <1>1, <1>2, InitIInv, PTL DEF Spec, MovesAreEarned
==============================================================================
