---------------------------- MODULE ObligorRatchet ---------------------------
(***************************************************************************)
(* ObligorMonitoring implements GradeRatchet: read the registry's grade    *)
(* and clean count straight off the file, and the last assessment's        *)
(* proposal as the standing offer.                                         *)
(***************************************************************************)
EXTENDS ObligorMonitoring

StandingOffer ==
    IF IsAssessed THEN [from |-> last.assessment.proposal.current,
                        to   |-> last.assessment.proposal.proposed]
                  ELSE [from |-> -1, to |-> -1]

Ratchet == INSTANCE GradeRatchet WITH grade    <- file.grade,
                                      clean    <- file.clean,
                                      offer    <- StandingOffer,
                                      MinClean <- Policy.cleanPeriods,
                                      Notches  <- Policy.notches

\* The detailed system keeps every promise of the ratchet, whatever evidence
\* comes in between a review and the adoption of what it proposed.
RatchetSpec == Ratchet!Spec

------------------------------------------------------------------------------
(* The way off the watchlist.  Reviews recur, officers close what is routed *)
(* to them and the registry counts clean periods: the bank's process, not   *)
(* this code, so the fairness below is an assumption on that process.       *)

\* Weak fairness of the review that names no period, without the ENABLED: it is
\* possible exactly while the last one does not describe the file, and leaves
\* one that does.
ReviewsRecur == []<>(last = Outcome(Resolved(NoPeriod)))

FairSpec == /\ Spec
            /\ ReviewsRecur
            /\ WF_vars(Adopt)
            /\ WF_vars(Confirm)
            /\ WF_vars(CountClean)

\* The evidence has nothing left to say against the obligor, the date of its
\* last review apart: that one closes when an officer closes a review.
NothingAgainst ==
    LET evidence == EvidenceFor(Resolved(NoPeriod))
        proposal == ProposalOf(evidence, Policy, today)
    IN  /\ proposal.band = PASS /\ proposal.floors = {}
        /\ ~ActiveAt(HIGH, {s \in SignalsOf(evidence, Policy, today) :
                               s.rule # "ews-review"})
        /\ CompleteOf(evidence, Policy, today) >= Policy.upgradeComplete

\* Exit from the watchlist exists: an obligor whose file stays clean, and whose
\* count of clean periods is not restarted, climbs back to pass and stays there,
\* from any grade, loss included, though each climb is one capped notch.
WatchlistHasAnExit ==
    <>[]NothingAgainst /\ <>[][~RestartCount]_vars => <>[](file.grade = PASS)
==============================================================================
