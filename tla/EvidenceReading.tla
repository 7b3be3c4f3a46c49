--------------------------- MODULE EvidenceReading ---------------------------
(***************************************************************************)
(* ObligorMonitoring with a review as the sequence of reads it is: the     *)
(* registry, the covenant terms, their certificates, the arrears, the      *)
(* metrics and the media, one call after another, with no snapshot across  *)
(* them.  The systems of record go on changing in between, and a proposal  *)
(* of an earlier review may be adopted.  The managed adapters answer an    *)
(* HTTP error the way they do: some reads raise, others come back empty.   *)
(***************************************************************************)
EXTENDS ObligorRatchet

CONSTANT Erring  \* feeds that may answer with an HTTP error other than 403, 404

ASSUME ErringAssumption ==
    Erring \subseteq {"registry", "terms", "certificates", "media"}

VARIABLES
    stage,   \* the next read, "idle" between reviews
    asked,   \* the period the caller named
    period,  \* the period under review, once resolved
    copy,    \* what the review has read so far
    stood    \* history: the facts on file ever since the review began

reading     == <<stage, asked, period, copy>>
readingVars == <<vars, reading, stood>>

UnderWay == stage # "idle"

\* What _record_from_json makes of an empty body; nothing else read yet.
Blank ==
    [grade |-> PASS, clean |-> 0, lastReview |-> NoDate, located |-> TRUE,
     terms |-> {}, certificates |-> << >>,
     arrears |-> [known |-> FALSE, days |-> 0, pastDue |-> 0, drawn |-> 0,
                  located |-> FALSE],
     window |-> {}, news |-> {}]

------------------------------------------------------------------------------
(* The facts an assessment must not miss.                                  *)

Facts ==
    [breaches     |-> UNION {OpenBreaches(t.period) : t \in file.terms},
     days         |-> MaterialDays,
     restructured |-> Restructured(file.window),
     unserviced   |-> ~file.arrears.known,
     quiet        |-> TRUE]

NothingStands ==
    [breaches |-> {}, days |-> 0, restructured |-> FALSE, unserviced |-> FALSE,
     quiet |-> FALSE]

\* What is left of them when the file moves on.
Outlast(old, now) ==
    [breaches     |-> old.breaches \cap now.breaches,
     days         |-> AtMost(old.days, now.days),
     restructured |-> old.restructured /\ now.restructured,
     unserviced   |-> old.unserviced /\ now.unserviced,
     quiet        |-> FALSE]

\* The systems of record and the officers, between two reads as at any time; a
\* review begins and ends on one day.
Meanwhile ==
    /\ Environment \/ Adopt \/ Confirm
    /\ UnderWay => today' = today
    /\ stood' = IF UnderWay /\ file' # file THEN Outlast(stood, Facts') ELSE stood
    /\ UNCHANGED reading

------------------------------------------------------------------------------
(* The reads, in the order the service makes them.                         *)

Goto(s) == stage' = s

\* An erring registry answers an empty body, and that is read as a record.
ReadRegistry(n) ==
    /\ stage = "idle"
    /\ \/ copy' = [Blank EXCEPT !.grade = file.grade, !.clean = file.clean,
                                !.lastReview = file.lastReview,
                                !.located = file.located]
       \/ "registry" \in Erring /\ copy' = Blank
    /\ asked' = n /\ period' = n
    /\ stood' = Facts
    /\ Goto("terms")
    /\ UNCHANGED vars

\* Mutant: every term on the feed is tested, whatever its period.
ReadEveryTerm ==
    /\ stage = "terms"
    /\ period' = PeriodOf(asked, file.terms)
    /\ copy' = [copy EXCEPT !.terms = file.terms]
    /\ Goto("certificates")
    /\ UNCHANGED <<vars, asked, stood>>

\* Terms, and with them the period under review; an erring feed has none.
ReadTerms ==
    /\ stage = "terms"
    /\ \E available \in {file.terms} \cup {{} : f \in Erring \cap {"terms"}} :
          /\ period' = PeriodOf(asked, available)
          /\ copy' = [copy EXCEPT !.terms =
                         {t \in available : t.period = period'}]
    /\ Goto("certificates")
    /\ UNCHANGED <<vars, asked, stood>>

\* Mutant: only the rows of the period that is the latest by now come back.
ReadLatestCertificates ==
    /\ stage = "certificates"
    /\ copy' = [copy EXCEPT !.certificates =
                   IF Resolved(asked) = period THEN file.certificates ELSE << >>]
    /\ Goto("arrears")
    /\ UNCHANGED <<vars, asked, period, stood>>

\* The certificates of the period the terms resolved, if they resolved one.  A
\* row of another period, which the feed filters out, matches no term read.
ReadCertificates ==
    /\ stage = "certificates"
    /\ \/ /\ period # NoPeriod
          /\ copy' = [copy EXCEPT !.certificates = file.certificates]
       \/ /\ period = NoPeriod \/ "certificates" \in Erring
          /\ UNCHANGED copy
    /\ Goto("arrears")
    /\ UNCHANGED <<vars, asked, period, stood>>

ReadArrears ==
    /\ stage = "arrears"
    /\ copy' = [copy EXCEPT !.arrears = file.arrears]
    /\ Goto("window")
    /\ UNCHANGED <<vars, asked, period, stood>>

\* Mutant: the grade of record is read again with the metrics.
ReadWindowAndGrade ==
    /\ stage = "window"
    /\ copy' = [copy EXCEPT !.window = file.window, !.grade = file.grade]
    /\ Goto("media")
    /\ UNCHANGED <<vars, asked, period, stood>>

ReadWindow ==
    /\ stage = "window"
    /\ copy' = [copy EXCEPT !.window = file.window]
    /\ Goto("media")
    /\ UNCHANGED <<vars, asked, period, stood>>

ReadMedia ==
    /\ stage = "media"
    /\ \/ copy' = [copy EXCEPT !.news = NewsOn(today)]
       \/ "media" \in Erring /\ UNCHANGED copy
    /\ Goto("evaluate")
    /\ UNCHANGED <<vars, asked, period, stood>>

\* The review is over, and what it held is forgotten.
Forget ==
    /\ Goto("idle")
    /\ asked' = NoPeriod /\ period' = NoPeriod /\ copy' = Blank
    /\ stood' = NothingStands

\* A read raised (the feed is down, unconfigured, or answered 403), or the
\* registry does not know the obligor: the caller gets an error, nothing else.
ReadFails ==
    /\ UnderWay /\ stage # "evaluate"
    /\ Forget
    /\ UNCHANGED vars

Conclude ==
    /\ stage = "evaluate"
    /\ last' = OutcomeOn(copy, period)
    /\ Forget
    /\ UNCHANGED <<today, file, peak>>

------------------------------------------------------------------------------
ReadingInit ==
    /\ Init
    /\ stage = "idle" /\ asked = NoPeriod /\ period = NoPeriod /\ copy = Blank
    /\ stood = NothingStands

ReadStep ==
    \/ \E n \in TestPeriods : ReadRegistry(n)
    \/ ReadTerms \/ ReadCertificates \/ ReadArrears \/ ReadWindow \/ ReadMedia
    \/ ReadFails

ReadingNext == Meanwhile \/ ReadStep \/ Conclude

ReadingSpec == ReadingInit /\ [][ReadingNext]_readingVars

------------------------------------------------------------------------------
(* Properties.                                                             *)

\* A review comes to an assessment.
Concluded == stage = "evaluate" /\ stage' = "idle" /\ last'.outcome = "assessed"

\* A fact that was on file from the first read to the last one binds the
\* proposal and brings an officer in, whatever else changed between the reads
\* and whichever of the six reads could have seen it.
StandingFactsBind ==
    [][Concluded =>
         LET breaches == {t \in stood.breaches : t.period = last'.period}
         IN  /\ breaches # {} => Binds("floor-covenant-breach")
             /\ (\E s, t \in breaches : s.id # t.id)
                   => Binds("floor-covenant-breach-repeat")
             /\ (\E t \in breaches : t.consecutive >= 2)
                   => Binds("floor-covenant-breach-repeat")
             /\ stood.days >= Policy.sicr    => Binds("floor-arrears-sicr")
             /\ stood.days >= Policy.default => Binds("floor-arrears-default")
             /\ stood.days >= Policy.severe  => Binds("floor-arrears-severe")
             /\ stood.restructured           => Binds("floor-restructured")
             /\ breaches # {} \/ stood.days >= Policy.sicr \/ stood.unserviced
                   => last'.assessment.decision = "escalated"]_readingVars

\* A review during which nothing changed answers what a review made in one step
\* answers, the period it resolved and echoed included.
QuietReviewIsAtomic ==
    [][stage = "evaluate" /\ stage' = "idle" /\ stood.quiet
         => last' = Outcome(Resolved(asked))]_readingVars

\* The grade of record and its clean count come from one read, so a grade that
\* moves while a review is under way never lets that review's proposal climb on
\* a history that was counted for another grade.
MovesStayEarned == Ratchet!MovesAreEarned

\* ports/covenant_terms.py: "An EMPTY tuple from a managed adapter is never an
\* error answer", for it would "produce a confident affirm on a borrower nobody
\* tested"; ports/grade_registry.py: "never a default pass record: inventing a
\* grade of record ... would let the engine compute a movement against a fiction".
\* So when nothing changes under it, a review cannot both miss a standing breach
\* and move from a grade the registry does not hold.
AnErrorIsNotAnAnswer ==
    [][Concluded /\ stood.quiet /\ (\E t \in stood.breaches : t.period = Resolved(asked))
         => \/ Binds("floor-covenant-breach")
            \/ Proposed.current = file.grade]_readingVars
==============================================================================
