---------------------------- MODULE ReadingProofs ----------------------------
(***************************************************************************)
(* What a review keeps of the file when it is read call by call and the    *)
(* file moves between the calls.                                           *)
(***************************************************************************)
EXTENDS EvidenceReading, ObligorProofs

\* How far the reads have come.
HasWindow       == stage \in {"media", "evaluate"}
HasArrears      == HasWindow \/ stage = "window"
HasCertificates == HasArrears \/ stage = "arrears"
HasTerms        == HasCertificates \/ stage = "certificates"

\* What the review holds is shaped like a file.
ReadingTypeOK == TypeOK /\ copy \in FileType

------------------------------------------------------------------------------
(* Type correctness.                                                       *)

LEMMA BlankShape == Blank \in FileType
<1>1. << >> \in Seq(CertificateType)
  OBVIOUS
<1>2. Blank.arrears \in ArrearsType
  BY DEF Blank, ArrearsType
<1>3. QED
  BY <1>1, <1>2 DEF Blank, FileType, Grades, PASS, LOSS, OptionalDates, NoDate

\* Between two reads the file moves as it always did.
LEMMA MeanwhileIsNext == ASSUME Meanwhile PROVE Next
BY DEF Meanwhile, Next

LEMMA NextReadingTypeOK ==
    ASSUME ReadingTypeOK, [ReadingNext]_readingVars PROVE ReadingTypeOK'
<1> USE DEF ReadingTypeOK
<1>f. file \in FileType
  BY DEF TypeOK
<1>1. CASE Meanwhile
  <2>1. TypeOK'
    BY <1>1, EvidenceKeepsTypes, CloseKeepsTypes DEF Meanwhile
  <2>2. QED
    BY <1>1, <2>1 DEF Meanwhile, reading
<1>2. ASSUME UNCHANGED vars, copy' \in FileType PROVE ReadingTypeOK'
  BY <1>2 DEF TypeOK, vars
<1>3. ASSUME NEW n \in TestPeriods, ReadRegistry(n) PROVE ReadingTypeOK'
  <2>1. [Blank EXCEPT !.grade = file.grade, !.clean = file.clean,
                      !.lastReview = file.lastReview,
                      !.located = file.located] \in FileType
    BY <1>f, BlankShape DEF FileType
  <2>2. QED
    BY <1>2, <1>3, <2>1, BlankShape DEF ReadRegistry
<1>4. CASE ReadTerms
  <2>1. PICK available \in {file.terms} \cup {{} : x \in Erring \cap {"terms"}} :
           copy' = [copy EXCEPT !.terms = {t \in available : t.period = period'}]
    BY <1>4 DEF ReadTerms
  <2>2. {t \in available : t.period = period'} \in SUBSET TermType
    BY <1>f DEF FileType
  <2>3. copy' \in FileType
    BY <2>1, <2>2 DEF FileType
  <2>4. QED
    BY <1>2, <1>4, <2>3 DEF ReadTerms
<1>5. CASE ReadCertificates
  <2>1. [copy EXCEPT !.certificates = file.certificates] \in FileType
    BY <1>f DEF FileType
  <2>2. QED
    BY <1>2, <1>5, <2>1 DEF ReadCertificates
<1>6. CASE ReadArrears
  <2>1. [copy EXCEPT !.arrears = file.arrears] \in FileType
    BY <1>f DEF FileType
  <2>2. QED
    BY <1>2, <1>6, <2>1 DEF ReadArrears
<1>7. CASE ReadWindow
  <2>1. [copy EXCEPT !.window = file.window] \in FileType
    BY <1>f DEF FileType
  <2>2. QED
    BY <1>2, <1>7, <2>1 DEF ReadWindow
<1>8. CASE ReadMedia
  <2>1. [copy EXCEPT !.news = NewsOn(today)] \in FileType
    BY <1>f DEF FileType, NewsOn
  <2>2. QED
    BY <1>2, <1>8, <2>1 DEF ReadMedia
<1>9. CASE ReadFails
  BY <1>2, <1>9, BlankShape DEF ReadFails, Forget
<1>10. CASE Conclude
  <2>1. TypeOK'
    BY <1>10, OutcomeKeepsTypes DEF Conclude
  <2>2. QED
    BY <1>10, <2>1, BlankShape DEF Conclude, Forget
<1>11. CASE UNCHANGED readingVars
  BY <1>2, <1>11 DEF readingVars, reading
<1>12. QED
  BY <1>1, <1>3, <1>4, <1>5, <1>6, <1>7, <1>8, <1>9, <1>10, <1>11
     DEF ReadingNext, ReadStep

\* A review that is under way holds evidence of a file's shape.
THEOREM ReadingTypesHold == ReadingSpec => []ReadingTypeOK
<1>1. ReadingInit => ReadingTypeOK
  BY InitTypeOK, BlankShape DEF ReadingInit, ReadingTypeOK
<1>2. QED
  BY <1>1, NextReadingTypeOK, PTL DEF ReadingSpec

------------------------------------------------------------------------------
(* The ratchet survives a torn review.                                     *)

\* The count a review holds was served by the grade it holds, as far as that
\* can matter: it is no larger than the count has been since the grade moved;
\* or the grade has moved on, and the offer that moved it is spent, so nothing
\* can move it back before the review ends; or there is no count at all.
CountIsOfItsGrade ==
    UnderWay => \/ copy.clean = 0
                \/ copy.grade = file.grade /\ copy.clean <= peak
                \/ copy.grade # file.grade /\ StandingOffer.from # file.grade

RatchetIInv == Ratchet!IInv /\ CountIsOfItsGrade

\* Between two reads the ratchet's own steps are the only ones.
LEMMA MeanwhileKeepsTheRatchet ==
    ASSUME ReadingTypeOK, RatchetIInv, Meanwhile PROVE RatchetIInv'
<1>1. Ratchet!IInv'
  <2>1. Policy.cleanPeriods \in Int /\ Policy.notches \in Int
    BY PolicyNumbers
  <2>2. [Ratchet!Next]_(Ratchet!vars)
    BY MeanwhileIsNext, RatchetStep DEF ReadingTypeOK
  <2>3. QED
    BY <2>1, <2>2, Ratchet!NextIInv DEF RatchetIInv
<1>2. copy.clean \in Nat /\ peak \in Nat /\ UNCHANGED <<stage, copy>>
  BY DEF ReadingTypeOK, TypeOK, FileType, Meanwhile, reading
<1>3. CASE Adopt
  <2>1. /\ StandingOffer.from = file.grade /\ StandingOffer.to # file.grade
        /\ file'.grade = StandingOffer.to
    BY <1>3 DEF Adopt, StandingOffer, ReadingTypeOK, TypeOK, FileType
  <2>2. StandingOffer' = StandingOffer
    BY <1>3 DEF Adopt, StandingOffer, IsAssessed
  <2>3. QED
    BY <1>1, <1>2, <2>1, <2>2 DEF RatchetIInv, CountIsOfItsGrade, UnderWay
<1>4. CASE Environment \/ Confirm
  <2>1. file'.grade = file.grade /\ last' = last /\ (peak' = peak \/ CountClean)
    BY <1>4 DEF Environment, Certify, RollPeriod, Waive, Service, Publish, Spread,
       CountClean, RestartCount, Tick, Confirm, ReadingTypeOK, TypeOK, FileType
  <2>2. StandingOffer' = StandingOffer
    BY <2>1 DEF StandingOffer, IsAssessed
  <2>3. peak' \in Nat /\ peak' >= peak
    <3>1. CASE CountClean
      BY <1>2, <3>1 DEF CountClean, AtLeast, ReadingTypeOK, TypeOK, FileType
    <3>2. QED
      BY <1>2, <2>1, <3>1
  <2>4. QED
    BY <1>1, <1>2, <2>1, <2>2, <2>3 DEF RatchetIInv, CountIsOfItsGrade, UnderWay
<1>5. QED
  BY <1>3, <1>4 DEF Meanwhile

\* The proposal of a review, torn or not, is an offer the ratchet keeps.
LEMMA ConcludeKeepsTheRatchet ==
    ASSUME ReadingTypeOK, RatchetIInv, Conclude PROVE RatchetIInv'
<1> DEFINE q == ProposalOf(copy, Policy, today)
           o == [from |-> q.current, to |-> q.proposed]
<1>1. /\ last' = OutcomeOn(copy, period) /\ UNCHANGED <<today, file, peak>>
      /\ UnderWay /\ ~UnderWay'
  BY DEF Conclude, Forget, Goto, UnderWay
<1>2. StandingOffer' \in {Ratchet!NoOffer, o}
  <2>1. CASE last' = Ungrounded
    BY <2>1 DEF StandingOffer, IsAssessed, Ungrounded, Ratchet!NoOffer
  <2>2. CASE last' # Ungrounded
    BY <1>1, <2>2, OutcomeShape DEF StandingOffer, IsAssessed
  <2>3. QED
    BY <2>1, <2>2
<1>3. /\ q.current = copy.grade /\ q.current \in Grades /\ q.proposed \in Grades
      /\ q.proposed > copy.grade => q.proposed <= DOUBTFUL
      /\ q.proposed < copy.grade =>
            /\ copy.grade - q.proposed <= Policy.notches
            /\ ~(copy.clean < Policy.cleanPeriods)
  BY ReviewBounds DEF ProposalType, Withheld, ReadingTypeOK
<1>4. /\ copy.clean \in Nat /\ peak \in Nat /\ file.grade \in Grades
      /\ file.clean \in Nat /\ Policy.cleanPeriods \in Int /\ Policy.notches \in Int
  BY PolicyNumbers DEF ReadingTypeOK, TypeOK, FileType
<1>5. /\ file.clean <= peak
      /\ \/ copy.clean = 0
         \/ copy.grade = file.grade /\ copy.clean <= peak
         \/ copy.grade # file.grade
  BY <1>1 DEF RatchetIInv, Ratchet!IInv, CountIsOfItsGrade
<1> HIDE DEF q
<1>6. Ratchet!IInv'
  <2> USE DEF Ratchet!IInv, Ratchet!TypeOK, Ratchet!StandingOfferIsEarned,
              Ratchet!Offers, Ratchet!NoOffer, Ratchet!Grades, Ratchet!PASS,
              Ratchet!LOSS, Ratchet!DOUBTFUL, Grades, PASS, LOSS, DOUBTFUL
  <2>1. CASE StandingOffer' = Ratchet!NoOffer
    BY <1>1, <1>4, <1>5, <2>1
  <2>2. CASE StandingOffer' = o
    BY <1>1, <1>3, <1>4, <1>5, <2>2
  <2>3. QED
    BY <1>2, <2>1, <2>2
<1>7. QED
  BY <1>1, <1>6 DEF RatchetIInv, CountIsOfItsGrade

LEMMA NextRatchetIInv ==
    ASSUME ReadingTypeOK, RatchetIInv, [ReadingNext]_readingVars PROVE RatchetIInv'
<1>1. ASSUME UNCHANGED vars PROVE Ratchet!IInv' /\ StandingOffer' = StandingOffer
  <2>1. StandingOffer' = StandingOffer
    BY <1>1 DEF vars, StandingOffer, IsAssessed
  <2>2. QED
    BY <1>1, <2>1 DEF vars, RatchetIInv, Ratchet!IInv, Ratchet!TypeOK,
       Ratchet!StandingOfferIsEarned
<1>2. ASSUME NEW n \in TestPeriods, ReadRegistry(n) PROVE RatchetIInv'
  <2>1. \/ copy'.grade = file.grade /\ copy'.clean = file.clean
        \/ copy'.clean = 0
    <3>1. Blank \in FileType /\ Blank.clean = 0
      BY BlankShape DEF Blank
    <3>2. QED
      BY <1>2, <3>1 DEF ReadRegistry, FileType
  <2>2. file.clean <= peak /\ UNCHANGED vars
    BY <1>2 DEF RatchetIInv, Ratchet!IInv, ReadRegistry
  <2>3. QED
    BY <1>1, <2>1, <2>2 DEF RatchetIInv, CountIsOfItsGrade, vars
<1>3. ASSUME UNCHANGED vars, UnderWay, copy'.grade = copy.grade, copy'.clean = copy.clean
      PROVE  RatchetIInv'
  BY <1>1, <1>3 DEF RatchetIInv, CountIsOfItsGrade, vars
<1>4. CASE ReadTerms \/ ReadCertificates \/ ReadArrears \/ ReadWindow \/ ReadMedia
  BY <1>3, <1>4 DEF ReadTerms, ReadCertificates, ReadArrears, ReadWindow, ReadMedia,
     UnderWay, ReadingTypeOK, FileType
<1>5. CASE ReadFails
  BY <1>1, <1>5 DEF ReadFails, Forget, Goto, RatchetIInv, CountIsOfItsGrade, UnderWay
<1>6. CASE UNCHANGED readingVars
  BY <1>1, <1>6 DEF readingVars, reading, vars, RatchetIInv, CountIsOfItsGrade, UnderWay
<1>7. QED
  BY <1>2, <1>4, <1>5, <1>6, MeanwhileKeepsTheRatchet, ConcludeKeepsTheRatchet
     DEF ReadingNext, ReadStep

\* However a review is torn by the changes between its reads, and whichever
\* feeds err, the grade of record only ever climbs on a history of its own.
THEOREM TornReviewsStayEarned == ReadingSpec => MovesStayEarned
<1>1. ReadingInit => RatchetIInv
  <2>1. Ratchet!Init => Ratchet!IInv
    BY Ratchet!InitIInv
  <2>2. QED
    BY <2>1, RatchetInit DEF ReadingInit, RatchetIInv, CountIsOfItsGrade, UnderWay
<1>2. ReadingTypeOK /\ RatchetIInv /\ [ReadingNext]_readingVars =>
        [/\ file.grade' > file.grade => file.grade' <= Ratchet!DOUBTFUL
         /\ file.grade' < file.grade => /\ peak >= Policy.cleanPeriods
                                        /\ file.grade - file.grade' <= Policy.notches]_(file.grade)
  <2> SUFFICES ASSUME ReadingTypeOK, RatchetIInv, [ReadingNext]_readingVars,
                      file.grade' # file.grade
               PROVE  /\ file.grade' > file.grade => file.grade' <= Ratchet!DOUBTFUL
                      /\ file.grade' < file.grade =>
                            /\ peak >= Policy.cleanPeriods
                            /\ file.grade - file.grade' <= Policy.notches
    OBVIOUS
  <2>1. Meanwhile
    BY DEF ReadingNext, ReadStep, readingVars, vars, ReadRegistry, ReadTerms,
       ReadCertificates, ReadArrears, ReadWindow, ReadMedia, ReadFails, Conclude
  <2>2. [Ratchet!Next]_(Ratchet!vars)
    BY <2>1, MeanwhileIsNext, RatchetStep DEF ReadingTypeOK
  <2>3. QED
    BY <2>2, Ratchet!StepIsEarned DEF RatchetIInv
<1>3. QED
  BY <1>1, <1>2, NextRatchetIInv, ReadingTypesHold, PTL
     DEF ReadingSpec, MovesStayEarned, Ratchet!MovesAreEarned

------------------------------------------------------------------------------
(* Nothing that stood throughout is missed.                                *)

\* Facts that are on file.
OnFile(facts) ==
    /\ \A t \in facts.breaches :
          t \in file.terms /\ t.period # NoPeriod /\ OpenBreach(t)
    /\ facts.days \in Nat /\ facts.days <= MaterialDays
    /\ facts.restructured => Restructured(file.window)
    /\ facts.unserviced => ~file.arrears.known

\* Every read that is done has the facts that have stood since.
StoodIsHeld ==
    /\ HasTerms => \A t \in stood.breaches : t.period = period => t \in copy.terms
    /\ HasCertificates =>
          \A t \in stood.breaches :
             t.period = period => OpenBreachIn(copy.certificates, t)
    /\ HasArrears =>
          /\ stood.days <= MaterialDaysOf(copy.arrears)
          /\ stood.unserviced => ~copy.arrears.known
    /\ HasWindow => (stood.restructured => Restructured(copy.window))

StoodIInv == UnderWay => OnFile(stood) /\ StoodIsHeld

\* Nothing the review holds has changed since it was read.
QuietIInv ==
    UnderWay /\ stood.quiet =>
       /\ copy.grade = file.grade /\ copy.clean = file.clean
       /\ copy.lastReview = file.lastReview /\ copy.located = file.located
       /\ ~HasTerms => period = asked
       /\ HasTerms => /\ period = Resolved(asked)
                      /\ copy.terms = {t \in file.terms : t.period = period}
       /\ HasCertificates /\ period # NoPeriod => copy.certificates = file.certificates
       /\ ~HasCertificates \/ period = NoPeriod => copy.certificates = << >>
       /\ HasArrears => copy.arrears = file.arrears
       /\ HasWindow => copy.window = file.window
       /\ stage = "evaluate" => copy.news = NewsOn(today)

LEMMA FactsAreOnFile == ReadingTypeOK => OnFile(Facts)
<1> SUFFICES ASSUME ReadingTypeOK PROVE OnFile(Facts)
  OBVIOUS
<1>1. MaterialDays \in Nat
  BY ClockRuns DEF MaterialDays, ReadingTypeOK, TypeOK, FileType
<1> DEFINE facts == Facts
<1>2. \A t \in facts.breaches : t \in file.terms /\ t.period # NoPeriod /\ OpenBreach(t)
  BY DEF Facts, OpenBreaches
<1>3. facts.restructured => Restructured(file.window)
  BY DEF Facts
<1>4. facts.unserviced => ~file.arrears.known
  BY DEF Facts
<1>5. facts.days = MaterialDays
  BY DEF Facts
<1> HIDE DEF facts
<1>6. facts.days \in Nat /\ facts.days <= MaterialDays
  BY <1>1, <1>5
<1>7. OnFile(facts)
  BY <1>2, <1>3, <1>4, <1>6 DEF OnFile
<1>8. QED
  BY <1>7 DEF facts

\* Between two reads the facts that stand only dwindle.
LEMMA MeanwhileKeepsStood ==
    ASSUME ReadingTypeOK', StoodIInv, Meanwhile, UnderWay
    PROVE  StoodIInv'
<1> DEFINE now == Facts'
<1>1. /\ UNCHANGED <<stage, asked, period, copy, today>>
      /\ stood' = IF file' # file THEN Outlast(stood, now) ELSE stood
      /\ OnFile(stood) /\ StoodIsHeld
  BY DEF Meanwhile, reading, UnderWay, StoodIInv
<1>2. OnFile(Facts)'
  BY FactsAreOnFile, PTL
<1> HIDE DEF now
<1>3. CASE file' = file
  <2>1. OnFile(stood)'
    BY <1>1, <1>3 DEF OnFile, OpenBreach, OpenBreachIn, IsNewestRow, MaterialDays,
       MaterialDaysOf, Restructured
  <2>2. StoodIsHeld'
    BY <1>1, <1>3 DEF StoodIsHeld, HasTerms, HasCertificates, HasArrears, HasWindow,
       OpenBreachIn, IsNewestRow
  <2>3. QED
    BY <2>1, <2>2 DEF StoodIInv
<1>4. CASE file' # file
  <2>1. /\ stood'.breaches = stood.breaches \cap now.breaches
        /\ stood'.days = AtMost(stood.days, now.days)
        /\ stood'.restructured => stood.restructured /\ now.restructured
        /\ stood'.unserviced => stood.unserviced /\ now.unserviced
    BY <1>1, <1>4 DEF Outlast
  <2>2. /\ stood.days \in Nat /\ now.days \in Nat /\ now.days <= MaterialDays'
    BY <1>1, <1>2 DEF OnFile, now
  <2>3. MaterialDays' \in Nat
    <3>1. file'.arrears \in ArrearsType
      BY DEF ReadingTypeOK, TypeOK, FileType
    <3>2. QED
      BY <3>1, ClockRuns DEF MaterialDays
  <2>4. stood'.days \in Nat /\ stood'.days <= stood.days /\ stood'.days <= MaterialDays'
    BY <2>1, <2>2, <2>3 DEF AtMost
  <2>5. OnFile(stood)'
    BY <1>2, <2>1, <2>4 DEF OnFile, now
  <2>6. StoodIsHeld'
    <3>1. MaterialDaysOf(copy.arrears) \in Nat
      BY <1>1, ClockRuns DEF ReadingTypeOK, FileType
    <3>2. MaterialDaysOf(copy'.arrears) = MaterialDaysOf(copy.arrears)
      BY <1>1
    <3>3. HasArrears => stood'.days <= MaterialDaysOf(copy.arrears)
      BY <1>1, <2>2, <2>4, <3>1 DEF StoodIsHeld
    <3>4. HasTerms' = HasTerms /\ HasCertificates' = HasCertificates
          /\ HasArrears' = HasArrears /\ HasWindow' = HasWindow
      BY <1>1 DEF HasTerms, HasCertificates, HasArrears, HasWindow
    <3>5. \A t : OpenBreachIn(copy.certificates, t)' = OpenBreachIn(copy.certificates, t)
      BY <1>1 DEF OpenBreachIn, IsNewestRow
    <3>6. QED
      BY <1>1, <2>1, <3>2, <3>3, <3>4, <3>5 DEF StoodIsHeld
  <2>7. QED
    BY <2>5, <2>6 DEF StoodIInv
<1>5. QED
  BY <1>3, <1>4

\* A read takes in what stands, unless its feed answers an error.
LEMMA ReadKeepsStood ==
    ASSUME ReadingTypeOK, StoodIInv, ReadStep,
           Erring \cap {"terms", "certificates"} = {}
    PROVE  StoodIInv'
<1> USE DEF Goto, UnderWay
<1>1. ASSUME UNCHANGED <<vars, stood>>, OnFile(stood) PROVE OnFile(stood)'
  BY <1>1 DEF vars, OnFile, OpenBreach, OpenBreachIn, IsNewestRow, MaterialDays,
     MaterialDaysOf, Restructured
<1>3. ASSUME NEW n \in TestPeriods, ReadRegistry(n) PROVE StoodIInv'
  <2> DEFINE facts == Facts
  <2>1. OnFile(facts) /\ stood' = facts /\ UNCHANGED vars /\ stage' = "terms"
    BY FactsAreOnFile, <1>3 DEF ReadRegistry
  <2> HIDE DEF facts
  <2>2. OnFile(stood)'
    BY <2>1 DEF vars, OnFile, OpenBreach, OpenBreachIn, IsNewestRow, MaterialDays,
       MaterialDaysOf, Restructured
  <2>3. QED
    BY <2>1, <2>2 DEF StoodIInv, StoodIsHeld, HasTerms, HasCertificates, HasArrears,
       HasWindow
<1>4. CASE ReadTerms
  <2>1. /\ period' = PeriodOf(asked, file.terms)
        /\ copy' = [copy EXCEPT !.terms = {t \in file.terms : t.period = period'}]
    BY <1>4 DEF ReadTerms
  <2>2. copy'.terms = {t \in file.terms : t.period = period'}
    BY <2>1 DEF ReadingTypeOK, FileType
  <2>3. OnFile(stood) /\ OnFile(stood)' /\ stood' = stood
    BY <1>1, <1>4 DEF ReadTerms, StoodIInv
  <2>4. QED
    BY <1>4, <2>2, <2>3 DEF ReadTerms, StoodIInv, StoodIsHeld, OnFile, HasTerms,
       HasCertificates, HasArrears, HasWindow
<1>5. CASE ReadCertificates
  <2>1. OnFile(stood) /\ OnFile(stood)' /\ UNCHANGED <<today, file, stood, period>>
    BY <1>1, <1>5 DEF ReadCertificates, StoodIInv, vars
  <2>2. copy'.terms = copy.terms /\ (period # NoPeriod => copy'.certificates = file.certificates)
    BY <1>5 DEF ReadCertificates, ReadingTypeOK, FileType
  <2>3. \A t \in stood.breaches : t.period = period => OpenBreachIn(copy.certificates, t)'
    BY <2>1, <2>2 DEF OnFile, OpenBreach, OpenBreachIn, IsNewestRow
  <2>4. QED
    BY <1>5, <2>1, <2>2, <2>3 DEF ReadCertificates, StoodIInv, StoodIsHeld, HasTerms,
       HasCertificates, HasArrears, HasWindow
<1>6. CASE ReadArrears
  <2>1. OnFile(stood) /\ OnFile(stood)' /\ UNCHANGED <<today, file, stood, period>>
    BY <1>1, <1>6 DEF ReadArrears, StoodIInv, vars
  <2>2. /\ copy'.terms = copy.terms /\ copy'.certificates = copy.certificates
        /\ copy'.arrears = file.arrears
    BY <1>6 DEF ReadArrears, ReadingTypeOK, FileType
  <2>3. \A t : OpenBreachIn(copy.certificates, t)' = OpenBreachIn(copy.certificates, t)
    BY <2>1, <2>2 DEF OpenBreachIn, IsNewestRow
  <2>4. /\ stood'.days <= MaterialDaysOf(copy'.arrears)
        /\ stood'.unserviced => ~copy'.arrears.known
    BY <2>1, <2>2 DEF OnFile, MaterialDays
  <2>5. QED
    BY <1>6, <2>1, <2>2, <2>3, <2>4 DEF ReadArrears, StoodIInv, StoodIsHeld, HasTerms,
       HasCertificates, HasArrears, HasWindow
<1>7. CASE ReadWindow
  <2>1. OnFile(stood) /\ OnFile(stood)' /\ UNCHANGED <<today, file, stood, period>>
    BY <1>1, <1>7 DEF ReadWindow, StoodIInv, vars
  <2>2. /\ copy'.terms = copy.terms /\ copy'.certificates = copy.certificates
        /\ copy'.arrears = copy.arrears /\ copy'.window = file.window
    BY <1>7 DEF ReadWindow, ReadingTypeOK, FileType
  <2>3. \A t : OpenBreachIn(copy.certificates, t)' = OpenBreachIn(copy.certificates, t)
    BY <2>1, <2>2 DEF OpenBreachIn, IsNewestRow
  <2>4. stood'.restructured => Restructured(copy'.window)
    BY <2>1, <2>2 DEF OnFile
  <2>5. QED
    BY <1>7, <2>1, <2>2, <2>3, <2>4 DEF ReadWindow, StoodIInv, StoodIsHeld, HasTerms,
       HasCertificates, HasArrears, HasWindow
<1>8. CASE ReadMedia
  <2>1. OnFile(stood) /\ OnFile(stood)' /\ UNCHANGED <<today, file, stood, period>>
    BY <1>1, <1>8 DEF ReadMedia, StoodIInv, vars
  <2>2. /\ copy'.terms = copy.terms /\ copy'.certificates = copy.certificates
        /\ copy'.arrears = copy.arrears /\ copy'.window = copy.window
    BY <1>8 DEF ReadMedia, ReadingTypeOK, FileType
  <2>3. \A t : OpenBreachIn(copy.certificates, t)' = OpenBreachIn(copy.certificates, t)
    BY <2>1, <2>2 DEF OpenBreachIn, IsNewestRow
  <2>4. QED
    BY <1>8, <2>1, <2>2, <2>3 DEF ReadMedia, StoodIInv, StoodIsHeld, HasTerms,
       HasCertificates, HasArrears, HasWindow
<1>9. CASE ReadFails
  BY <1>9 DEF ReadFails, Forget, StoodIInv
<1>10. QED
  BY <1>3, <1>4, <1>5, <1>6, <1>7, <1>8, <1>9 DEF ReadStep

LEMMA NextStoodIInv ==
    ASSUME ReadingTypeOK, ReadingTypeOK', StoodIInv, [ReadingNext]_readingVars,
           Erring \cap {"terms", "certificates"} = {}
    PROVE  StoodIInv'
<1>1. CASE Meanwhile /\ ~UnderWay
  BY <1>1 DEF Meanwhile, reading, UnderWay, StoodIInv
<1>2. CASE Conclude
  BY <1>2 DEF Conclude, Forget, Goto, UnderWay, StoodIInv
<1>3. CASE UNCHANGED readingVars
  BY <1>3 DEF readingVars, reading, vars, UnderWay, StoodIInv, OnFile, OpenBreach,
     OpenBreachIn, IsNewestRow, MaterialDays, MaterialDaysOf, Restructured, StoodIsHeld,
     HasTerms, HasCertificates, HasArrears, HasWindow
<1>4. QED
  BY <1>1, <1>2, <1>3, MeanwhileKeepsStood, ReadKeepsStood DEF ReadingNext

\* The proposal that concludes a review binds every fact that stood.
LEMMA ConcludeBinds ==
    ASSUME ReadingTypeOK, StoodIInv, Conclude, last'.outcome = "assessed",
           Policy.floors["floor-arrears-sicr"] >= SPECIAL_MENTION
    PROVE  LET breaches == {t \in stood.breaches : t.period = last'.period}
           IN  /\ breaches # {} => Binds("floor-covenant-breach")
               /\ (\E s, t \in breaches : s.id # t.id)
                     => Binds("floor-covenant-breach-repeat")
               /\ (\E t \in breaches : t.consecutive >= 2)
                     => Binds("floor-covenant-breach-repeat")
               /\ stood.days >= Policy.sicr    => Binds("floor-arrears-sicr")
               /\ stood.days >= Policy.default => Binds("floor-arrears-default")
               /\ stood.days >= Policy.severe  => Binds("floor-arrears-severe")
               /\ stood.restructured           => Binds("floor-restructured")
               /\ breaches # {} \/ stood.days >= Policy.sicr \/ stood.unserviced
                     => last'.assessment.decision = "escalated"
<1> DEFINE breaches == {t \in stood.breaches : t.period = last'.period}
           clock    == MaterialDaysOf(copy.arrears)
           q        == ProposalOf(copy, Policy, today)
           reasons  == ReasonsOf(copy, Policy, today)
           floors   == FloorsOf(copy, Policy, today)
<1>1. OnFile(stood) /\ StoodIsHeld /\ HasTerms /\ HasCertificates /\ HasArrears /\ HasWindow
  BY DEF StoodIInv, UnderWay, Conclude, HasTerms, HasCertificates, HasArrears, HasWindow
<1>2. TypeOK /\ copy \in FileType
  BY DEF ReadingTypeOK
<1>3. /\ last'.period = Echoed(copy, period)
      /\ Proposed = q
      /\ last'.assessment.decision = IF reasons # {} THEN "escalated" ELSE "allowed"
  <2>1. last' = OutcomeOn(copy, period) /\ last' # Ungrounded
    BY DEF Conclude, Ungrounded
  <2>2. QED
    BY <2>1, OutcomeShape DEF Proposed
<1>4. breaches \in SUBSET {t \in copy.terms : OpenBreachIn(copy.certificates, t)}
  <2>1. \A t \in breaches : t.period = period
    BY <1>1, <1>2, <1>3, EchoedShape DEF OnFile
  <2>2. QED
    BY <1>1, <2>1 DEF StoodIsHeld
<1>5. /\ stood.days \in Nat /\ clock \in Nat /\ stood.days <= clock
      /\ Policy.sicr \in Int /\ Policy.default \in Int /\ Policy.severe \in Int
  BY <1>1, <1>2, ClockRuns, PolicyNumbers DEF StoodIsHeld, OnFile, FileType
<1>6. /\ stood.days >= Policy.sicr    => clock >= Policy.sicr
      /\ stood.days >= Policy.default => clock >= Policy.default
      /\ stood.days >= Policy.severe  => clock >= Policy.severe
  <2> HIDE DEF clock
  <2>1. QED
    BY <1>5
<1>7. /\ stood.restructured => Restructured(copy.window)
      /\ stood.unserviced => ~copy.arrears.known
  BY <1>1 DEF StoodIsHeld
<1>8. \A r \in floors : Binds(r)
  BY <1>2, <1>3, ReviewBounds DEF Binds
<1> HIDE DEF breaches, clock, q, reasons, floors
<1>9. /\ breaches # {} => "floor-covenant-breach" \in floors
      /\ (\E s, t \in breaches : s.id # t.id) => "floor-covenant-breach-repeat" \in floors
      /\ (\E t \in breaches : t.consecutive >= 2)
            => "floor-covenant-breach-repeat" \in floors
      /\ clock >= Policy.sicr        => "floor-arrears-sicr" \in floors
      /\ clock >= Policy.default     => "floor-arrears-default" \in floors
      /\ clock >= Policy.severe      => "floor-arrears-severe" \in floors
      /\ Restructured(copy.window)   => "floor-restructured" \in floors
  BY <1>2, <1>4, FloorsReach DEF clock, floors
<1>10. breaches # {} => reasons # {}
  <2>1. breaches # {} => BreachedIds(TestsOf(copy, Policy, today)) # {}
    BY <1>2, <1>4, OpenBreachIsTested
  <2>2. QED
    BY <2>1 DEF reasons, ReasonsOf, ReviewReasons
<1>11. stood.days >= Policy.sicr => reasons # {}
  <2> SUFFICES ASSUME stood.days >= Policy.sicr PROVE reasons # {}
    OBVIOUS
  <2>1. Policy.floors["floor-arrears-sicr"] \in Grades
    BY PolicyNumbers DEF IsPolicy, ValidPolicy, Covers, FloorRules
  <2>2. Binds("floor-arrears-sicr") /\ q.proposed \in Grades
    BY <1>2, <1>6, <1>8, <1>9, ReviewBounds DEF q, ProposalType
  <2>3. q.proposed >= AtMost(Policy.floors["floor-arrears-sicr"], DOUBTFUL)
    BY <1>3, <2>2 DEF Binds
  <2>4. q.proposed >= SPECIAL_MENTION
    BY <2>1, <2>2, <2>3 DEF AtMost, Grades, PASS, SPECIAL_MENTION, DOUBTFUL, LOSS
  <2>5. QED
    BY <2>4 DEF reasons, q, ReasonsOf, ReviewReasons
<1>12. stood.unserviced => reasons # {}
  BY <1>7 DEF reasons, ReasonsOf, EvidenceReasons
<1>13. QED
  BY <1>3, <1>6, <1>7, <1>8, <1>9, <1>10, <1>11, <1>12 DEF breaches

\* A fact that was on file from the first read to the last one binds the
\* proposal and brings an officer in, whatever changed in between, if the
\* covenant reads raise when they fail and past-due days are priced adversely.
THEOREM StandingFactsAlwaysBind ==
    ASSUME Erring \cap {"terms", "certificates"} = {},
           Policy.floors["floor-arrears-sicr"] >= SPECIAL_MENTION
    PROVE  ReadingSpec => StandingFactsBind
<1> DEFINE A == Concluded =>
         LET breaches == {t \in stood.breaches : t.period = last'.period}
         IN  /\ breaches # {} => Binds("floor-covenant-breach")
             /\ (\E s, t \in breaches : s.id # t.id)
                   => Binds("floor-covenant-breach-repeat")
             /\ (\E t \in breaches : t.consecutive >= 2)
                   => Binds("floor-covenant-breach-repeat")
             /\ stood.days >= Policy.sicr    => Binds("floor-arrears-sicr")
             /\ stood.days >= Policy.default => Binds("floor-arrears-default")
             /\ stood.days >= Policy.severe  => Binds("floor-arrears-severe")
             /\ stood.restructured           => Binds("floor-restructured")
             /\ breaches # {} \/ stood.days >= Policy.sicr \/ stood.unserviced
                   => last'.assessment.decision = "escalated"
<1>1. ReadingInit => StoodIInv
  BY DEF ReadingInit, StoodIInv, UnderWay
<1>2. ReadingTypeOK /\ ReadingTypeOK' /\ StoodIInv /\ [ReadingNext]_readingVars => StoodIInv'
  BY NextStoodIInv
<1>3. ReadingTypeOK /\ StoodIInv /\ [ReadingNext]_readingVars => [A]_readingVars
  <2>1. ASSUME ReadingTypeOK, StoodIInv, ReadingNext, Concluded PROVE Conclude
    BY <2>1 DEF Concluded, ReadingNext, ReadStep, Meanwhile, reading, ReadRegistry,
       ReadTerms, ReadCertificates, ReadArrears, ReadWindow, ReadMedia, ReadFails
  <2>2. ASSUME ReadingTypeOK, StoodIInv, ReadingNext PROVE A
    BY <2>1, <2>2, ConcludeBinds DEF Concluded
  <2>3. QED
    BY <2>2
<1>4. QED
  BY <1>1, <1>2, <1>3, ReadingTypesHold, PTL DEF ReadingSpec, StandingFactsBind

------------------------------------------------------------------------------
(* An undisturbed review is atomic.                                        *)

\* A change of the file ends the quiet; the calendar waits for the review.
LEMMA MeanwhileKeepsQuiet ==
    ASSUME QuietIInv, Meanwhile PROVE QuietIInv'
<1>1. CASE UnderWay /\ file' # file
  BY <1>1 DEF Meanwhile, Outlast, QuietIInv
<1>2. CASE UnderWay /\ file' = file
  BY <1>2 DEF Meanwhile, reading, UnderWay, QuietIInv, Resolved, HasTerms,
     HasCertificates, HasArrears, HasWindow, NewsOn
<1>3. CASE ~UnderWay
  BY <1>3 DEF Meanwhile, reading, UnderWay, QuietIInv
<1>4. QED
  BY <1>1, <1>2, <1>3

LEMMA ReadKeepsQuiet ==
    ASSUME ReadingTypeOK, QuietIInv, ReadStep, Erring = {} PROVE QuietIInv'
<1> USE DEF Goto, UnderWay, HasTerms, HasCertificates, HasArrears, HasWindow
<1>f. copy \in FileType
  BY DEF ReadingTypeOK
<1>1. ASSUME NEW n \in TestPeriods, ReadRegistry(n) PROVE QuietIInv'
  <2>1. Blank \in FileType /\ Blank.certificates = << >>
    BY BlankShape DEF Blank
  <2>2. /\ copy'.grade = file.grade /\ copy'.clean = file.clean
        /\ copy'.lastReview = file.lastReview /\ copy'.located = file.located
        /\ copy'.certificates = << >>
    BY <1>1, <2>1 DEF ReadRegistry, FileType
  <2>3. QED
    BY <1>1, <2>2 DEF ReadRegistry, QuietIInv, vars
<1>2. CASE ReadTerms
  <2>1. /\ period' = PeriodOf(asked, file.terms) /\ UNCHANGED <<file, asked, stood>>
        /\ copy' = [copy EXCEPT !.terms = {t \in file.terms : t.period = period'}]
    BY <1>2 DEF ReadTerms, vars
  <2>2. /\ copy'.terms = {t \in file.terms : t.period = period'}
        /\ copy'.grade = copy.grade /\ copy'.clean = copy.clean
        /\ copy'.lastReview = copy.lastReview /\ copy'.located = copy.located
        /\ copy'.certificates = copy.certificates
    BY <1>f, <2>1 DEF FileType
  <2>3. QED
    BY <1>2, <2>1, <2>2 DEF ReadTerms, QuietIInv, Resolved, NewsOn
<1>3. CASE ReadCertificates
  <2>1. /\ copy'.terms = copy.terms
        /\ copy'.grade = copy.grade /\ copy'.clean = copy.clean
        /\ copy'.lastReview = copy.lastReview /\ copy'.located = copy.located
        /\ copy'.certificates = IF period # NoPeriod THEN file.certificates
                                                    ELSE copy.certificates
    BY <1>3, <1>f DEF ReadCertificates, FileType
  <2>2. QED
    BY <1>3, <2>1 DEF ReadCertificates, QuietIInv, Resolved, vars, NewsOn
<1>4. CASE ReadArrears
  <2>1. /\ copy'.terms = copy.terms /\ copy'.certificates = copy.certificates
        /\ copy'.grade = copy.grade /\ copy'.clean = copy.clean
        /\ copy'.lastReview = copy.lastReview /\ copy'.located = copy.located
        /\ copy'.arrears = file.arrears
    BY <1>4, <1>f DEF ReadArrears, FileType
  <2>2. QED
    BY <1>4, <2>1 DEF ReadArrears, QuietIInv, Resolved, vars, NewsOn
<1>5. CASE ReadWindow
  <2>1. /\ copy'.terms = copy.terms /\ copy'.certificates = copy.certificates
        /\ copy'.grade = copy.grade /\ copy'.clean = copy.clean
        /\ copy'.lastReview = copy.lastReview /\ copy'.located = copy.located
        /\ copy'.arrears = copy.arrears /\ copy'.window = file.window
    BY <1>5, <1>f DEF ReadWindow, FileType
  <2>2. QED
    BY <1>5, <2>1 DEF ReadWindow, QuietIInv, Resolved, vars, NewsOn
<1>6. CASE ReadMedia
  <2>1. /\ copy'.terms = copy.terms /\ copy'.certificates = copy.certificates
        /\ copy'.grade = copy.grade /\ copy'.clean = copy.clean
        /\ copy'.lastReview = copy.lastReview /\ copy'.located = copy.located
        /\ copy'.arrears = copy.arrears /\ copy'.window = copy.window
        /\ copy'.news = NewsOn(today)
    BY <1>6, <1>f DEF ReadMedia, FileType
  <2>2. QED
    BY <1>6, <2>1 DEF ReadMedia, QuietIInv, Resolved, vars, NewsOn
<1>7. CASE ReadFails
  BY <1>7 DEF ReadFails, Forget, QuietIInv
<1>8. QED
  BY <1>1, <1>2, <1>3, <1>4, <1>5, <1>6, <1>7 DEF ReadStep

\* With no feed erring, a review during which nothing changed answers what a
\* review made in one step answers.
THEOREM QuietReviewsAreAtomic ==
    ASSUME Erring = {} PROVE ReadingSpec => QuietReviewIsAtomic
<1>1. ReadingInit => QuietIInv
  BY DEF ReadingInit, QuietIInv, UnderWay
<1>2. ReadingTypeOK /\ QuietIInv /\ [ReadingNext]_readingVars => QuietIInv'
  <2>1. ASSUME QuietIInv, UNCHANGED readingVars PROVE QuietIInv'
    BY <2>1 DEF readingVars, reading, vars, QuietIInv, UnderWay, Resolved, HasTerms,
       HasCertificates, HasArrears, HasWindow, NewsOn
  <2>2. ASSUME Conclude PROVE QuietIInv'
    BY <2>2 DEF Conclude, Forget, Goto, QuietIInv, UnderWay
  <2>3. QED
    BY <2>1, <2>2, MeanwhileKeepsQuiet, ReadKeepsQuiet DEF ReadingNext
<1>3. ReadingTypeOK /\ QuietIInv /\ [ReadingNext]_readingVars =>
        [stage = "evaluate" /\ stage' = "idle" /\ stood.quiet
           => last' = Outcome(Resolved(asked))]_readingVars
  <2> SUFFICES ASSUME ReadingTypeOK, QuietIInv, ReadingNext,
                      stage = "evaluate", stage' = "idle", stood.quiet
               PROVE  last' = Outcome(Resolved(asked))
    OBVIOUS
  <2>1. last' = OutcomeOn(copy, period)
    BY DEF ReadingNext, ReadStep, Meanwhile, reading, ReadRegistry, ReadTerms, Goto,
       ReadCertificates, ReadArrears, ReadWindow, ReadMedia, ReadFails, Conclude
  <2> DEFINE f == EvidenceFor(period)
  <2>2. period = Resolved(asked) /\ copy \in FileType /\ file \in FileType
    BY DEF QuietIInv, UnderWay, HasTerms, HasCertificates, HasArrears, HasWindow,
       ReadingTypeOK, TypeOK
  <2>3. /\ copy.grade = f.grade /\ copy.clean = f.clean
        /\ copy.lastReview = f.lastReview /\ copy.located = f.located
        /\ copy.terms = f.terms /\ copy.certificates = f.certificates
        /\ copy.arrears = f.arrears /\ copy.window = f.window /\ copy.news = f.news
    BY <2>2 DEF QuietIInv, UnderWay, HasTerms, HasCertificates, HasArrears, HasWindow,
       EvidenceFor, EvidenceOn, FileType
  <2>4. f \in FileType
    BY EvidenceShape DEF ReadingTypeOK
  <2> HIDE DEF f
  <2>5. copy = f
    BY <2>2, <2>3, <2>4 DEF FileType
  <2>6. QED
    BY <2>1, <2>2, <2>5 DEF f, Outcome
<1>4. QED
  BY <1>1, <1>2, <1>3, ReadingTypesHold, PTL DEF ReadingSpec, QuietReviewIsAtomic
------------------------------------------------------------------------------
(* Two reads must go wrong before a review misleads.                       *)

\* What an undisturbed review holds of the registry's record.
GradeIInv == UnderWay /\ stood.quiet => copy.grade = file.grade

\* The period it works on is the one the caller asked for, resolved.
PeriodIInv ==
    UnderWay /\ stood.quiet => /\ ~HasTerms => period = asked
                               /\ HasTerms => period = Resolved(asked)

LEMMA NextGradeIInv ==
    ASSUME ReadingTypeOK, GradeIInv, [ReadingNext]_readingVars, "registry" \notin Erring
    PROVE  GradeIInv'
<1> USE DEF GradeIInv, UnderWay, Goto, vars
<1>f. copy \in FileType
  BY DEF ReadingTypeOK
<1>1. CASE Meanwhile
  <2>1. CASE UnderWay /\ file' # file
    BY <1>1, <2>1 DEF Meanwhile, Outlast
  <2>2. CASE UnderWay /\ file' = file
    BY <1>1, <2>2 DEF Meanwhile, reading
  <2>3. CASE ~UnderWay
    BY <1>1, <2>3 DEF Meanwhile, reading
  <2>4. QED
    BY <2>1, <2>2, <2>3
<1>2. ASSUME NEW n \in TestPeriods, ReadRegistry(n) PROVE GradeIInv'
  BY <1>2, BlankShape DEF ReadRegistry, FileType, Blank
<1>3. CASE ReadTerms \/ ReadCertificates \/ ReadArrears \/ ReadWindow \/ ReadMedia
  BY <1>3, <1>f DEF ReadTerms, ReadCertificates, ReadArrears, ReadWindow, ReadMedia,
     FileType
<1>4. CASE ReadFails \/ Conclude
  BY <1>4 DEF ReadFails, Conclude, Forget
<1>5. CASE UNCHANGED readingVars
  BY <1>5 DEF readingVars, reading
<1>6. QED
  BY <1>1, <1>2, <1>3, <1>4, <1>5 DEF ReadingNext, ReadStep

LEMMA NextPeriodIInv ==
    ASSUME PeriodIInv, [ReadingNext]_readingVars,
           Erring \cap {"terms", "certificates"} = {}
    PROVE  PeriodIInv'
<1> USE DEF PeriodIInv, UnderWay, HasTerms, HasCertificates, HasArrears, HasWindow,
            Resolved, Goto, vars
<1>1. CASE Meanwhile
  <2>1. CASE UnderWay /\ file' # file
    BY <1>1, <2>1 DEF Meanwhile, Outlast
  <2>2. CASE UnderWay /\ file' = file
    BY <1>1, <2>2 DEF Meanwhile, reading
  <2>3. CASE ~UnderWay
    BY <1>1, <2>3 DEF Meanwhile, reading
  <2>4. QED
    BY <2>1, <2>2, <2>3
<1>2. ASSUME NEW n \in TestPeriods, ReadRegistry(n) PROVE PeriodIInv'
  BY <1>2 DEF ReadRegistry
<1>3. CASE ReadTerms
  BY <1>3 DEF ReadTerms
<1>4. CASE ReadCertificates \/ ReadArrears \/ ReadWindow \/ ReadMedia
  BY <1>4 DEF ReadCertificates, ReadArrears, ReadWindow, ReadMedia
<1>5. CASE ReadFails \/ Conclude
  BY <1>5 DEF ReadFails, Conclude, Forget
<1>6. CASE UNCHANGED readingVars
  BY <1>6 DEF readingVars, reading
<1>7. QED
  BY <1>1, <1>2, <1>3, <1>4, <1>5, <1>6 DEF ReadingNext, ReadStep

\* The proposal that concludes a review starts from the grade that was read.
LEMMA ConcludeStarts ==
    ASSUME ReadingTypeOK, Conclude, last'.outcome = "assessed"
    PROVE  Proposed.current = copy.grade
<1>1. copy \in FileType /\ last' = OutcomeOn(copy, period) /\ last' # Ungrounded
  BY DEF ReadingTypeOK, Conclude, Ungrounded
<1>2. Proposed = ProposalOf(copy, Policy, today)
  BY <1>1, OutcomeShape DEF Proposed
<1>3. QED
  BY <1>1, <1>2, ReviewBounds

\* A breach that stood throughout, of the period under review, binds.
LEMMA ConcludeSeesBreaches ==
    ASSUME ReadingTypeOK, StoodIInv, Conclude, last'.outcome = "assessed",
           \E t \in stood.breaches : t.period = period
    PROVE  Binds("floor-covenant-breach")
<1> DEFINE breaches == {t \in stood.breaches : t.period = period}
           floors   == FloorsOf(copy, Policy, today)
<1>1. OnFile(stood) /\ StoodIsHeld /\ HasTerms /\ HasCertificates
  BY DEF StoodIInv, UnderWay, Conclude, HasTerms, HasCertificates, HasArrears, HasWindow
<1>2. TypeOK /\ copy \in FileType
  BY DEF ReadingTypeOK
<1>3. Proposed = ProposalOf(copy, Policy, today)
  <2>1. last' = OutcomeOn(copy, period) /\ last' # Ungrounded
    BY DEF Conclude, Ungrounded
  <2>2. QED
    BY <2>1, OutcomeShape DEF Proposed
<1>4. breaches \in SUBSET {t \in copy.terms : OpenBreachIn(copy.certificates, t)}
  BY <1>1 DEF StoodIsHeld
<1>5. \A r \in floors : Binds(r)
  BY <1>2, <1>3, ReviewBounds DEF Binds
<1>6. breaches # {}
  OBVIOUS
<1> HIDE DEF breaches, floors
<1>7. "floor-covenant-breach" \in floors
  <2> DEFINE clock == MaterialDaysOf(copy.arrears)
  <2>1. clock = MaterialDaysOf(copy.arrears)
    OBVIOUS
  <2> HIDE DEF clock
  <2>2. QED
    BY <1>2, <1>4, <1>6, <2>1, FloorsReach DEF floors
<1>8. QED
  BY <1>5, <1>7

\* A feed that answers an error with an empty page misleads a review only if the
\* registry does so too: while either the registry or both covenant feeds raise
\* when they fail, an undisturbed review that misses a standing breach at least
\* moves from the grade the registry holds.
THEOREM MisleadingTakesTwo ==
    ASSUME "registry" \notin Erring \/ Erring \cap {"terms", "certificates"} = {}
    PROVE  ReadingSpec => AnErrorIsNotAnAnswer
<1> DEFINE A == Concluded /\ stood.quiet
                          /\ (\E t \in stood.breaches : t.period = Resolved(asked))
                  => \/ Binds("floor-covenant-breach")
                     \/ Proposed.current = file.grade
<1>c. ReadingNext /\ Concluded => Conclude
  BY DEF Concluded, ReadingNext, ReadStep, Meanwhile, reading, ReadRegistry,
     ReadTerms, ReadCertificates, ReadArrears, ReadWindow, ReadMedia, ReadFails, Goto
<1>1. ASSUME "registry" \notin Erring
      PROVE  ReadingSpec => AnErrorIsNotAnAnswer
  <2>1. ReadingInit => GradeIInv
    BY DEF ReadingInit, GradeIInv, UnderWay
  <2>2. ReadingTypeOK /\ GradeIInv /\ [ReadingNext]_readingVars => GradeIInv'
    BY <1>1, NextGradeIInv
  <2>3. ReadingTypeOK /\ GradeIInv /\ [ReadingNext]_readingVars => [A]_readingVars
    <3>1. ASSUME ReadingTypeOK, GradeIInv, Concluded, stood.quiet, Conclude
          PROVE  Proposed.current = file.grade
      BY <3>1, ConcludeStarts DEF Concluded, GradeIInv, UnderWay
    <3>2. QED
      BY <1>c, <3>1
  <2>4. QED
    BY <2>1, <2>2, <2>3, ReadingTypesHold, PTL DEF ReadingSpec, AnErrorIsNotAnAnswer
<1>2. ASSUME Erring \cap {"terms", "certificates"} = {}
      PROVE  ReadingSpec => AnErrorIsNotAnAnswer
  <2>1. ReadingInit => PeriodIInv /\ StoodIInv
    BY DEF ReadingInit, PeriodIInv, StoodIInv, UnderWay
  <2>2. /\ ReadingTypeOK /\ ReadingTypeOK' /\ PeriodIInv /\ StoodIInv
        /\ [ReadingNext]_readingVars
        => PeriodIInv' /\ StoodIInv'
    BY <1>2, NextPeriodIInv, NextStoodIInv
  <2>3. ReadingTypeOK /\ PeriodIInv /\ StoodIInv /\ [ReadingNext]_readingVars
           => [A]_readingVars
    <3>1. ASSUME ReadingTypeOK, PeriodIInv, StoodIInv, Concluded, stood.quiet, Conclude,
                 \E t \in stood.breaches : t.period = Resolved(asked)
          PROVE  Binds("floor-covenant-breach")
      <4>1. period = Resolved(asked)
        BY <3>1 DEF Conclude, PeriodIInv, UnderWay, HasTerms, HasCertificates,
           HasArrears, HasWindow
      <4>2. QED
        BY <3>1, <4>1, ConcludeSeesBreaches DEF Concluded
    <3>2. QED
      BY <1>c, <3>1
  <2>4. QED
    BY <2>1, <2>2, <2>3, ReadingTypesHold, PTL DEF ReadingSpec, AnErrorIsNotAnAnswer
<1>3. QED
  BY <1>1, <1>2

==============================================================================
