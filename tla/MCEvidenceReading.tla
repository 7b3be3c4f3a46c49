-------------------------- MODULE MCEvidenceReading --------------------------
(***************************************************************************)
(* Small instances of EvidenceReading: one day, on which covenants are     *)
(* restated and rolled, arrears build up, metrics are spread and grades    *)
(* move, all while a review is being read.                                          *)
(***************************************************************************)
EXTENDS EvidenceReading, MCObligorMonitoring

\* A covenant whose period ends today, and one in breach that carries no dates.
A == Term("A", 0, 0)
B == [Term("B", 0, 2) EXCEPT !.periodEnd = NoDate, !.due = NoDate]
\* One file has room for a certificate, the other for a metric.
Rolling ==
    [File(SPECIAL_MENTION, {A, B}) EXCEPT !.certificates = <<Breached(B)>>,
                                          !.arrears = NoSnapshot,
                                          !.window = @ \cup {Row("current_ratio", 20000, 0)}]
Restructuring ==
    [File(SPECIAL_MENTION, {B}) EXCEPT !.certificates = <<Breached(B), Breached(B)>>]
ReadingFiles == {Rolling, Restructuring}
ReadingValues    == {120}
ReadingSnapshots == {Arrears(3, 20)}
ReadingReadings  == {Reading("restructured_within_days", 1000000)}

\* One obligor the registry holds as doubtful, with a breach nobody has dealt with.
FaultFiles == {[File(DOUBTFUL, {B}) EXCEPT !.certificates = <<Breached(B)>>]}
FaultErrs  == {"registry", "terms"}
==============================================================================
