------------------------------- MODULE MemoSeam -------------------------------
(***************************************************************************)
(* What leaves a review and what comes back from the model: the masked     *)
(* projection, the two screens around the generation call, the narrators,  *)
(* validate_memo, and the payload built for the review console.            *)
(*                                                                         *)
(* Text is the set of number tokens it holds, the grades it names, the     *)
(* sources it cites, and whether a screen's pattern is in it.  A personal  *)
(* identifier is a number token too: that is why masking and grounding     *)
(* have to agree.  An assessment a is a record                             *)
(*   figures   what the engine computed                                    *)
(*   personal  identifiers in upstream prose (names, clauses, snippets)    *)
(*   located   identifiers in citation locators and titles                 *)
(*   sources, grades, injects, escalated                                   *)
(***************************************************************************)
EXTENDS Deployment

CONSTANTS
    Figures,  \* number tokens the engine can produce
    Served,   \* identifiers of this deployment's jurisdictions (domain/pii.py)
    Foreign,  \* identifiers only another jurisdiction's patterns find
    Sources,  \* citation source ids
    Grades,   \* wire values of the supervisory grades
    Drafts    \* what a model may answer: [form, cites, tokens, grades, injects]

Identifiers == Served \cup Foreign
Tokens      == Figures \cup Identifiers

DraftForms == {"memo", "not_json", "incomplete"}
IsDraft(d) ==
    d \in [form : DraftForms, cites : SUBSET Sources, tokens : SUBSET Tokens,
           grades : SUBSET Grades, injects : BOOLEAN]

ASSUME TokensAssumption ==
    /\ Figures \cap Identifiers = {}
    /\ Served \cap Foreign = {}
    /\ \A d \in Drafts : IsDraft(d)

Contents ==
    [figures : SUBSET Figures, personal : SUBSET Identifiers, located : SUBSET Identifiers,
     sources : SUBSET Sources, grades : SUBSET Grades, injects : BOOLEAN, escalated : BOOLEAN]

------------------------------------------------------------------------------
(* The one seam: redacted_assessment masks prose, never figures or locators. *)

RedactedAssessment(a) == [a EXCEPT !.personal = @ \ Served]

\* grounding_tokens over memo_facts: every number the labelled facts hold,
\* locators and titles included.
GroundingTokens(a) == a.figures \cup a.personal \cup a.located

\* review_to_payload: the console is shared, so its prose is masked again,
\* against every jurisdiction; a locator stays traceable.
Payload(a) ==
    [prose |-> a.figures \cup (a.personal \ Identifiers), located |-> a.located]

------------------------------------------------------------------------------
(* Screening (rule R1).                                                    *)

\* Model Armor allows only a complete, clean screen; a skipped filter also
\* arrives as no match.
MapResult(state, invocation) ==
    IF state = "NO_MATCH_FOUND" /\ invocation = "SUCCESS" THEN "allow" ELSE "block"

\* What Model Armor reports of a text with a match in it: the match, or, when
\* filters were skipped or failed, no match from an incomplete screen.
ArmorReports(injects) ==
    {<<"absent", "absent">>} \cup ({"NO_MATCH_FOUND"} \X {"PARTIAL", "FAILURE"})
        \cup (IF injects THEN {<<"MATCH_FOUND", "SUCCESS">>, <<"MATCH_FOUND", "PARTIAL">>}
                         ELSE {<<"NO_MATCH_FOUND", "SUCCESS">>})

\* The verdicts the bound guardrail may reach on a text, an adapter that raises
\* instead of deciding included.
Screen(s, injects) ==
    IF ~s.guardrail THEN {"allow"}
    ELSE CASE s.bound["guardrail"] = "local" ->
                 {IF injects THEN "block" ELSE "allow"}
           [] s.bound["guardrail"] = "gcp" ->
                 {MapResult(r[1], r[2]) : r \in ArmorReports(injects)} \cup {"raise"}
           [] s.bound["guardrail"] = "onprem" -> {"raise"}
           [] s.bound["guardrail"] \in {"live", "client", "silent"} ->
                 {"allow", "block", "raise"}

------------------------------------------------------------------------------
(* Drafting.                                                               *)

\* The offline narrator restates the facts it was given and cites them all.
Restatement(a) ==
    [form |-> "memo", cites |-> a.sources, tokens |-> GroundingTokens(a),
     grades |-> a.grades, injects |-> a.injects]

NoMemo     == [state |-> "none",      tokens |-> {}, grades |-> {}]
Discarded  == [state |-> "discarded", tokens |-> {}, grades |-> {}]
Fault      == [state |-> "fault",     tokens |-> {}, grades |-> {}]
ShownAs(d) == [state |-> "shown", tokens |-> d.tokens, grades |-> d.grades]

MemoStates == {"none", "discarded", "fault", "shown"}
Memos == [state : MemoStates, tokens : SUBSET Tokens, grades : SUBSET Grades]

\* Mutant: a number is grounded when the engine could have produced it anywhere.
ValidWithoutGrounding(d, a) ==
    /\ d.form = "memo"
    /\ d.cites # {} /\ d.cites \subseteq a.sources
    /\ d.grades \subseteq a.grades

\* validate_memo: none of the five grounds for discarding.
Valid(d, a) ==
    /\ d.form = "memo"
    /\ d.cites # {} /\ d.cites \subseteq a.sources
    /\ d.tokens \subseteq GroundingTokens(a)
    /\ d.grades \subseteq a.grades

\* _screen refuses: the refusal is recorded and fixed text stands in, unless the
\* trail cannot take the record.
Refusals == {Discarded, Fault}

\* The answer is screened, and only then parsed.
AfterAnswer(s, a, d) ==
    LET verdicts == Screen(s, d.injects) IN
    (IF verdicts \cap {"block", "raise"} # {} THEN Refusals ELSE {})
        \cup (IF "allow" \in verdicts
              THEN {IF Valid(d, a) THEN ShownAs(d) ELSE Discarded} ELSE {})

\* The bound narrator, over the prompt built from a.  An unbound exit seam costs
\* a paragraph; a model or a server that does not answer fails the review.
Generated(s, a) ==
    LET narrator == s.bound["generation"] IN
    CASE narrator = "local"  -> AfterAnswer(s, a, Restatement(a))
      [] narrator = "onprem" -> {Discarded}
      [] narrator \in {"live", "gcp", "client", "silent"} ->
             {Fault} \cup UNION {AfterAnswer(s, a, d) : d \in Drafts}

\* _draft_memo: only a proposal that reaches an officer is narrated.
DraftMemo(s, a) ==
    IF ~a.escalated THEN {NoMemo}
    ELSE LET verdicts == Screen(s, a.injects) IN
         (IF verdicts \cap {"block", "raise"} # {} THEN Refusals ELSE {})
             \cup (IF "allow" \in verdicts THEN Generated(s, a) ELSE {})

===============================================================================
