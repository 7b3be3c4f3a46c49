--------------------------- MODULE ReviewProtocol ----------------------------
(***************************************************************************)
(* What a watchlist review promises its caller, the WORM trail and the     *)
(* review console, with the pipeline in between abstracted away.  A        *)
(* decision is written to the trail before anything else can follow from   *)
(* it; only an escalated decision is put on an officer's desk; an answer   *)
(* says what became of the hand-off; and a review may give up, or be lost  *)
(* to a restart, at any point.                                             *)
(***************************************************************************)
CONSTANT Requests

VARIABLES
    decided,  \* the decision each request wrote to the trail, or "none"
    desk,     \* the requests whose proposal is on an officer's desk
    reply     \* what each caller was told, or "pending"

vars == <<decided, desk, reply>>

Decisions == {"allowed", "escalated"}
Handoffs  == {"routed", "failed", "off"}
Failures  == {"not_found", "forbidden", "error", "lost"}

\* What a caller may be told once the decision d stands.
Honest(r, d) == CASE d = "none"      -> {}
                  [] d = "allowed"   -> {"not_required"}
                  [] d = "escalated" -> IF r \in desk THEN {"routed", "failed"}
                                                      ELSE {"failed", "off"}

Decide(r) ==
    /\ reply[r] = "pending" /\ decided[r] = "none"
    /\ \E d \in Decisions : decided' = [decided EXCEPT ![r] = d]
    /\ UNCHANGED <<desk, reply>>

Submit(r) ==
    /\ reply[r] = "pending" /\ decided[r] = "escalated" /\ r \notin desk
    /\ desk' = desk \cup {r}
    /\ UNCHANGED <<decided, reply>>

Answer(r) ==
    /\ reply[r] = "pending"
    /\ \E what \in Honest(r, decided[r]) : reply' = [reply EXCEPT ![r] = what]
    /\ UNCHANGED <<decided, desk>>

\* One request fails, or a restart loses every request still open.
GiveUp(lost) ==
    /\ \A r \in lost : reply[r] = "pending"
    /\ \E why \in Failures :
          reply' = [r \in Requests |-> IF r \in lost THEN why ELSE reply[r]]
    /\ UNCHANGED <<decided, desk>>

Init ==
    /\ decided = [r \in Requests |-> "none"]
    /\ desk = {}
    /\ reply = [r \in Requests |-> "pending"]

Next == \/ \E r \in Requests : Decide(r) \/ Submit(r) \/ Answer(r)
        \/ \E lost \in SUBSET Requests : GiveUp(lost)

Spec == Init /\ [][Next]_vars
==============================================================================
