------------------------------ MODULE MCServing ------------------------------
(***************************************************************************)
(* Instances of Serving: the deployments the documentation, the tests and  *)
(* the Dockerfile name, each with the mistakes it makes possible.          *)
(***************************************************************************)
EXTENDS Serving, TLC

CONSTANTS t1, t2

MCFigures == {"score"}
MCServed  == {"nric", "hkid"}
MCForeign == {"aadhaar"}
MCSources == {"covenant"}
MCGrades  == {"pass", "substandard", "loss"}

\* Two faithful drafts, one quoting a locator, and some that validate_memo discards.
Draft(form, cites, tokens, grades) ==
    [form |-> form, cites |-> cites, tokens |-> tokens, grades |-> grades, injects |-> FALSE]
MCDrafts ==
    { Draft("memo", MCSources, {"score"}, {"substandard"}),
      Draft("memo", MCSources, {"score", "hkid"}, {"pass"}),
      Draft("memo", MCSources, {"score", "nric"}, {"substandard"}),
      Draft("memo", {}, {"score"}, {"pass"}),
      Draft("not_json", {}, {}, {}) }

\* An escalated obligor whose clause names a guarantor and whose source title
\* holds an identifier, one whose clause tries to instruct the model, one with
\* nothing to review, one of another tenant, one nobody knows.
Content(escalated, injects) ==
    [figures |-> {"score"}, personal |-> {"nric", "aadhaar"}, located |-> {"hkid"},
     sources |-> MCSources, grades |-> {"pass", "substandard"},
     injects |-> injects, escalated |-> escalated]
Downgrade == [key |-> "downgrade", access |-> "own", content |-> Content(TRUE, FALSE)]
Quiet     == [key |-> "quiet",     access |-> "own", content |-> Content(FALSE, FALSE)]
Foreigner == [key |-> "foreigner", access |-> "other_tenant", content |-> Content(TRUE, FALSE)]
Injecting == [key |-> "injecting", access |-> "own", content |-> Content(TRUE, TRUE)]
Stranger  == [key |-> "stranger",  access |-> "unknown", content |-> Content(FALSE, FALSE)]
MCCases   == {Downgrade, Quiet, Foreigner, Injecting, Stranger}

Request(route, peer, credential, case) ==
    [route |-> route, peer |-> peer, credential |-> credential, case |-> case, dated |-> TRUE]
MCRequests ==
    { Request("review", "loopback", "persona", Downgrade),
      Request("review", "lan", "none", Quiet),
      Request("review", "proxied", "ghost", Quiet),
      [Request("review", "loopback", "none", Quiet) EXCEPT !.dated = FALSE],
      Request("review", "lan", "assertion", Downgrade),
      Request("review", "proxied", "assertion", Foreigner),
      Request("review", "loopback", "persona", Injecting),
      Request("review", "loopback", "assertion", Stranger),
      Request("obligors", "lan", "bad_assertion", Quiet),
      Request("personas", "loopback", "none", Quiet),
      Request("health", "lan", "none", Quiet),
      Request("ping", "loopback", "assertion", Quiet),
      Request("tool", "loopback", "none", Downgrade) }

\* The whole set of references named, or one left out or emptied.
AllNamed == [r \in References |-> "set"]
Env(profile) ==
    [profile |-> profile, settings |-> "named", routing |-> "unset", guardrail |-> "unset",
     ref |-> AllNamed, insecure |-> FALSE, sdk |-> profile = "gcp", entry |-> "uvicorn"]
Without(e, r)  == [e EXCEPT !.ref[r] = "unset"]
Emptying(e, r) == [e EXCEPT !.ref[r] = "empty"]

Plain ==
    [exists |-> TRUE, mapping |-> TRUE, adapters |-> "complete", rebinds |-> <<>>,
     policy |-> "consistent", armor |-> "reference"]
Missing == [Plain EXCEPT !.exists = FALSE]
Rebinding(port, profile, family) ==
    [Plain EXCEPT !.rebinds = (<<port, profile>> :> family)]
Inconsistent == [Plain EXCEPT !.policy = "inconsistent"]

Deployed(e, f)        == [env |-> e, file |-> f, after |-> f]
EditedTo(e, f, after) == [env |-> e, file |-> f, after |-> after]

\* The managed profile as the Dockerfile runs it, and what is forgotten of it.
Managed ==
    { Deployed(Env("gcp"), Plain),
      Deployed(Without(Env("gcp"), "console"), Plain),
      Deployed(Without(Env("gcp"), "audience"), Plain),
      Deployed(Without(Env("gcp"), "portfolio_feed"), Plain),
      Deployed(Emptying(Env("gcp"), "audience"), Plain),
      Deployed([Env("gcp") EXCEPT !.sdk = FALSE], Plain),
      Deployed([Without(Env("gcp"), "console") EXCEPT !.routing = "off"], Plain),
      Deployed([Env("gcp") EXCEPT !.guardrail = "off"], Inconsistent),
      Deployed(Env("gcp"), Rebinding("identity", "gcp", "local")),
      EditedTo(Env("gcp"), [Plain EXCEPT !.armor = "blank"], Plain),
      Deployed([Env("gcp") EXCEPT !.routing = "other"], Plain),
      Deployed(Env("gcp"), Missing) }

\* The laptop profiles, chosen, inherited or opened up.
Laptop ==
    { Deployed(Env("local"), Plain),
      Deployed([Env("live") EXCEPT !.entry = "main"], Plain),
      Deployed([Env("local") EXCEPT !.insecure = TRUE], Plain),
      Deployed(Env("unset"), Plain),
      Deployed([Env("unset") EXCEPT !.settings = "unset"], Missing),
      Deployed(Env("unset"), Rebinding("identity", "local", "client")),
      Deployed(Env("empty"), Plain),
      Deployed(Env("live"), Rebinding("generation", "live", "local")),
      EditedTo(Env("local"), Rebinding("identity", "local", "gcp"), Plain) }

\* The exit profile: placeholders, and the client's own adapter in one place.
Exit ==
    { Deployed(Env("onprem"), Plain),
      Deployed(Env("onprem"), Rebinding("identity", "onprem", "client")),
      Deployed(Env("onprem"), [Plain EXCEPT !.adapters = "partial"]) }

MCDeployments  == Managed \cup Laptop \cup Exit
OfflineDeployments == {Deployed(Env("local"), Plain)}
BrokenDeployments  == {Deployed(Without(Env("gcp"), "console"), Plain)}
OfflineRequests    == {Request("review", "loopback", "persona", Downgrade)}

===============================================================================
