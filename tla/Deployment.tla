------------------------------ MODULE Deployment ------------------------------
(***************************************************************************)
(* What an environment and a settings file make of the process (config.py, *)
(* envread.py, the import of api/app.py).  Every variable is read in three *)
(* states: unset, emptied, and a value, because an operator who emptied a  *)
(* variable did not ask for its default.                                   *)
(*                                                                         *)
(* An environment env is a record                                          *)
(*   profile            CREDITEWS_PROFILE                                  *)
(*   settings           CREDITEWS_SETTINGS: unset, empty or named          *)
(*   routing, guardrail the two control switches                           *)
(*   ref                the variables the file's ${VAR:-default} name      *)
(*   insecure, sdk      the demo opt-in; whether google-auth is installed  *)
(*   entry              the Dockerfile's uvicorn command, or main()        *)
(* and a settings file is a record of what matters of its text: does it    *)
(* exist, is it a mapping, which bindings its table changes, its policy    *)
(* block and its model_armor block.                                        *)
(***************************************************************************)

KnownProfiles   == {"local", "live", "gcp", "onprem"}
LaptopProfiles  == {"local", "live"}
ManagedProfiles == {"gcp"}
UNCONSENTED     == "unconfigured"

\* The ports a request goes through; the tracer and the eval gate decide nothing.
FeedPorts == {"grade_registry", "covenant_terms", "portfolio_feed", "adverse_media"}
Ports     == FeedPorts \cup {"audit", "guardrail", "identity", "review_router", "generation"}

\* An adapter is known by its family.  "client" is an adopter's own, which
\* declares that it verifies end users; "silent" is one that declares nothing.
Families == KnownProfiles \cup {"client", "silent"}

\* What the file refers to through the environment; the template has a real default.
References == {"console", "audience", "template"} \cup FeedPorts

RawProfiles == KnownProfiles \cup {"unset", "empty", "unknown"}
RawSwitches == {"unset", "empty", "on", "off", "other"}
RawRefs     == {"unset", "empty", "set"}

Environments ==
    [profile : RawProfiles, settings : {"unset", "empty", "named"},
     routing : RawSwitches, guardrail : RawSwitches, ref : [References -> RawRefs],
     insecure : BOOLEAN, sdk : BOOLEAN, entry : {"uvicorn", "main"}]

IsFile(f) ==
    /\ f.exists \in BOOLEAN /\ f.mapping \in BOOLEAN
    /\ f.adapters \in {"complete", "partial"}
    /\ \A x \in DOMAIN f.rebinds : f.rebinds[x] \in Families
    /\ f.policy \in {"consistent", "inconsistent", "not_a_mapping"}
    /\ f.armor \in {"reference", "blank", "bad_timeout"}

------------------------------------------------------------------------------
(* The profile: one resolution, and what its two kinds of consumer read.   *)

\* resolve_profile raises: emptied, or a name nothing binds (exact case).
ProfileRefused(raw) == raw \notin KnownProfiles \cup {"unset"}

\* Unset binds the SDK-free adapters, and is never a choice.
ResolveProfile(raw) ==
    [profile  |-> IF raw = "unset" THEN "local" ELSE raw,
     explicit |-> raw # "unset"]

PostureProfile(p) == IF p \in LaptopProfiles THEN "local" ELSE p

\* What relaxations key off: without a choice, nobody's profile.
ExposureProfile(c) == IF c.explicit THEN PostureProfile(c.profile) ELSE UNCONSENTED

\* What the bind restriction keys off: without a choice, the confined profile.
BindProfile(c) == IF c.explicit THEN PostureProfile(c.profile) ELSE "local"

------------------------------------------------------------------------------
(* Reading the environment and the file.                                   *)

\* setting_or_default, behind every ${VAR:-default} of the file.
Emptied(env) == \E r \in References : env.ref[r] = "empty"

\* With no file the variables are never read and every endpoint stays blank.
Named(env, file) ==
    {r \in References : file.exists /\ env.ref[r] = "set"}
        \cup (IF file.exists /\ file.armor = "blank" THEN {} ELSE {"template"})

\* boolean_setting, default on.
SwitchOn(raw)      == raw \in {"unset", "on"}
SwitchRefused(raw) == raw \in {"empty", "other"}

\* _read_settings_file raises: a file that was named must be there, and the
\* expansion of a file that is there meets every variable it refers to.
FileRefused(env, file) ==
    \/ env.settings = "empty"
    \/ env.settings = "named" /\ ~file.exists
    \/ file.exists /\ (~file.mapping \/ Emptied(env))

\* _bindings_from and _policy_from raise: a table that does not bind every port
\* in every profile, a policy that is not a block.
ContentRefused(file) ==
    file.exists /\ (file.adapters = "partial" \/ file.policy = "not_a_mapping")

\* ModelArmorSettings raises, whatever the profile.
ArmorRefused(file) == file.exists /\ file.armor = "bad_timeout"

\* DEFAULT_BINDINGS: the profile's own family, except that live is local with
\* another model.
DefaultBinding(port, profile) ==
    IF profile \in LaptopProfiles
    THEN IF port = "generation" /\ profile = "live" THEN "live" ELSE "local"
    ELSE profile

Binding(file, port, profile) ==
    IF file.exists /\ <<port, profile>> \in DOMAIN file.rebinds
    THEN file.rebinds[<<port, profile>>]
    ELSE DefaultBinding(port, profile)

\* Mutant: switched-on routing is taken to imply a console.
ControlsUncheckedForRouting(env, file) ==
    /\ env.profile \in ManagedProfiles
    /\ SwitchOn(env.guardrail) /\ Binding(file, "guardrail", env.profile) = "gcp"
    /\ "template" \notin Named(env, file)

\* _refuse_unconfigured_controls: under the managed profile a control that is
\* on must be able to work.
ControlsRefused(env, file) ==
    /\ env.profile \in ManagedProfiles
    /\ \/ SwitchOn(env.routing) /\ "console" \notin Named(env, file)
       \/ /\ SwitchOn(env.guardrail) /\ Binding(file, "guardrail", env.profile) = "gcp"
          /\ "template" \notin Named(env, file)

\* Settings.load raises.
Unloadable(env, file) ==
    \/ ProfileRefused(env.profile)
    \/ FileRefused(env, file)
    \/ ContentRefused(file) \/ ArmorRefused(file)
    \/ SwitchRefused(env.routing) \/ SwitchRefused(env.guardrail)
    \/ ControlsRefused(env, file)

Settings ==
    [profile : KnownProfiles, explicit : BOOLEAN, bound : [Ports -> Families],
     routing : BOOLEAN, guardrail : BOOLEAN, named : SUBSET References, policy : BOOLEAN]

\* Settings.load.  The policy is only parsed into a mapping here: whether
\* validate_policy takes it is known when a service is built on it.
Load(env, file) ==
    LET c == ResolveProfile(env.profile) IN
    [profile   |-> c.profile,
     explicit  |-> c.explicit,
     bound     |-> [p \in Ports |-> Binding(file, p, c.profile)],
     routing   |-> SwitchOn(env.routing),
     guardrail |-> SwitchOn(env.guardrail),
     named     |-> Named(env, file),
     policy    |-> ~file.exists \/ file.policy # "inconsistent"]

------------------------------------------------------------------------------
(* End-user authentication, as the binding declares it.                    *)

\* declared_end_user_auth over the shipped classes; silence claims nothing.
DeclaredEndUserAuth(family) ==
    CASE family \in {"gcp", "client"}            -> "verified"
      [] family = "onprem"                       -> "unimplemented"
      [] family \in {"local", "live", "silent"} -> "client-asserted"

\* end_user_auth_kind: a load that raises is read as client-asserted.
EndUserAuthKind(env, file) ==
    IF Unloadable(env, file) THEN "client-asserted"
    ELSE DeclaredEndUserAuth(Load(env, file).bound["identity"])

\* Mutant: a verifying binding is enough, chosen profile or not.
VerifiedByBindingAlone(env, file) == EndUserAuthKind(env, file) = "verified"

\* _END_USER_AUTHENTICATED at the import of api/app.py.
EndUserAuthenticated(env, file) ==
    /\ ResolveProfile(env.profile).explicit
    /\ EndUserAuthKind(env, file) = "verified"

------------------------------------------------------------------------------
(* The model pill.                                                         *)

Models == {"stub", "open-weight", "pinned", "none", "client-model"}

\* Which model an adapter notes as it answers.
AnsweredBy(family) ==
    CASE family = "local"                 -> "stub"
      [] family = "live"                  -> "open-weight"
      [] family = "gcp"                   -> "pinned"
      [] family = "onprem"                -> "none"
      [] family \in {"client", "silent"} -> "client-model"

\* Mutant: the profile names the model, whatever it binds.
PillByProfile(s) == AnsweredBy(DefaultBinding("generation", s.profile))

\* _configured_local_model: only the live narrator's module has configured_model().
ConfiguredLocalModel(family) == IF family = "live" THEN "open-weight" ELSE "stub"

\* _declared_model: only the managed narrator's module has a _MODEL.
DeclaredModel(family) == IF family = "gcp" THEN "pinned" ELSE "none"

\* Settings.generator_model: the profile chooses which declaration is read off
\* the bound adapter.
GeneratorModel(s) ==
    LET bound == s.bound["generation"] IN
    CASE s.profile = "onprem"           -> "none"
      [] s.profile \in LaptopProfiles  -> ConfiguredLocalModel(bound)
      [] s.profile \in ManagedProfiles -> DeclaredModel(bound)

===============================================================================
