------------------------------- MODULE Serving -------------------------------
(***************************************************************************)
(* The running service: the process imports api/app.py on a deployment's   *)
(* environment and settings file, worker threads serve requests through    *)
(* the one lazily built container, and the agent's tools and the command   *)
(* line build a container of their own for each call.                      *)
(*                                                                         *)
(* The exposure guard is frozen at the import; the settings are loaded at  *)
(* the first request that needs them; the container and its review router  *)
(* are caches without a lock, filled by whichever thread comes first.      *)
(***************************************************************************)
EXTENDS MemoSeam, Sequences, Naturals

CONSTANTS
    Threads,      \* worker threads
    Deployments,  \* [env, file, after]: the environment, the file, the file once edited
    Cases,        \* obligors a review may be asked for, see IsCase
    Requests,     \* requests that may arrive, see IsRequest
    MaxCalls      \* bound: calls over the life of the host

EndUserRoutes == {"review", "obligors"}
OpenRoutes    == {"health", "personas"}
Routes        == EndUserRoutes \cup OpenRoutes \cup {"ping", "tool"}

\* The headers a call brings: none, a persona of the seeded list or one that is
\* not on it, a signed assertion, or one that does not verify.
Credentials   == {"none", "persona", "ghost", "assertion", "bad_assertion"}

\* Where it comes from: the host itself, a proxy on the host, which leaves a
\* forwarding header, or another machine.
Peers         == {"loopback", "proxied", "lan"}

\* review_obligor of the agent's tools, and the command line, build a container
\* for one call, and ask no identity adapter who is calling.
OwnContainer(q) == q.route = "tool"

Access        == {"own", "other_tenant", "unknown"}

IsCase(c) ==
    /\ DOMAIN c = {"key", "access", "content"}
    /\ c.access \in Access
    /\ c.content \in Contents

IsRequest(q) ==
    /\ DOMAIN q = {"route", "peer", "credential", "case", "dated"}
    /\ q.route \in Routes /\ q.peer \in Peers
    /\ q.credential \in Credentials /\ q.case \in Cases
    /\ q.dated \in BOOLEAN  \* the as_of of a review is an ISO date, or left out

ASSUME ServingAssumption ==
    /\ MaxCalls \in Nat /\ Requests # {}
    /\ \A c \in Cases : IsCase(c)
    /\ \A q \in Requests : IsRequest(q)
    /\ \A d \in Deployments : d.env \in Environments /\ IsFile(d.file) /\ IsFile(d.after)

VARIABLES
    deployed,  \* the deployment the host was given
    edited,    \* is the edited file in place
    drifted,   \* history: edited since the process imported the app
    app,       \* "down", or the posture frozen at import: "guarded", "open"
    built,     \* settings of every container built since the host started
    cached,    \* index of the container lru_cache holds, 0 for none
    routers,   \* per container, the outbox of the router it keeps, 0 for none
    outboxes,  \* the outbox of every router bound, proposals in order
    desk,      \* proposals the review console took
    stage,     \* where each thread is
    call,      \* what each thread serves
    by,        \* container each thread authenticated its caller with
    holds,     \* container each thread works with
    box,       \* outbox of the router each thread has
    memo,      \* what became of the memo
    answer,    \* what the caller was told
    ref,       \* the outbox reference it was given
    calls      \* calls so far

host   == <<deployed, edited, drifted, app>>
shared == <<built, cached, routers>>
sinks  == <<outboxes, desk>>
work   == <<call, by, holds, box, memo>>
said   == <<answer, ref>>
vars   == <<host, shared, sinks, stage, work, said, calls>>

env  == deployed.env
file == IF edited THEN deployed.after ELSE deployed.file

Stages == {"idle", "load", "store", "admit", "bind", "keep", "review", "enqueue", "refer",
           "submit"}
Answers == {"none", "guarded", "load_failed", "nobody_can", "unauthenticated", "unconfigured",
            "forbidden", "not_found", "malformed", "error", "ok", "routed", "failed", "off", "not_required"}
Completed == {"routed", "failed", "off", "not_required"}
Succeeded == Completed \cup {"ok"}

Nothing == [t \in Threads |-> 0]

Goto(t, s) == stage' = [stage EXCEPT ![t] = s]

Tell(t, a) ==
    /\ Goto(t, "idle")
    /\ answer' = [answer EXCEPT ![t] = a]

\* No thread has a call, nothing is in memory.
Blank ==
    /\ built' = <<>> /\ cached' = 0 /\ routers' = <<>> /\ outboxes' = <<>>
    /\ stage' = [t \in Threads |-> "idle"]
    /\ UNCHANGED call
    /\ by' = Nothing /\ holds' = Nothing /\ box' = Nothing
    /\ memo' = [t \in Threads |-> NoMemo]
    /\ answer' = [t \in Threads |-> "none"]
    /\ ref' = Nothing

------------------------------------------------------------------------------
(* The host: start, restart, and a settings file edited under it.          *)

\* The import of config.py resolves the profile, and the process does not come
\* up without one.  The posture it freezes comes from a load of its own.
Start ==
    /\ app = "down"
    /\ ~ProfileRefused(env.profile)
    /\ app' = IF EndUserAuthenticated(env, file) THEN "open" ELSE "guarded"
    /\ drifted' = FALSE
    /\ UNCHANGED <<deployed, edited, shared, sinks, stage, work, said, calls>>

\* The host restarts: everything in memory is gone, calls in flight included.
Restart ==
    /\ app # "down"
    /\ app' = "down"
    /\ Blank
    /\ UNCHANGED <<deployed, edited, drifted, desk, calls>>

\* Nothing watches the file: an edit shows at the next load.
Edit ==
    /\ ~edited
    /\ deployed.after # deployed.file
    /\ edited' = TRUE
    /\ drifted' = (app # "down")
    /\ UNCHANGED <<deployed, app, shared, sinks, stage, work, said, calls>>

------------------------------------------------------------------------------
(* A call arrives.                                                         *)

\* add_loopback_exposure_guard, the outermost middleware.  A forwarding header
\* disqualifies even a loopback peer.
Guarded(q) == q.peer # "loopback" /\ app = "guarded" /\ ~env.insecure

\* The socket is open beyond loopback: the shipped uvicorn command always opens
\* it so, main() where the confined profile is not in force (resolve_bind_host).
BeyondLoopback ==
    \/ env.entry = "uvicorn"
    \/ env.insecure
    \/ app = "open" /\ BindProfile(ResolveProfile(env.profile)) # "local"

\* The tools and the command line run beside it on the host and bypass the API.
Reaches(q) == app # "down" /\ (q.peer = "lan" => BeyondLoopback)

\* require_service_caller: no chosen profile, no scheme; under the laptop
\* posture a shared secret that may be unset, a signed token otherwise.
ServiceAnswers(q) ==
    LET c == ResolveProfile(env.profile) IN
    IF ~c.explicit THEN {"unconfigured"}
    ELSE IF ExposureProfile(c) = "local" THEN {"ok", "unauthenticated"}
    ELSE {IF q.credential = "assertion" THEN "ok" ELSE "unauthenticated"}

Arrive(t, q) ==
    /\ stage[t] = "idle" /\ calls < MaxCalls
    /\ Reaches(q)
    /\ calls' = calls + 1
    /\ call' = [call EXCEPT ![t] = q]
    /\ by' = [by EXCEPT ![t] = 0] /\ box' = [box EXCEPT ![t] = 0]
    /\ memo' = [memo EXCEPT ![t] = NoMemo]
    /\ ref' = [ref EXCEPT ![t] = 0]
    /\ IF Guarded(q)
       THEN Tell(t, "guarded") /\ holds' = [holds EXCEPT ![t] = 0]
       ELSE IF q.route = "ping"
       THEN /\ \E a \in ServiceAnswers(q) : Tell(t, a)
            /\ holds' = [holds EXCEPT ![t] = 0]
       ELSE /\ answer' = [answer EXCEPT ![t] = "none"]
            /\ IF ~OwnContainer(q) /\ cached # 0
               THEN Goto(t, "admit") /\ holds' = [holds EXCEPT ![t] = cached]
               ELSE Goto(t, "load") /\ holds' = [holds EXCEPT ![t] = 0]
    /\ UNCHANGED <<host, shared, sinks>>

------------------------------------------------------------------------------
(* The container: lru_cache(maxsize=1) around a load that may raise.       *)

\* Mutant: a load that raised is tried again.
LoadSettingsRetrying(t) ==
    /\ stage[t] = "load"
    /\ IF Unloadable(env, file) THEN UNCHANGED <<built, routers, holds, stage>>
       ELSE /\ built' = Append(built, Load(env, file))
            /\ routers' = Append(routers, 0)
            /\ holds' = [holds EXCEPT ![t] = Len(built) + 1]
            /\ Goto(t, IF OwnContainer(call[t]) THEN "bind" ELSE "store")
    /\ UNCHANGED <<host, cached, sinks, call, by, box, memo, said, calls>>

\* An exception is not cached: the next call loads again.  A tool keeps the
\* container to itself.
LoadSettings(t) ==
    /\ stage[t] = "load"
    /\ IF Unloadable(env, file)
       THEN Tell(t, "load_failed") /\ UNCHANGED <<built, routers, holds>>
       ELSE /\ built' = Append(built, Load(env, file))
            /\ routers' = Append(routers, 0)
            /\ holds' = [holds EXCEPT ![t] = Len(built) + 1]
            /\ Goto(t, IF OwnContainer(call[t]) THEN "bind" ELSE "store")
            /\ UNCHANGED answer
    /\ UNCHANGED <<host, cached, sinks, call, by, box, memo, ref, calls>>

\* The thread that lost the race keeps its own result for this call.
Store(t) ==
    /\ stage[t] = "store"
    /\ cached' = IF cached = 0 THEN holds[t] ELSE cached
    /\ Goto(t, "admit")
    /\ UNCHANGED <<host, built, routers, sinks, work, said, calls>>

------------------------------------------------------------------------------
(* Who is calling.                                                         *)

\* LocalIdentityAdapter constructs.
PersonasServed(s) ==
    /\ s.bound["identity"] \in {"local", "live"}
    /\ s.profile \in LaptopProfiles
    /\ s.explicit

\* Mutant: a verifier without an audience accepts what any issuer signed.
ResolveWithoutAudience(s, credential) ==
    CASE s.bound["identity"] \in {"local", "live"} ->
            IF ~PersonasServed(s) THEN {"nobody_can"}
            ELSE {IF credential = "ghost" THEN "unauthenticated" ELSE "principal"}
      [] s.bound["identity"] = "gcp" ->
            IF credential \notin {"assertion", "bad_assertion"} THEN {"unauthenticated"}
            ELSE IF ~env.sdk THEN {"nobody_can"}
            ELSE IF credential = "assertion" \/ "audience" \notin s.named THEN {"principal"}
            ELSE {"unauthenticated"}
      [] s.bound["identity"] = "onprem" -> {"nobody_can"}
      [] s.bound["identity"] = "client" ->
            {IF credential = "assertion" THEN "principal" ELSE "unauthenticated"}
      [] s.bound["identity"] = "silent" -> {"principal"}

\* container.identity.resolve.  "nobody_can" is EndUserAuthUnavailableError: no
\* caller could have done better.  A caller who names no persona is given the
\* default one.  A key set that cannot be fetched refuses one good assertion.
Resolve(s, credential) ==
    CASE s.bound["identity"] \in {"local", "live"} ->
            IF ~PersonasServed(s) THEN {"nobody_can"}
            ELSE {IF credential = "ghost" THEN "unauthenticated" ELSE "principal"}
      [] s.bound["identity"] = "gcp" ->
            IF "audience" \notin s.named THEN {"nobody_can"}
            ELSE IF credential \notin {"assertion", "bad_assertion"} THEN {"unauthenticated"}
            ELSE IF ~env.sdk THEN {"nobody_can"}
            ELSE IF credential = "assertion" THEN {"principal", "unauthenticated"}
            ELSE {"unauthenticated"}
      [] s.bound["identity"] = "onprem" -> {"nobody_can"}
      [] s.bound["identity"] = "client" ->
            {IF credential = "assertion" THEN "principal" ELSE "unauthenticated"}
      [] s.bound["identity"] = "silent" -> {"principal"}

\* Mutant: a deployment that can authenticate nobody asks for a credential.
AdmitBlamingTheCaller(t) ==
    /\ stage[t] = "admit"
    /\ by' = [by EXCEPT ![t] = holds[t]]
    /\ \E who \in Resolve(built[holds[t]], call[t].credential) :
          \/ /\ who = "principal"
             /\ call[t].route \in EndUserRoutes
             /\ Goto(t, "bind")
             /\ holds' = [holds EXCEPT ![t] = cached]
             /\ UNCHANGED answer
          \/ /\ who # "principal" \/ call[t].route \notin EndUserRoutes
             /\ Tell(t, IF call[t].route \in EndUserRoutes THEN "unauthenticated" ELSE "ok")
             /\ UNCHANGED holds
    /\ UNCHANGED <<host, shared, sinks, call, box, memo, ref, calls>>

\* The persona picker: any adapter that constructs will do, the seeded one says
\* why it would not.
Picker(s) ==
    IF s.bound["identity"] \in {"local", "live"} /\ ~PersonasServed(s) THEN "nobody_can" ELSE "ok"

\* An end-user route resolves its caller, and its handler then asks for the
\* cached container; the health route and the agent card only read the settings.
Admit(t) ==
    LET s == built[holds[t]]
        route == call[t].route
    IN
    /\ stage[t] = "admit"
    /\ by' = [by EXCEPT ![t] = holds[t]]
    /\ \/ /\ route \in EndUserRoutes
          /\ \E who \in Resolve(s, call[t].credential) :
                \/ /\ who = "principal"
                   /\ Goto(t, "bind")
                   /\ holds' = [holds EXCEPT ![t] = cached]
                   /\ UNCHANGED answer
                \/ who # "principal" /\ Tell(t, who) /\ UNCHANGED holds
       \/ /\ route = "personas"
          /\ Tell(t, Picker(s)) /\ UNCHANGED holds
       \/ route = "health" /\ Tell(t, "ok") /\ UNCHANGED holds
    /\ UNCHANGED <<host, shared, sinks, call, box, memo, ref, calls>>

------------------------------------------------------------------------------
(* The handler: the review router, the review, the hand-off.               *)

\* Only the offline router has state to lose.
HasOutbox(s) == s.routing /\ s.bound["review_router"] \in {"local", "live"}

\* Mutant: the router's constructor makes no outbox.
BindRouterWithoutOutbox(t) ==
    LET c == holds[t] IN
    /\ stage[t] = "bind"
    /\ IF ~HasOutbox(built[c])
       THEN Goto(t, "review") /\ UNCHANGED box
       ELSE IF routers[c] # 0
       THEN box' = [box EXCEPT ![t] = routers[c]] /\ Goto(t, "review")
       ELSE box' = [box EXCEPT ![t] = Len(outboxes) + 1] /\ Goto(t, "keep")
    /\ UNCHANGED <<host, shared, sinks, call, by, holds, memo, said, calls>>

\* Container.review_router, a cached_property without a lock: read it, and if
\* it is not there, bind a router.
BindRouter(t) ==
    LET c == holds[t] IN
    /\ stage[t] = "bind"
    /\ IF ~HasOutbox(built[c])
       THEN Goto(t, "review") /\ UNCHANGED <<outboxes, box>>
       ELSE IF routers[c] # 0
       THEN /\ box' = [box EXCEPT ![t] = routers[c]]
            /\ Goto(t, "review")
            /\ UNCHANGED outboxes
       ELSE /\ outboxes' = Append(outboxes, <<>>)
            /\ box' = [box EXCEPT ![t] = Len(outboxes) + 1]
            /\ Goto(t, "keep")
    /\ UNCHANGED <<host, shared, desk, call, by, holds, memo, said, calls>>

\* ... and keep it in the container, over whatever another thread kept there.
KeepRouter(t) ==
    /\ stage[t] = "keep"
    /\ routers' = [routers EXCEPT ![holds[t]] = box[t]]
    /\ Goto(t, "review")
    /\ UNCHANGED <<host, built, cached, sinks, work, said, calls>>

\* A system of record the bound adapter can ask: the exit profile's adapters
\* raise, a managed one needs its endpoint and the SDK.
Readable(s, port) ==
    /\ s.bound[port] # "onprem"
    /\ s.bound[port] = "gcp" => port \in s.named /\ env.sdk

\* Over the network a read may still fail.
Remote(s) == \E p \in FeedPorts : s.bound[p] \notin {"local", "live"}

\* An obligor of another tenant is refused as such, one nobody holds is not found.
Refusal(access) == IF access = "unknown" THEN "not_found" ELSE "forbidden"

Listable(s) == s.policy /\ Readable(s, "grade_registry")

\* build_review_service validates the policy, on every request.
Reviewable(s) ==
    /\ s.policy
    /\ \A p \in FeedPorts : Readable(s, p)
    /\ s.bound["audit"] # "onprem"

Items ==
    [key : {c.key : c \in Cases}, payload : [prose : SUBSET Tokens, located : SUBSET Identifiers]]

Item(t) ==
    [key |-> call[t].case.key, payload |-> Payload(RedactedAssessment(call[t].case.content))]

\* What the recording router does first: off, or to the bound router.
HandOff(s, t) ==
    IF ~s.routing THEN Tell(t, "off")
    ELSE Goto(t, IF HasOutbox(s) THEN "enqueue" ELSE "submit") /\ UNCHANGED answer

\* What a review is told whose as_of is no date: the route checks it, once its
\* router is bound; in a tool the parse raises.
Undated(q) == IF OwnContainer(q) THEN "error" ELSE "malformed"

\* The listing reads the registry; the review reads, evaluates, records, drafts.
Review(t) ==
    LET s == built[holds[t]]
        case == call[t].case
    IN
    /\ stage[t] = "review"
    /\ IF call[t].route = "obligors"
       THEN /\ \/ Listable(s) /\ Tell(t, "ok")
               \/ (~Listable(s) \/ Remote(s)) /\ Tell(t, "error")
            /\ UNCHANGED memo
       ELSE IF ~call[t].dated THEN Tell(t, Undated(call[t])) /\ UNCHANGED memo
       ELSE \/ (~Reviewable(s) \/ Remote(s)) /\ Tell(t, "error") /\ UNCHANGED memo
            \/ /\ Reviewable(s) /\ case.access # "own"
               /\ Tell(t, Refusal(case.access))
               /\ UNCHANGED memo
            \/ /\ Reviewable(s) /\ case.access = "own"
               /\ \E m \in DraftMemo(s, RedactedAssessment(case.content)) :
                     /\ memo' = [memo EXCEPT ![t] = m]
                     /\ IF m.state = "fault" THEN Tell(t, "error")
                        ELSE IF case.content.escalated THEN HandOff(s, t)
                        ELSE Tell(t, "not_required")
    /\ UNCHANGED <<host, shared, sinks, call, by, holds, box, ref, calls>>

\* LocalReviewRouter.route: enqueue, then count what is pending.
Enqueue(t) ==
    /\ stage[t] = "enqueue"
    /\ outboxes' = [outboxes EXCEPT ![box[t]] = Append(@, Item(t))]
    /\ Goto(t, "refer")
    /\ UNCHANGED <<host, shared, desk, work, said, calls>>

Refer(t) ==
    /\ stage[t] = "refer"
    /\ ref' = [ref EXCEPT ![t] = Len(outboxes[box[t]])]
    /\ Tell(t, "routed")
    /\ UNCHANGED <<host, shared, sinks, work, calls>>

\* Mutant: a hand-off that raised is taken for one that went through.
SubmitOptimistically(t) ==
    /\ stage[t] = "submit"
    /\ Tell(t, "routed")
    /\ \/ desk' = desk \cup {Item(t)}
       \/ UNCHANGED desk
    /\ UNCHANGED <<host, shared, outboxes, work, ref, calls>>

\* The managed router submits: taken, taken with the reply lost, or refused;
\* without a console, and on the exit profile, it raises.
Submit(t) ==
    LET s == built[holds[t]]
        canSubmit == /\ s.bound["review_router"] \in {"gcp", "client", "silent"}
                     /\ s.bound["review_router"] = "gcp" => "console" \in s.named
    IN
    /\ stage[t] = "submit"
    /\ \/ canSubmit /\ desk' = desk \cup {Item(t)} /\ \E a \in {"routed", "failed"} : Tell(t, a)
       \/ UNCHANGED desk /\ Tell(t, "failed")
    /\ UNCHANGED <<host, shared, outboxes, work, ref, calls>>

------------------------------------------------------------------------------

Init ==
    /\ deployed \in Deployments
    /\ edited = FALSE /\ drifted = FALSE /\ app = "down"
    /\ built = <<>> /\ cached = 0 /\ routers = <<>> /\ outboxes = <<>> /\ desk = {}
    /\ stage = [t \in Threads |-> "idle"]
    /\ call = [t \in Threads |-> CHOOSE q \in Requests : TRUE]
    /\ by = Nothing /\ holds = Nothing /\ box = Nothing
    /\ memo = [t \in Threads |-> NoMemo]
    /\ answer = [t \in Threads |-> "none"]
    /\ ref = Nothing
    /\ calls = 0

\* What a thread does about the call it has.
Serve(t) ==
    \/ LoadSettings(t) \/ Store(t) \/ Admit(t)
    \/ BindRouter(t) \/ KeepRouter(t) \/ Review(t)
    \/ Enqueue(t) \/ Refer(t) \/ Submit(t)

Next ==
    \/ Start \/ Restart \/ Edit
    \/ \E t \in Threads : (\E q \in Requests : Arrive(t, q)) \/ Serve(t)

Spec == Init /\ [][Next]_vars

\* Every remote call carries a deadline, so a thread that has a call goes on.
FairSpec == Spec /\ \A t \in Threads : WF_vars(Serve(t))

------------------------------------------------------------------------------
(* Properties.                                                             *)

\* The state is of its types.
TypeOK ==
    /\ deployed \in Deployments
    /\ edited \in BOOLEAN /\ drifted \in BOOLEAN
    /\ app \in {"down", "guarded", "open"}
    /\ built \in Seq(Settings)
    /\ cached \in 0..Len(built)
    /\ routers \in Seq(0..Len(outboxes)) /\ Len(routers) = Len(built)
    /\ outboxes \in Seq(Seq(Items))
    /\ desk \subseteq Items
    /\ stage \in [Threads -> Stages]
    /\ call \in [Threads -> Requests]
    /\ by \in [Threads -> 0..Len(built)] /\ holds \in [Threads -> 0..Len(built)]
    /\ box \in [Threads -> 0..Len(outboxes)]
    /\ memo \in [Threads -> Memos]
    /\ answer \in [Threads -> Answers]
    /\ ref \in [Threads -> Nat]
    /\ calls \in 0..MaxCalls

\* An end-user route answers only a caller whose assertion the bound adapter
\* verified, or one on the host itself, who under a deliberately chosen profile
\* is a persona: no order of imports, loads and races serves a stranger.  Two
\* ways out are the operator's: the demo opt-in, and a settings file edited
\* under a running process, whose guard was frozen before the edit.
WhoeverIsAnsweredWasAdmitted ==
    \A t \in Threads :
        (answer[t] \in Succeeded /\ call[t].route \in EndUserRoutes) =>
            \/ /\ DeclaredEndUserAuth(built[by[t]].bound["identity"]) = "verified"
               /\ call[t].credential = "assertion"
            \/ /\ PersonasServed(built[by[t]]) \/ built[by[t]].bound["identity"] = "silent"
               /\ call[t].peer = "loopback" \/ env.insecure \/ drifted

\* A caller who presented an assertion is asked for a better one only where
\* some caller could have been let in; a deployment that can authenticate
\* nobody says so (ports/identity.py).
NobodyIsBlamedForTheDeployment ==
    \A t \in Threads :
        /\ answer[t] = "unauthenticated" /\ call[t].route \in EndUserRoutes
        /\ call[t].credential \in {"assertion", "bad_assertion"}
        => \E c \in Credentials : "principal" \in Resolve(built[by[t]], c)

\* Under the managed profile with its own router, a hand-off never fails for want
\* of a console: the load that would have built such a container refused.
AFailedHandOffIsTheConsoles ==
    \A t \in Threads :
        answer[t] = "failed" =>
            LET s == built[holds[t]] IN
            (s.profile \in ManagedProfiles /\ s.bound["review_router"] = "gcp") =>
                "console" \in s.named

\* A caller told "routed" can find its proposal: on the console's desk, or in the
\* outbox of the router it was handed to, within the count its reference gives,
\* whatever other threads put in the same outbox meanwhile.
RoutedMeansHeld ==
    \A t \in Threads :
        answer[t] = "routed" =>
            IF box[t] = 0 THEN Item(t) \in desk
            ELSE /\ ref[t] \in 1..Len(outboxes[box[t]])
                 /\ \E n \in 1..ref[t] : outboxes[box[t]][n] = Item(t)

\* What is masked on the way out stays masked: a memo that is shown says no
\* identifier that the projection had taken out of the text, and no proposal on
\* its way to the console holds one of any jurisdiction in its prose.
NothingMaskedComesBack ==
    /\ \A t \in Threads :
          LET a == call[t].case.content IN
          memo[t].tokens \cap a.personal \cap Served \subseteq a.located
    /\ \A i \in DOMAIN outboxes : \A n \in DOMAIN outboxes[i] :
          outboxes[i][n].payload.prose \cap Identifiers = {}
    /\ \A item \in desk : item.payload.prose \cap Identifiers = {}

\* Where the shipped narrators are bound, rebound within their own posture
\* included, the model the pill names is the one that drafted the memo on screen.
ThePillNamesWhatAnswers ==
    \A t \in Threads :
        memo[t].state = "shown" =>
            LET s == built[holds[t]]
                narrator == s.bound["generation"]
            IN  \/ s.profile \in LaptopProfiles /\ narrator \in LaptopProfiles
                \/ s.profile \in ManagedProfiles /\ narrator = "gcp"
                => GeneratorModel(s) = AnsweredBy(narrator)

\* The guard frozen at the import and the container built at the first request
\* read the deployment separately, and agree: the guard stands down exactly when
\* the adapter that will authenticate callers verifies them under a chosen profile.
TheGuardAgreesWithTheAdapter ==
    (cached # 0 /\ ~drifted) =>
        (app = "open" <=> /\ built[cached].explicit
                          /\ DeclaredEndUserAuth(built[cached].bound["identity"]) = "verified")

\* Every call is answered, or the host restarts under it.
EveryCallIsAnswered == \A t \in Threads : stage[t] # "idle" ~> stage[t] = "idle"

\* config.py, the settings file and the runbook: a configuration that cannot work
\* refuses at boot.
BootsOnlyWhatServes ==
    (app # "down" /\ ~drifted) => (~Unloadable(env, file) /\ Load(env, file).policy)

\* The runbook: the offline outbox "is inspectable and flushes to the console",
\* so what a caller was told is queued is in the outbox the container keeps.
TheOutboxIsReachable ==
    \A t \in Threads :
        (answer[t] = "routed" /\ call[t].route = "review" /\ box[t] # 0) =>
            box[t] = routers[holds[t]]

===============================================================================
