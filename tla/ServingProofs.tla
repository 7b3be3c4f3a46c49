---------------------------- MODULE ServingProofs ----------------------------
(***************************************************************************)
(* Proofs about Serving for any threads, any deployments and any requests. *)
(* The inductive invariant has four parts beside the types: what a process *)
(* that was not edited under knows of its deployment, what a thread at     *)
(* each stage holds, who got past the identity adapter, and where the      *)
(* proposal of a thread past its hand-off is.                              *)
(***************************************************************************)
EXTENDS Serving, SequenceTheorems, TLAPS

\* A host that is down remembers nothing.
DownIsBlank ==
    app = "down" =>
        /\ built = <<>>
        /\ \A t \in Threads : stage[t] = "idle" /\ answer[t] = "none"

\* While the file is the one the process was imported on, every load of it made
\* the same settings, and the posture frozen at import is the file's.
LoadsAgree ==
    (app # "down" /\ ~drifted) =>
        /\ app = "open" <=> EndUserAuthenticated(env, file)
        /\ \A i \in 1..Len(built) : ~Unloadable(env, file) /\ built[i] = Load(env, file)

\* Whatever was loaded had what its controls need.
ControlsAreArmed ==
    \A i \in 1..Len(built) :
        (built[i].profile \in ManagedProfiles /\ built[i].routing) => "console" \in built[i].named

Working == {"bind", "keep", "review", "enqueue", "refer", "submit"}

\* At each stage, the container and the router a thread has.
Holding(t) ==
    /\ stage[t] \in Working \cup {"store", "admit"} => holds[t] # 0
    /\ answer[t] \in Completed => holds[t] # 0
    /\ stage[t] \in {"load", "store", "admit", "bind", "submit"} => box[t] = 0
    /\ stage[t] \in {"keep", "enqueue", "refer"} => box[t] # 0
    /\ stage[t] = "keep" => HasOutbox(built[holds[t]])
    /\ stage[t] = "review" => (box[t] # 0 <=> HasOutbox(built[holds[t]]))
    /\ stage[t] = "submit" \/ answer[t] = "failed" => built[holds[t]].routing
    /\ stage[t] # "idle" => answer[t] = "none"
    /\ stage[t] = "admit" => cached # 0

\* Past the identity adapter: the caller was let in, and on which ground.
Past(t) == stage[t] \in Working \/ answer[t] \in Succeeded

Admitted(t) ==
    LET s == built[by[t]] IN
    /\ by[t] # 0
    /\ \/ /\ DeclaredEndUserAuth(s.bound["identity"]) = "verified"
          /\ call[t].credential = "assertion"
       \/ /\ PersonasServed(s) \/ s.bound["identity"] = "silent"
          /\ call[t].peer = "loopback" \/ env.insecure \/ drifted

\* A caller from beyond the host is served only past the guard.
PassedTheGuard(t) ==
    /\ stage[t] # "idle" /\ call[t].peer # "loopback" => app = "open" \/ env.insecure
    /\ Past(t) /\ call[t].route \in EndUserRoutes => Admitted(t)

\* A proposal that was handed over is where it was put.
Handed(t) ==
    /\ stage[t] = "refer" => \E n \in 1..Len(outboxes[box[t]]) : outboxes[box[t]][n] = Item(t)
    /\ answer[t] = "routed" =>
          IF box[t] = 0 THEN Item(t) \in desk
          ELSE /\ ref[t] \in 1..Len(outboxes[box[t]])
               /\ \E n \in 1..ref[t] : outboxes[box[t]][n] = Item(t)

\* Who is blamed could have done better; who sees a memo has a container; what
\* the memo says is what its validation let through.
Excused(t) ==
    (/\ answer[t] = "unauthenticated" /\ call[t].route \in EndUserRoutes
     /\ call[t].credential \in {"assertion", "bad_assertion"})
    => by[t] # 0 /\ \E c \in Credentials : "principal" \in Resolve(built[by[t]], c)

Faithful(m, a) == m.tokens \cap a.personal \cap Served \subseteq a.located

MemoOK(t) ==
    /\ memo[t].state = "shown" => holds[t] # 0
    /\ Faithful(memo[t], call[t].case.content)

ThreadOK(t) == Holding(t) /\ PassedTheGuard(t) /\ Handed(t) /\ Excused(t) /\ MemoOK(t)

\* A proposal whose prose names nobody.
Clean(item) == item.payload.prose \cap Identifiers = {}

SinksAreClean ==
    /\ \A i \in 1..Len(outboxes) : \A n \in 1..Len(outboxes[i]) : Clean(outboxes[i][n])
    /\ \A item \in desk : Clean(item)

IInv ==
    /\ TypeOK /\ DownIsBlank /\ LoadsAgree /\ ControlsAreArmed /\ SinksAreClean
    /\ \A t \in Threads : ThreadOK(t)

------------------------------------------------------------------------------
(* The deployment and the memo.                                            *)

\* The file in force is one.
LEMMA FileIsAFile ==
    ASSUME TypeOK
    PROVE  env \in Environments /\ IsFile(file)
BY ServingAssumption DEF TypeOK, env, file

\* A load that does not raise makes settings, with a console where it must.
LEMMA LoadMakesSettings ==
    ASSUME NEW e \in Environments, NEW f, IsFile(f), ~Unloadable(e, f)
    PROVE  /\ Load(e, f) \in Settings
           /\ (Load(e, f).profile \in ManagedProfiles /\ Load(e, f).routing) =>
                 "console" \in Load(e, f).named
<1>1. /\ e.profile \in KnownProfiles \cup {"unset"}
      /\ e.routing \in RawSwitches /\ e.guardrail \in RawSwitches
  BY DEF Environments, Unloadable, ProfileRefused
<1>2. ResolveProfile(e.profile).profile \in KnownProfiles
  BY <1>1 DEF ResolveProfile, KnownProfiles
<1>3. ResolveProfile(e.profile).explicit \in BOOLEAN
  BY DEF ResolveProfile
<1>4. \A p \in Ports : Binding(f, p, ResolveProfile(e.profile).profile) \in Families
  BY <1>2 DEF IsFile, Binding, DefaultBinding, Families, KnownProfiles, LaptopProfiles
<1>5. Named(e, f) \in SUBSET References
  BY DEF Named, References
<1>6. Load(e, f) \in Settings
  BY <1>2, <1>3, <1>4, <1>5 DEF Load, Settings, SwitchOn, IsFile
<1>7. e.profile \in ManagedProfiles /\ SwitchOn(e.routing) => "console" \in Named(e, f)
  BY DEF Unloadable, ControlsRefused
<1>8. ResolveProfile(e.profile).profile \in ManagedProfiles => e.profile \in ManagedProfiles
  BY DEF ResolveProfile, ManagedProfiles
<1>9. QED
  BY <1>6, <1>7, <1>8 DEF Load

\* Whatever the screens and the narrator do, the memo is a memo, and one that
\* is shown says nothing that is masked in the text it was drafted from.
LEMMA DraftedMemoIsFaithful ==
    ASSUME NEW s \in Settings, NEW a \in Contents,
           NEW m \in DraftMemo(s, RedactedAssessment(a))
    PROVE  m \in Memos /\ Faithful(m, a)
<1> DEFINE b == RedactedAssessment(a)
<1>1. b \in Contents /\ b.personal = a.personal \ Served /\ b.figures = a.figures
      /\ b.located = a.located
  BY DEF Contents, RedactedAssessment
<1>2. ASSUME NEW d, IsDraft(d), Valid(d, b)
      PROVE  ShownAs(d) \in Memos /\ Faithful(ShownAs(d), a)
  <2>1. d.tokens \subseteq a.figures \cup (a.personal \ Served) \cup a.located
    BY <1>1, <1>2 DEF Valid, GroundingTokens
  <2>2. a.figures \cap Served = {}
    BY TokensAssumption DEF Contents, Identifiers
  <2>3. d.tokens \in SUBSET Tokens /\ d.grades \in SUBSET Grades
    BY <1>2 DEF IsDraft
  <2>4. QED
    BY <2>1, <2>2, <2>3 DEF ShownAs, Memos, MemoStates, Faithful
<1>3. \A x \in {NoMemo, Discarded, Fault} : x \in Memos /\ Faithful(x, a)
  BY DEF NoMemo, Discarded, Fault, Memos, MemoStates, Faithful
<1>4. ASSUME NEW d, IsDraft(d), NEW x \in AfterAnswer(s, b, d)
      PROVE  x \in Memos /\ Faithful(x, a)
  BY <1>2, <1>3, <1>4 DEF AfterAnswer, Refusals
<1>5. IsDraft(Restatement(b))
  BY <1>1 DEF Restatement, IsDraft, GroundingTokens, Contents, Tokens, DraftForms
<1>6. \A x \in Generated(s, b) : x \in Memos /\ Faithful(x, a)
  <2>1. s.bound["generation"] \in Families
    BY DEF Settings, Ports
  <2>2. CASE s.bound["generation"] = "local"
    <3>1. Generated(s, b) = AfterAnswer(s, b, Restatement(b))
      BY <2>2 DEF Generated
    <3>2. QED
      BY <3>1, <1>4, <1>5
  <2>3. CASE s.bound["generation"] = "onprem"
    <3>1. Generated(s, b) = {Discarded}
      BY <2>3 DEF Generated
    <3>2. QED
      BY <3>1, <1>3
  <2>4. CASE s.bound["generation"] \in {"live", "gcp", "client", "silent"}
    <3>1. Generated(s, b) = {Fault} \cup UNION {AfterAnswer(s, b, d) : d \in Drafts}
      BY <2>4 DEF Generated
    <3>2. QED
      BY <3>1, <1>3, <1>4, TokensAssumption
  <2>5. QED
    BY <2>1, <2>2, <2>3, <2>4 DEF Families, KnownProfiles
<1>7. QED
  BY <1>3, <1>6 DEF DraftMemo, Refusals

\* What a thread would hand over is a proposal, and its prose names nobody.
LEMMA ItemIsClean ==
    ASSUME TypeOK, NEW t \in Threads
    PROVE  Item(t) \in Items /\ Clean(Item(t))
<1> DEFINE a == call[t].case.content
           b == RedactedAssessment(a)
<1>1. call[t].case \in Cases /\ IsCase(call[t].case)
  BY ServingAssumption DEF TypeOK, IsRequest
<1>2. a \in Contents
  BY <1>1 DEF IsCase
<1>3. b.figures = a.figures /\ b.personal = a.personal \ Served /\ b.located = a.located
  BY <1>2 DEF RedactedAssessment, Contents
<1>4. /\ a.figures \in SUBSET Figures /\ a.personal \in SUBSET Identifiers
      /\ a.located \in SUBSET Identifiers
  BY <1>2 DEF Contents
<1>5. Payload(b).prose = a.figures /\ Payload(b).located = a.located
  BY <1>3, <1>4 DEF Payload
<1>6. Payload(b) \in [prose : SUBSET Tokens, located : SUBSET Identifiers]
  BY <1>3, <1>4 DEF Payload, Tokens
<1>7. Item(t).payload = Payload(b) /\ Item(t) \in Items
  BY <1>1, <1>6 DEF Item, Items
<1>8. QED
  BY <1>4, <1>5, <1>7, TokensAssumption DEF Clean

\* The content a thread's memo is drafted from.
LEMMA ContentIsOne ==
    ASSUME TypeOK, NEW t \in Threads
    PROVE  call[t].case.content \in Contents /\ call[t].route \in Routes
BY ServingAssumption DEF TypeOK, IsRequest, IsCase

------------------------------------------------------------------------------
(* What a step keeps.                                                      *)

\* A thread's step changes no other thread's records, nor the host's.
Untouched(u) ==
    /\ stage'[u] = stage[u] /\ call'[u] = call[u] /\ by'[u] = by[u]
    /\ holds'[u] = holds[u] /\ box'[u] = box[u] /\ memo'[u] = memo[u]
    /\ answer'[u] = answer[u] /\ ref'[u] = ref[u]

\* What is shared only grows.
Grown ==
    /\ Len(built) =< Len(built')
    /\ \A i \in 1..Len(built) : built'[i] = built[i]
    /\ cached # 0 => cached' # 0
    /\ Len(outboxes) =< Len(outboxes')
    /\ \A i \in 1..Len(outboxes) :
          /\ Len(outboxes[i]) =< Len(outboxes'[i])
          /\ \A n \in 1..Len(outboxes[i]) : outboxes'[i][n] = outboxes[i][n]
    /\ desk \subseteq desk'

\* The host is the one it was, or drifts further.
HostKept == deployed' = deployed /\ app' = app /\ (drifted => drifted')

\* The lengths the invariant counts with.
LengthsKnown ==
    /\ Len(built) \in Nat /\ DOMAIN built = 1..Len(built)
    /\ Len(outboxes) \in Nat /\ DOMAIN outboxes = 1..Len(outboxes)
    /\ \A i \in 1..Len(built) : built[i] \in Settings
    /\ \A i \in 1..Len(outboxes) :
          /\ outboxes[i] \in Seq(Items) /\ Len(outboxes[i]) \in Nat
          /\ DOMAIN outboxes[i] = 1..Len(outboxes[i])

LEMMA Lengths == TypeOK => LengthsKnown
<1> SUFFICES ASSUME TypeOK PROVE LengthsKnown
  OBVIOUS
<1>1. built \in Seq(Settings) /\ outboxes \in Seq(Seq(Items))
  BY DEF TypeOK
<1>2. /\ Len(built) \in Nat /\ DOMAIN built = 1..Len(built)
      /\ built \in [1..Len(built) -> Settings]
  BY <1>1, LenProperties
<1>3. /\ Len(outboxes) \in Nat /\ DOMAIN outboxes = 1..Len(outboxes)
      /\ outboxes \in [1..Len(outboxes) -> Seq(Items)]
  BY <1>1, LenProperties
<1>4. QED
  BY <1>2, <1>3, LenProperties DEF LengthsKnown

\* A thread that is left alone stays consistent while the rest grows.
LEMMA FrameKeeps ==
    ASSUME TypeOK, TypeOK', NEW u \in Threads, ThreadOK(u),
           Untouched(u), HostKept, Grown
    PROVE  ThreadOK(u)'
<1> USE DEF Untouched, HostKept, Grown
<1>1. /\ holds[u] \in 0..Len(built) /\ by[u] \in 0..Len(built)
      /\ box[u] \in 0..Len(outboxes)
  BY DEF TypeOK
<1>2. LengthsKnown /\ LengthsKnown'
  <2>1. LengthsKnown
    BY Lengths
  <2>2. LengthsKnown'
    BY Lengths, PTL
  <2>3. QED
    BY <2>1, <2>2
<1>3. holds[u] # 0 => built'[holds'[u]] = built[holds[u]]
  BY <1>1, <1>2 DEF LengthsKnown
<1>4. by[u] # 0 => built'[by'[u]] = built[by[u]]
  BY <1>1, <1>2 DEF LengthsKnown
<1>5. Item(u)' = Item(u) /\ env' = env
  BY DEF Item, env
<1>6. Holding(u)'
  BY <1>3 DEF ThreadOK, Holding, Working, Completed, HasOutbox
<1>7. PassedTheGuard(u)'
  BY <1>4, <1>5 DEF ThreadOK, PassedTheGuard, Past, Admitted, PersonasServed
<1>8. Handed(u)'
  <2>1. ASSUME box[u] # 0
        PROVE  /\ Len(outboxes[box[u]]) =< Len(outboxes'[box'[u]])
               /\ Len(outboxes[box[u]]) \in Nat /\ Len(outboxes'[box'[u]]) \in Nat
               /\ \A n \in 1..Len(outboxes[box[u]]) :
                     outboxes'[box'[u]][n] = outboxes[box[u]][n]
    BY <1>1, <1>2, <2>1 DEF LengthsKnown
  <2>2. stage[u] = "refer" => box[u] # 0
    BY DEF ThreadOK, Holding
  <2>3. ref[u] \in Nat /\ Handed(u)
    BY DEF TypeOK, ThreadOK
  <2>4. ASSUME NEW k \in Nat, box[u] # 0, k =< Len(outboxes[box[u]]),
               \E n \in 1..k : outboxes[box[u]][n] = Item(u)
        PROVE  /\ k =< Len(outboxes'[box'[u]])
               /\ \E n \in 1..k : outboxes'[box'[u]][n] = Item(u)'
    <3>1. PICK n \in 1..k : outboxes[box[u]][n] = Item(u)
      BY <2>4
    <3>2. n \in 1..Len(outboxes[box[u]]) /\ k =< Len(outboxes'[box'[u]])
      BY <2>1, <2>4
    <3>3. outboxes'[box'[u]][n] = Item(u)'
      BY <1>5, <2>1, <2>4, <3>1, <3>2
    <3>4. QED
      BY <3>2, <3>3
  <2>5. stage'[u] = "refer" => \E n \in 1..Len(outboxes'[box'[u]]) :
                                   outboxes'[box'[u]][n] = Item(u)'
    <3> SUFFICES ASSUME stage[u] = "refer"
                 PROVE  \E n \in 1..Len(outboxes'[box'[u]]) :
                            outboxes'[box'[u]][n] = Item(u)'
      OBVIOUS
    <3> DEFINE k == Len(outboxes[box[u]])
    <3>1. k \in Nat /\ k =< k /\ k =< Len(outboxes'[box'[u]])
          /\ Len(outboxes'[box'[u]]) \in Nat
      BY <2>1, <2>2
    <3>2. \E n \in 1..k : outboxes[box[u]][n] = Item(u)
      BY <2>3 DEF Handed
    <3>3. PICK n \in 1..k : outboxes'[box'[u]][n] = Item(u)'
      BY <2>2, <2>4, <3>1, <3>2
    <3>4. n \in 1..Len(outboxes'[box'[u]])
      BY <3>1
    <3>5. QED
      BY <3>3, <3>4
  <2>6. answer'[u] = "routed" =>
            IF box'[u] = 0 THEN Item(u)' \in desk'
            ELSE /\ ref'[u] \in 1..Len(outboxes'[box'[u]])
                 /\ \E n \in 1..ref'[u] : outboxes'[box'[u]][n] = Item(u)'
    <3>1. CASE box[u] = 0
      BY <1>5, <2>3, <3>1 DEF Handed
    <3>2. CASE box[u] # 0
      <4> SUFFICES ASSUME answer[u] = "routed"
                   PROVE  /\ ref[u] \in 1..Len(outboxes'[box'[u]])
                          /\ \E n \in 1..ref[u] : outboxes'[box'[u]][n] = Item(u)'
        BY <3>2
      <4>1. /\ ref[u] \in 1..Len(outboxes[box[u]])
            /\ \E n \in 1..ref[u] : outboxes[box[u]][n] = Item(u)
        BY <2>3, <3>2 DEF Handed
      <4>2. ref[u] =< Len(outboxes[box[u]])
        BY <4>1, <2>1, <3>2
      <4>3. /\ ref[u] =< Len(outboxes'[box'[u]])
            /\ \E n \in 1..ref[u] : outboxes'[box'[u]][n] = Item(u)'
        BY <2>3, <2>4, <3>2, <4>1, <4>2
      <4>4. QED
        BY <2>1, <3>2, <4>1, <4>3
    <3>3. QED
      BY <3>1, <3>2
  <2>7. QED
    BY <2>5, <2>6 DEF Handed
<1>9. Excused(u)'
  BY <1>4, <1>5 DEF ThreadOK, Excused, Resolve, env, PersonasServed
<1>10. MemoOK(u)'
  BY DEF ThreadOK, MemoOK, Faithful
<1>11. QED
  BY <1>6, <1>7, <1>8, <1>9, <1>10 DEF ThreadOK

------------------------------------------------------------------------------
(* What a thread does about its call.                                      *)

\* A thread's step is its own, on a host that stays.
LEMMA ServeIsLocal ==
    ASSUME TypeOK, NEW t \in Threads, Serve(t)
    PROVE  /\ \A u \in Threads \ {t} : Untouched(u)
           /\ HostKept /\ UNCHANGED host /\ stage[t] # "idle"
<1> USE DEF TypeOK, Untouched, HostKept, host, shared, sinks, work, said, Goto, Tell
<1>1. CASE LoadSettings(t)
  BY <1>1 DEF LoadSettings
<1>2. CASE Store(t)
  BY <1>2 DEF Store
<1>3. CASE Admit(t)
  BY <1>3 DEF Admit
<1>4. CASE BindRouter(t)
  BY <1>4 DEF BindRouter
<1>5. CASE KeepRouter(t)
  BY <1>5 DEF KeepRouter
<1>6. CASE Review(t)
  BY <1>6 DEF Review, HandOff
<1>7. CASE Enqueue(t)
  BY <1>7 DEF Enqueue
<1>8. CASE Refer(t)
  BY <1>8 DEF Refer
<1>9. CASE Submit(t)
  BY <1>9 DEF Submit
<1>10. QED
  BY <1>1, <1>2, <1>3, <1>4, <1>5, <1>6, <1>7, <1>8, <1>9 DEF Serve

\* Whatever an identity adapter answers is one of four.
LEMMA ResolveAnswers ==
    ASSUME NEW s \in Settings, NEW c
    PROVE  Resolve(s, c) \subseteq {"principal", "nobody_can", "unauthenticated"}
<1>1. s.bound["identity"] \in Families
  BY DEF Settings, Ports
<1>2. QED
  BY <1>1 DEF Resolve, Families, KnownProfiles

LEMMA ServeKeepsTypes ==
    ASSUME IInv, NEW t \in Threads, Serve(t)
    PROVE  TypeOK'
<1> USE DEF host, shared, sinks, work, said
<1>0. TypeOK /\ Holding(t) /\ LengthsKnown
  BY Lengths DEF IInv, ThreadOK
<1>1. CASE LoadSettings(t)
  <2>1. CASE Unloadable(env, file)
    BY <1>0, <1>1, <2>1 DEF LoadSettings, TypeOK, Goto, Tell, Stages, Answers
  <2>2. CASE ~Unloadable(env, file)
    <3>1. Load(env, file) \in Settings /\ 0 \in 0..Len(outboxes)
      BY <1>0, <2>2, FileIsAFile, LoadMakesSettings DEF LengthsKnown
    <3>2. /\ built' = Append(built, Load(env, file)) /\ routers' = Append(routers, 0)
          /\ holds' = [holds EXCEPT ![t] = Len(built) + 1]
          /\ cached' = cached /\ by' = by
      BY <1>1, <2>2 DEF LoadSettings
    <3>3. built' \in Seq(Settings) /\ Len(built') = Len(built) + 1
      <4>1. built \in Seq(Settings)
        BY <1>0 DEF TypeOK
      <4>2. QED
        BY <3>1, <3>2, <4>1, AppendProperties
    <3>4. routers' \in Seq(0..Len(outboxes)) /\ Len(routers') = Len(routers) + 1
      <4>1. routers \in Seq(0..Len(outboxes))
        BY <1>0 DEF TypeOK
      <4>2. QED
        BY <3>1, <3>2, <4>1, AppendProperties
    <3>5. /\ cached' \in 0..Len(built')
          /\ by' \in [Threads -> 0..Len(built')] /\ holds' \in [Threads -> 0..Len(built')]
      <4>1. /\ cached \in 0..Len(built) /\ Len(built) \in Nat
            /\ by \in [Threads -> 0..Len(built)] /\ holds \in [Threads -> 0..Len(built)]
        BY <1>0 DEF TypeOK, LengthsKnown
      <4>2. 0..Len(built) \subseteq 0..Len(built') /\ Len(built) + 1 \in 0..Len(built')
        BY <3>3, <4>1
      <4>3. QED
        BY <3>2, <4>1, <4>2
    <3>6. stage' \in [Threads -> Stages]
      BY <1>0, <1>1, <2>2 DEF LoadSettings, TypeOK, Goto, Stages
    <3>7. UNCHANGED <<host, outboxes, desk, call, box, memo, answer, ref, calls>>
      BY <1>1, <2>2 DEF LoadSettings
    <3>8. QED
      BY <1>0, <3>3, <3>4, <3>5, <3>6, <3>7 DEF TypeOK
  <2>3. QED
    BY <2>1, <2>2
<1>2. CASE Store(t)
  BY <1>0, <1>2 DEF Store, TypeOK, Goto, Stages
<1>3. CASE Admit(t)
  <2>1. holds[t] \in 1..Len(built)
    BY <1>0, <1>3 DEF Admit, TypeOK, Holding, LengthsKnown
  <2>2. Resolve(built[holds[t]], call[t].credential) \subseteq Answers \cup {"principal"}
    BY <1>0, <2>1, ResolveAnswers DEF LengthsKnown, Answers
  <2>3. Picker(built[holds[t]]) \in Answers
    BY DEF Picker, Answers
  <2>4. stage' \in [Threads -> Stages] /\ answer' \in [Threads -> Answers]
    <3>1. stage \in [Threads -> Stages] /\ answer \in [Threads -> Answers] /\ "ok" \in Answers
      BY <1>0 DEF TypeOK, Answers
    <3>2. \/ Goto(t, "bind") /\ UNCHANGED answer
          \/ \E a \in Answers : Tell(t, a)
      BY <1>3, <2>2, <2>3, <3>1 DEF Admit
    <3>3. QED
      BY <3>1, <3>2 DEF Goto, Tell, Stages
  <2>5. by' \in [Threads -> 0..Len(built)] /\ holds' \in [Threads -> 0..Len(built)]
    BY <1>0, <1>3 DEF Admit, TypeOK, Goto, Tell
  <2>6. QED
    BY <1>0, <1>3, <2>4, <2>5 DEF Admit, TypeOK
<1>4. CASE BindRouter(t)
  <2>0. holds[t] \in 1..Len(routers) /\ routers \in Seq(0..Len(outboxes))
    BY <1>0, <1>4 DEF BindRouter, TypeOK, Holding, Working, LengthsKnown
  <2>1. CASE UNCHANGED outboxes /\ Goto(t, "review")
             /\ (UNCHANGED box \/ box' = [box EXCEPT ![t] = routers[holds[t]]])
    <3>1. routers[holds[t]] \in 0..Len(outboxes)
      BY <2>0, ElementOfSeq
    <3>2. QED
      BY <1>0, <1>4, <2>1, <3>1 DEF BindRouter, TypeOK, Goto, Stages
  <2>2. CASE outboxes' = Append(outboxes, <<>>) /\ box' = [box EXCEPT ![t] = Len(outboxes) + 1]
             /\ Goto(t, "keep")
    <3>1. <<>> \in Seq(Items)
      BY EmptySeq
    <3>2. outboxes' \in Seq(Seq(Items)) /\ Len(outboxes') = Len(outboxes) + 1
      BY <1>0, <2>2, <3>1, AppendProperties DEF TypeOK
    <3>3. 0..Len(outboxes) \subseteq 0..Len(outboxes')
      BY <1>0, <3>2 DEF LengthsKnown
    <3>4. routers' \in Seq(0..Len(outboxes'))
      BY <1>0, <1>4, <3>3 DEF BindRouter, TypeOK
    <3>5. box' \in [Threads -> 0..Len(outboxes')] /\ stage' \in [Threads -> Stages]
      BY <1>0, <2>2, <3>2, <3>3 DEF TypeOK, Goto, Stages, LengthsKnown
    <3>6. QED
      BY <1>0, <1>4, <3>2, <3>4, <3>5 DEF BindRouter, TypeOK
  <2>3. QED
    BY <1>4, <2>1, <2>2 DEF BindRouter
<1>5. CASE KeepRouter(t)
  <2>1. holds[t] \in 1..Len(routers) /\ box[t] \in 0..Len(outboxes)
    BY <1>0, <1>5 DEF KeepRouter, TypeOK, Holding, Working, LengthsKnown
  <2>2. routers' \in Seq(0..Len(outboxes)) /\ Len(routers') = Len(routers)
    BY <1>0, <1>5, <2>1, ExceptSeq DEF KeepRouter, TypeOK
  <2>3. QED
    BY <1>0, <1>5, <2>2 DEF KeepRouter, TypeOK, Goto, Stages
<1>6. CASE Review(t)
  <2>1. holds[t] \in 1..Len(built) /\ built[holds[t]] \in Settings
    BY <1>0, <1>6 DEF Review, TypeOK, Holding, Working, LengthsKnown
  <2>2. DraftMemo(built[holds[t]], RedactedAssessment(call[t].case.content)) \subseteq Memos
    BY <1>0, <2>1, ContentIsOne, DraftedMemoIsFaithful
  <2>3. memo' \in [Threads -> Memos]
    BY <1>0, <1>6, <2>2 DEF Review, TypeOK
  <2>4. stage' \in [Threads -> Stages] /\ answer' \in [Threads -> Answers]
    <3>1. stage \in [Threads -> Stages] /\ answer \in [Threads -> Answers]
          /\ {"ok", "error", "off", "not_required", "not_found", "forbidden", "malformed"} \subseteq Answers
      BY <1>0 DEF TypeOK, Answers
    <3>2. \/ \E n \in {"enqueue", "submit"} : Goto(t, n) /\ UNCHANGED answer
          \/ \E a \in Answers : Tell(t, a)
      BY <1>6, <3>1 DEF Review, HandOff, Refusal, Undated
    <3>3. QED
      BY <3>1, <3>2 DEF Goto, Tell, Stages
  <2>5. QED
    BY <1>0, <1>6, <2>3, <2>4 DEF Review, TypeOK
<1>7. CASE Enqueue(t)
  <2>1. box[t] \in 1..Len(outboxes) /\ outboxes[box[t]] \in Seq(Items)
    BY <1>0, <1>7 DEF Enqueue, TypeOK, Holding, LengthsKnown
  <2>2. Append(outboxes[box[t]], Item(t)) \in Seq(Items)
    BY <1>0, <2>1, ItemIsClean, AppendProperties
  <2>3. outboxes' \in Seq(Seq(Items)) /\ Len(outboxes') = Len(outboxes)
    BY <1>0, <1>7, <2>1, <2>2, ExceptSeq DEF Enqueue, TypeOK
  <2>4. QED
    BY <1>0, <1>7, <2>3 DEF Enqueue, TypeOK, Goto, Stages
<1>8. CASE Refer(t)
  <2>1. Len(outboxes[box[t]]) \in Nat
    BY <1>0, <1>8 DEF Refer, TypeOK, Holding, LengthsKnown
  <2>2. QED
    BY <1>0, <1>8, <2>1 DEF Refer, TypeOK, Goto, Tell, Stages, Answers
<1>9. CASE Submit(t)
  <2>1. desk' \subseteq Items
    BY <1>0, <1>9, ItemIsClean DEF Submit, TypeOK
  <2>2. QED
    BY <1>0, <1>9, <2>1 DEF Submit, TypeOK, Goto, Tell, Stages, Answers
<1>10. QED
  BY <1>1, <1>2, <1>3, <1>4, <1>5, <1>6, <1>7, <1>8, <1>9 DEF Serve

\* What is shared grows, by clean proposals.
LEMMA ServeGrows ==
    ASSUME IInv, NEW t \in Threads, Serve(t)
    PROVE  Grown /\ SinksAreClean'
<1>0. TypeOK /\ Holding(t) /\ LengthsKnown /\ SinksAreClean
  BY Lengths DEF IInv, ThreadOK
<1>1. CASE UNCHANGED <<built, outboxes, desk>> /\ (cached # 0 => cached' # 0)
  BY <1>0, <1>1 DEF Grown, SinksAreClean, LengthsKnown
<1>2. CASE LoadSettings(t) /\ ~Unloadable(env, file)
  <2>1. built \in Seq(Settings) /\ Load(env, file) \in Settings
    BY <1>0, <1>2, FileIsAFile, LoadMakesSettings DEF TypeOK
  <2>2. built' = Append(built, Load(env, file)) /\ UNCHANGED <<cached, outboxes, desk>>
    BY <1>2 DEF LoadSettings, sinks
  <2>3. Len(built) =< Len(built') /\ \A i \in 1..Len(built) : built'[i] = built[i]
    BY <1>0, <2>1, <2>2, AppendProperties DEF LengthsKnown
  <2>4. QED
    BY <1>0, <2>2, <2>3 DEF Grown, SinksAreClean, LengthsKnown
<1>3. CASE BindRouter(t) /\ outboxes' = Append(outboxes, <<>>)
  <2>1. outboxes \in Seq(Seq(Items)) /\ <<>> \in Seq(Items) /\ Len(<<>>) = 0
    BY <1>0, EmptySeq DEF TypeOK
  <2>2. /\ Len(outboxes') = Len(outboxes) + 1
        /\ \A i \in 1..Len(outboxes) : outboxes'[i] = outboxes[i]
        /\ outboxes'[Len(outboxes) + 1] = <<>>
    BY <1>3, <2>1, AppendProperties
  <2>3. UNCHANGED <<built, cached, desk>>
    BY <1>3 DEF BindRouter, shared
  <2>4. Grown
    BY <1>0, <2>2, <2>3 DEF Grown, LengthsKnown
  <2>5. \A i \in 1..Len(outboxes') : i \in 1..Len(outboxes) \/ Len(outboxes'[i]) = 0
    BY <1>0, <2>1, <2>2 DEF LengthsKnown
  <2>6. SinksAreClean'
    BY <1>0, <2>2, <2>3, <2>5 DEF SinksAreClean, Clean
  <2>7. QED
    BY <2>4, <2>6
<1>4. CASE Enqueue(t)
  <2>1. box[t] \in 1..Len(outboxes) /\ outboxes[box[t]] \in Seq(Items)
    BY <1>0, <1>4 DEF Enqueue, TypeOK, Holding, LengthsKnown
  <2> DEFINE q == outboxes[box[t]]
             b == box[t]
  <2>2. /\ Len(Append(q, Item(t))) = Len(q) + 1
        /\ \A n \in 1..Len(q) : Append(q, Item(t))[n] = q[n]
        /\ Append(q, Item(t))[Len(q) + 1] = Item(t)
    BY <1>0, <2>1, ItemIsClean, AppendProperties
  <2>3. /\ outboxes' = [outboxes EXCEPT ![b] = Append(q, Item(t))]
        /\ UNCHANGED <<built, cached, desk>>
    BY <1>4 DEF Enqueue, shared
  <2>4. /\ Len(outboxes') = Len(outboxes)
        /\ outboxes'[b] = Append(q, Item(t))
        /\ \A i \in 1..Len(outboxes) : i # b => outboxes'[i] = outboxes[i]
    <3>1. outboxes \in Seq(Seq(Items)) /\ Append(q, Item(t)) \in Seq(Items)
      BY <1>0, <2>1, ItemIsClean, AppendProperties DEF TypeOK
    <3>2. QED
      BY <2>1, <2>3, <3>1, ExceptSeq
  <2>5. \A i \in 1..Len(outboxes) :
           /\ Len(outboxes[i]) =< Len(outboxes'[i])
           /\ \A n \in 1..Len(outboxes[i]) : outboxes'[i][n] = outboxes[i][n]
    <3>1. Len(q) \in Nat /\ \A i \in 1..Len(outboxes) : Len(outboxes[i]) \in Nat
      BY <1>0, <2>1 DEF LengthsKnown
    <3>2. Len(q) =< Len(outboxes'[b]) /\ \A n \in 1..Len(q) : outboxes'[b][n] = q[n]
      BY <2>2, <2>4, <3>1
    <3>3. ASSUME NEW i \in 1..Len(outboxes), i # b
          PROVE  /\ Len(outboxes[i]) =< Len(outboxes'[i])
                 /\ \A n \in 1..Len(outboxes[i]) : outboxes'[i][n] = outboxes[i][n]
      BY <2>4, <3>1, <3>3
    <3>4. QED
      BY <3>2, <3>3
  <2>6. Grown
    BY <1>0, <2>3, <2>4, <2>5 DEF Grown, LengthsKnown
  <2>7. \A n \in 1..Len(outboxes'[b]) : Clean(outboxes'[b][n])
    <3>1. \A n \in 1..Len(q) : Clean(q[n])
      BY <1>0, <2>1 DEF SinksAreClean
    <3>2. Len(q) \in Nat /\ Clean(Item(t))
      BY <1>0, <2>1, ItemIsClean DEF LengthsKnown
    <3>3. QED
      BY <2>2, <2>4, <3>1, <3>2
  <2>8. \A i \in 1..Len(outboxes') : i # b => outboxes'[i] = outboxes[i] /\ i \in 1..Len(outboxes)
    BY <2>4
  <2>9. SinksAreClean'
    BY <1>0, <2>3, <2>7, <2>8 DEF SinksAreClean, Clean
  <2>10. QED
    BY <2>6, <2>9
<1>5. CASE Submit(t)
  <2>1. desk \subseteq desk' /\ \A item \in desk' : Clean(item)
    BY <1>0, <1>5, ItemIsClean DEF Submit, SinksAreClean
  <2>2. UNCHANGED <<built, cached, outboxes>>
    BY <1>5 DEF Submit, shared
  <2>3. QED
    BY <1>0, <2>1, <2>2 DEF Grown, SinksAreClean, LengthsKnown, Clean
<1>6. QED
  <2>1. CASE LoadSettings(t)
    BY <1>1, <1>2, <2>1 DEF LoadSettings, sinks
  <2>2. CASE Store(t) \/ Admit(t) \/ KeepRouter(t) \/ Review(t) \/ Refer(t)
    <3>1. Store(t) => holds[t] # 0
      BY <1>0 DEF Store, Holding
    <3>2. QED
      BY <1>1, <2>2, <3>1 DEF Store, Admit, KeepRouter, Review, Refer, shared, sinks
  <2>3. CASE BindRouter(t)
    BY <1>1, <1>3, <2>3 DEF BindRouter, shared
  <2>4. QED
    BY <1>4, <1>5, <2>1, <2>2, <2>3 DEF Serve

\* Every load a process made before its file was edited made the same settings.
LEMMA ServeKeepsLoads ==
    ASSUME IInv, NEW t \in Threads, Serve(t)
    PROVE  DownIsBlank' /\ LoadsAgree' /\ ControlsAreArmed'
<1>0. /\ TypeOK /\ LengthsKnown /\ LoadsAgree /\ ControlsAreArmed
      /\ UNCHANGED host /\ app # "down"
  BY Lengths, ServeIsLocal DEF IInv, DownIsBlank
<1>1. env' = env /\ file' = file /\ app' = app /\ drifted' = drifted
  BY <1>0 DEF host, env, file
<1>2. DownIsBlank'
  BY <1>0, <1>1 DEF DownIsBlank
<1>3. \A i \in 1..Len(built') :
         \/ i \in 1..Len(built) /\ built'[i] = built[i]
         \/ built'[i] = Load(env, file) /\ ~Unloadable(env, file)
  <2>1. CASE UNCHANGED built
    BY <2>1
  <2>2. CASE LoadSettings(t) /\ ~Unloadable(env, file)
    <3>1. built \in Seq(Settings) /\ Load(env, file) \in Settings
      BY <1>0, <2>2, FileIsAFile, LoadMakesSettings DEF TypeOK
    <3>2. built' = Append(built, Load(env, file))
      BY <2>2 DEF LoadSettings
    <3>3. /\ Len(built') = Len(built) + 1
          /\ \A i \in 1..Len(built) : built'[i] = built[i]
          /\ built'[Len(built) + 1] = Load(env, file)
      BY <3>1, <3>2, AppendProperties
    <3>4. QED
      BY <1>0, <2>2, <3>3 DEF LengthsKnown
  <2>3. QED
    BY <2>1, <2>2 DEF Serve, LoadSettings, Store, Admit, BindRouter, KeepRouter, Review,
                      Enqueue, Refer, Submit, shared
<1>4. LoadsAgree'
  BY <1>0, <1>1, <1>3 DEF LoadsAgree
<1>5. ControlsAreArmed'
  BY <1>0, <1>3, FileIsAFile, LoadMakesSettings DEF ControlsAreArmed
<1>6. QED
  BY <1>2, <1>4, <1>5

------------------------------------------------------------------------------
(* Who is let in.                                                          *)

\* A principal is a verified assertion, a persona of a chosen laptop profile,
\* or whatever an adapter that claims nothing says.
LEMMA ResolveAdmits ==
    ASSUME NEW s \in Settings, NEW c, "principal" \in Resolve(s, c)
    PROVE  \/ DeclaredEndUserAuth(s.bound["identity"]) = "verified" /\ c = "assertion"
           \/ PersonasServed(s)
           \/ s.bound["identity"] = "silent"
<1>1. s.bound["identity"] \in Families
  BY DEF Settings, Ports
<1>2. QED
  BY <1>1 DEF Resolve, DeclaredEndUserAuth, Families, KnownProfiles

\* Where an assertion is refused, some credential would do.
LEMMA ResolveExcuses ==
    ASSUME NEW s \in Settings, NEW c \in {"assertion", "bad_assertion"},
           "unauthenticated" \in Resolve(s, c)
    PROVE  \E d \in Credentials : "principal" \in Resolve(s, d)
<1>1. s.bound["identity"] \in Families
  BY DEF Settings, Ports
<1>2. CASE s.bound["identity"] \in {"local", "live"}
  <2>1. "principal" \in Resolve(s, "persona")
    BY <1>2 DEF Resolve
  <2>2. QED
    BY <2>1 DEF Credentials
<1>3. CASE s.bound["identity"] = "gcp"
  <2>1. "principal" \in Resolve(s, "assertion")
    BY <1>3 DEF Resolve
  <2>2. QED
    BY <2>1 DEF Credentials
<1>4. CASE s.bound["identity"] = "client"
  <2>1. "principal" \in Resolve(s, "assertion")
    BY <1>4 DEF Resolve
  <2>2. QED
    BY <2>1 DEF Credentials
<1>5. CASE s.bound["identity"] \in {"onprem", "silent"}
  BY <1>5 DEF Resolve
<1>6. QED
  BY <1>1, <1>2, <1>3, <1>4, <1>5 DEF Families, KnownProfiles

\* Under an open guard, on the file it was opened for, every container verifies.
LEMMA OpenMeansVerified ==
    ASSUME IInv, app = "open", ~drifted, NEW i \in 1..Len(built)
    PROVE  DeclaredEndUserAuth(built[i].bound["identity"]) = "verified"
BY DEF IInv, LoadsAgree, EndUserAuthenticated, EndUserAuthKind

\* The guard of the network and the check of the caller leave nobody between.
LEMMA ResolvedIsAdmitted ==
    ASSUME IInv, NEW t \in Threads, stage[t] = "admit",
           "principal" \in Resolve(built[holds[t]], call[t].credential)
    PROVE  LET s == built[holds[t]] IN
           \/ /\ DeclaredEndUserAuth(s.bound["identity"]) = "verified"
              /\ call[t].credential = "assertion"
           \/ /\ PersonasServed(s) \/ s.bound["identity"] = "silent"
              /\ call[t].peer = "loopback" \/ env.insecure \/ drifted
<1> DEFINE s == built[holds[t]]
<1>1. holds[t] \in 1..Len(built) /\ s \in Settings
  BY Lengths DEF IInv, ThreadOK, Holding, TypeOK, LengthsKnown
<1>2. call[t].peer # "loopback" => app = "open" \/ env.insecure
  BY DEF IInv, ThreadOK, PassedTheGuard
<1>3. PersonasServed(s) \/ s.bound["identity"] = "silent" =>
          DeclaredEndUserAuth(s.bound["identity"]) # "verified"
  <2>1. CASE s.bound["identity"] \in {"local", "live", "silent"}
    BY <2>1 DEF DeclaredEndUserAuth
  <2>2. QED
    BY <2>1 DEF PersonasServed
<1>4. app = "open" /\ ~drifted => DeclaredEndUserAuth(s.bound["identity"]) = "verified"
  BY <1>1, OpenMeansVerified
<1>5. QED
  BY <1>1, <1>2, <1>3, <1>4, ResolveAdmits

------------------------------------------------------------------------------
(* A thread's own step leaves it consistent.                               *)

LEMMA LoadKeeps ==
    ASSUME IInv, NEW t \in Threads, LoadSettings(t)
    PROVE  ThreadOK(t)'
<1>0. /\ TypeOK /\ LengthsKnown /\ Holding(t) /\ PassedTheGuard(t) /\ MemoOK(t)
      /\ UNCHANGED <<host, call, by, box, memo, ref>>
  BY Lengths DEF IInv, ThreadOK, LoadSettings
<1>1. CASE Unloadable(env, file)
  <2>1. stage'[t] = "idle" /\ answer'[t] = "load_failed" /\ UNCHANGED holds
    BY <1>0, <1>1 DEF LoadSettings, Tell, Goto, TypeOK
  <2>2. QED
    BY <1>0, <2>1 DEF ThreadOK, Holding, PassedTheGuard, Past, Handed, Excused, MemoOK,
                      Faithful, Working, Completed, Succeeded
<1>2. CASE ~Unloadable(env, file)
  <2>1. /\ stage'[t] = (IF OwnContainer(call[t]) THEN "bind" ELSE "store")
        /\ UNCHANGED answer /\ answer[t] = "none"
        /\ holds'[t] = Len(built) + 1 /\ holds'[t] # 0 /\ box'[t] = 0
    BY <1>0, <1>2 DEF LoadSettings, Goto, TypeOK, Holding, LengthsKnown
  <2>2. OwnContainer(call[t]) => call[t].route \notin EndUserRoutes
    BY DEF OwnContainer, EndUserRoutes
  <2>3. env' = env /\ app' = app /\ stage[t] = "load"
    BY <1>0 DEF host, env, LoadSettings
  <2>4. QED
    BY <1>0, <2>1, <2>2, <2>3 DEF ThreadOK, Holding, PassedTheGuard, Past, Handed, Excused,
                                 MemoOK, Faithful, Working, Completed, Succeeded
<1>3. QED
  BY <1>1, <1>2

LEMMA StoreKeeps ==
    ASSUME IInv, NEW t \in Threads, Store(t)
    PROVE  ThreadOK(t)'
<1>0. /\ TypeOK /\ Holding(t) /\ PassedTheGuard(t) /\ MemoOK(t) /\ stage[t] = "store"
      /\ UNCHANGED <<host, built, call, by, holds, box, memo, answer, ref>>
  BY DEF IInv, ThreadOK, Store, work, said
<1>1. stage'[t] = "admit" /\ cached' # 0 /\ env' = env /\ app' = app
  BY <1>0 DEF Store, Goto, TypeOK, Holding, host, env
<1>2. QED
  BY <1>0, <1>1 DEF ThreadOK, Holding, PassedTheGuard, Past, Handed, Excused, MemoOK, Faithful,
                    Working, Completed, Succeeded

LEMMA AdmitKeeps ==
    ASSUME IInv, NEW t \in Threads, Admit(t)
    PROVE  ThreadOK(t)'
<1> DEFINE s == built[holds[t]]
<1>0. /\ TypeOK /\ LengthsKnown /\ Holding(t) /\ PassedTheGuard(t) /\ MemoOK(t)
      /\ stage[t] = "admit" /\ answer[t] = "none"
      /\ UNCHANGED <<host, built, cached, call, box, memo, ref>>
  BY Lengths DEF IInv, ThreadOK, Admit, Holding, shared
<1>1. /\ holds[t] \in 1..Len(built) /\ s \in Settings /\ cached # 0 /\ box[t] = 0
      /\ by'[t] = holds[t]
  BY <1>0 DEF Admit, Holding, TypeOK, LengthsKnown
<1>2. env' = env /\ app' = app /\ drifted' = drifted
  BY <1>0 DEF host, env
<1>3. CASE "principal" \in Resolve(s, call[t].credential) /\ Goto(t, "bind")
           /\ holds' = [holds EXCEPT ![t] = cached] /\ UNCHANGED answer
  <2>1. stage'[t] = "bind" /\ holds'[t] = cached /\ answer'[t] = "none"
    BY <1>0, <1>3 DEF TypeOK, Goto
  <2>2. Admitted(t)'
    BY <1>0, <1>1, <1>2, <1>3, ResolvedIsAdmitted DEF Admitted, PersonasServed
  <2>3. QED
    BY <1>0, <1>1, <1>2, <2>1, <2>2 DEF ThreadOK, Holding, PassedTheGuard, Past, Handed,
          Excused, MemoOK, Faithful, Working, Completed, Succeeded
<1>4. ASSUME NEW who \in Resolve(s, call[t].credential), who # "principal",
             Tell(t, who), UNCHANGED holds
      PROVE  ThreadOK(t)'
  <2>1. stage'[t] = "idle" /\ answer'[t] = who
    BY <1>0, <1>4 DEF TypeOK, Goto, Tell
  <2>2. who \in {"nobody_can", "unauthenticated"}
    BY <1>1, <1>4, ResolveAnswers
  <2>3. Excused(t)'
    <3> SUFFICES ASSUME who = "unauthenticated",
                        call[t].credential \in {"assertion", "bad_assertion"}
                 PROVE  \E d \in Credentials : ("principal" \in Resolve(built[by[t]], d))'
      BY <1>0, <1>1, <2>1 DEF Excused
    <3>1. PICK d \in Credentials : "principal" \in Resolve(s, d)
      BY <1>1, <1>4, ResolveExcuses
    <3>2. ("principal" \in Resolve(built[by[t]], d))'
      BY <1>0, <1>1, <1>2, <3>1 DEF Resolve, PersonasServed, env
    <3>3. QED
      BY <3>2
  <2>4. Holding(t)' /\ PassedTheGuard(t)' /\ Handed(t)' /\ MemoOK(t)'
    BY <1>0, <1>4, <2>1, <2>2 DEF Holding, PassedTheGuard, Past, Handed, MemoOK, Faithful,
          Working, Completed, Succeeded
  <2>5. QED
    BY <2>3, <2>4 DEF ThreadOK
<1>5. ASSUME call[t].route \notin EndUserRoutes, NEW a \in {"ok", "nobody_can"},
             Tell(t, a), UNCHANGED holds
      PROVE  ThreadOK(t)'
  <2>1. stage'[t] = "idle" /\ answer'[t] = a
    BY <1>0, <1>5 DEF TypeOK, Goto, Tell
  <2>2. QED
    BY <1>0, <1>1, <1>2, <1>5, <2>1 DEF ThreadOK, Holding, PassedTheGuard, Past, Handed,
          Excused, MemoOK, Faithful, Working, Completed
<1>6. QED
  <2>1. CASE call[t].route \in EndUserRoutes /\ \E who \in Resolve(s, call[t].credential) :
                \/ /\ who = "principal"
                   /\ Goto(t, "bind")
                   /\ holds' = [holds EXCEPT ![t] = cached]
                   /\ UNCHANGED answer
                \/ who # "principal" /\ Tell(t, who) /\ UNCHANGED holds
    BY <1>3, <1>4, <2>1
  <2>2. CASE call[t].route \in OpenRoutes /\ \E a \in {"ok", "nobody_can"} : Tell(t, a) /\ UNCHANGED holds
    BY <1>5, <2>2 DEF OpenRoutes, EndUserRoutes
  <2>3. QED
    BY <2>1, <2>2 DEF Admit, Picker, OpenRoutes

LEMMA RouterKeeps ==
    ASSUME IInv, NEW t \in Threads, BindRouter(t) \/ KeepRouter(t)
    PROVE  ThreadOK(t)'
<1>0. /\ TypeOK /\ LengthsKnown /\ Holding(t) /\ PassedTheGuard(t) /\ MemoOK(t)
      /\ UNCHANGED <<host, built, cached, call, by, holds, memo, answer, ref>>
      /\ stage[t] \in {"bind", "keep"}
  BY Lengths DEF IInv, ThreadOK, BindRouter, KeepRouter, shared, work, said
<1>1. env' = env /\ app' = app /\ drifted' = drifted
  BY <1>0 DEF host, env
<1>2. /\ stage'[t] \in {"keep", "review"}
      /\ stage'[t] = "keep" => box'[t] # 0 /\ HasOutbox(built[holds[t]])
      /\ stage'[t] = "review" => (box'[t] # 0 <=> HasOutbox(built[holds[t]]))
  <2>1. CASE BindRouter(t)
    BY <1>0, <2>1 DEF BindRouter, Goto, TypeOK, Holding, LengthsKnown
  <2>2. CASE KeepRouter(t)
    BY <1>0, <2>2 DEF KeepRouter, Goto, TypeOK, Holding, work
  <2>3. QED
    BY <2>1, <2>2
<1>3. QED
  BY <1>0, <1>1, <1>2 DEF ThreadOK, Holding, PassedTheGuard, Past, Admitted, PersonasServed, Handed,
        Excused, MemoOK, Faithful, HasOutbox, Working, Completed, Succeeded

LEMMA ReviewKeeps ==
    ASSUME IInv, NEW t \in Threads, Review(t)
    PROVE  ThreadOK(t)'
<1> DEFINE s == built[holds[t]]
           a == call[t].case.content
<1>0. /\ TypeOK /\ LengthsKnown /\ Holding(t) /\ PassedTheGuard(t) /\ MemoOK(t)
      /\ UNCHANGED <<host, built, cached, outboxes, desk, call, by, holds, box, ref>>
      /\ stage[t] = "review" /\ answer[t] = "none"
  BY Lengths DEF IInv, ThreadOK, Holding, Review, shared, sinks
<1>1. env' = env /\ app' = app /\ drifted' = drifted
  BY <1>0 DEF host, env
<1>2. holds[t] \in 1..Len(built) /\ s \in Settings
  BY <1>0 DEF Holding, Working, TypeOK, LengthsKnown
<1>3. MemoOK(t)'
  <2>1. \/ memo' = memo
        \/ \E m \in DraftMemo(s, RedactedAssessment(a)) : memo' = [memo EXCEPT ![t] = m]
    BY DEF Review
  <2>2. \A m \in DraftMemo(s, RedactedAssessment(a)) : Faithful(m, a)
    BY <1>0, <1>2, ContentIsOne, DraftedMemoIsFaithful
  <2>3. memo'[t] = memo[t] \/ Faithful(memo'[t], a)
    BY <1>0, <2>1, <2>2 DEF TypeOK
  <2>4. QED
    BY <1>0, <1>2, <2>3 DEF MemoOK, Faithful
<1>4. \/ /\ stage'[t] = "idle"
         /\ answer'[t] \in {"ok", "error", "off", "not_required", "not_found", "forbidden",
                           "malformed"}
      \/ stage'[t] = "enqueue" /\ HasOutbox(s) /\ answer'[t] = "none"
      \/ stage'[t] = "submit" /\ ~HasOutbox(s) /\ s.routing /\ answer'[t] = "none"
  <2>1. \/ Tell(t, "ok") \/ Tell(t, "error") \/ Tell(t, "not_required")
        \/ Tell(t, "forbidden") \/ Tell(t, "not_found") \/ Tell(t, "malformed")
        \/ HandOff(s, t)
    BY DEF Review, Refusal, Undated
  <2>2. QED
    BY <1>0, <2>1 DEF HandOff, Tell, Goto, TypeOK
<1>5. Holding(t)' /\ Handed(t)' /\ Excused(t)'
  BY <1>0, <1>1, <1>2, <1>4 DEF Holding, Handed, Excused, Working, Completed
<1>6. PassedTheGuard(t)'
  BY <1>0, <1>1, <1>4 DEF PassedTheGuard, Past, Admitted, PersonasServed, Working
<1>7. QED
  BY <1>3, <1>5, <1>6 DEF ThreadOK

LEMMA EnqueueKeeps ==
    ASSUME IInv, NEW t \in Threads, Enqueue(t)
    PROVE  ThreadOK(t)'
<1>0. /\ TypeOK /\ LengthsKnown /\ Holding(t) /\ PassedTheGuard(t) /\ MemoOK(t)
      /\ UNCHANGED <<host, built, cached, call, by, holds, box, memo, answer, ref>>
      /\ stage[t] = "enqueue" /\ answer[t] = "none"
  BY Lengths DEF IInv, ThreadOK, Holding, Enqueue, shared, work, said
<1>1. env' = env /\ app' = app /\ drifted' = drifted /\ stage'[t] = "refer"
      /\ Item(t)' = Item(t)
  BY <1>0 DEF host, env, Enqueue, Goto, TypeOK, Item
<1>2. Handed(t)'
  <2> DEFINE q == outboxes[box[t]]
  <2>1. box[t] \in 1..Len(outboxes) /\ q \in Seq(Items) /\ Len(q) \in Nat
    BY <1>0 DEF Holding, TypeOK, LengthsKnown
  <2>2. /\ Len(Append(q, Item(t))) = Len(q) + 1
        /\ Append(q, Item(t))[Len(q) + 1] = Item(t)
    BY <1>0, <2>1, ItemIsClean, AppendProperties
  <2>3. outboxes'[box[t]] = Append(q, Item(t))
    BY <1>0, <2>1 DEF Enqueue, LengthsKnown
  <2>4. Len(q) + 1 \in 1..Len(outboxes'[box'[t]])
    BY <1>0, <2>1, <2>2, <2>3
  <2>5. outboxes'[box'[t]][Len(q) + 1] = Item(t)'
    BY <1>0, <1>1, <2>2, <2>3
  <2>6. QED
    BY <1>0, <1>1, <2>4, <2>5 DEF Handed
<1>3. QED
  BY <1>0, <1>1, <1>2 DEF ThreadOK, Holding, PassedTheGuard, Past, Admitted, PersonasServed,
        Excused, MemoOK, Faithful, Working, Completed, Succeeded

LEMMA ReferKeeps ==
    ASSUME IInv, NEW t \in Threads, Refer(t)
    PROVE  ThreadOK(t)'
<1>0. /\ TypeOK /\ LengthsKnown /\ Holding(t) /\ PassedTheGuard(t) /\ Handed(t) /\ MemoOK(t)
      /\ UNCHANGED <<host, built, cached, outboxes, desk, call, by, holds, box, memo>>
      /\ stage[t] = "refer"
  BY Lengths DEF IInv, ThreadOK, Refer, shared, sinks, work
<1>1. /\ env' = env /\ app' = app /\ drifted' = drifted /\ Item(t)' = Item(t)
      /\ stage'[t] = "idle" /\ answer'[t] = "routed" /\ ref'[t] = Len(outboxes[box[t]])
  BY <1>0 DEF host, env, Refer, Tell, Goto, TypeOK, Item
<1>2. Handed(t)'
  <2>1. PICK n \in 1..Len(outboxes[box[t]]) : outboxes[box[t]][n] = Item(t)
    BY <1>0 DEF Handed
  <2>2. box[t] # 0 /\ Len(outboxes[box[t]]) \in Nat
    BY <1>0 DEF Holding, TypeOK, LengthsKnown
  <2>3. ref'[t] \in 1..Len(outboxes[box[t]]) /\ n \in 1..ref'[t]
    BY <1>1, <2>1, <2>2
  <2>4. QED
    BY <1>0, <1>1, <2>1, <2>2, <2>3 DEF Handed
<1>3. QED
  BY <1>0, <1>1, <1>2 DEF ThreadOK, Holding, PassedTheGuard, Past, Admitted, PersonasServed,
        Excused, MemoOK, Faithful, Working, Completed, Succeeded

LEMMA SubmitKeeps ==
    ASSUME IInv, NEW t \in Threads, Submit(t)
    PROVE  ThreadOK(t)'
<1>0. /\ TypeOK /\ Holding(t) /\ PassedTheGuard(t) /\ MemoOK(t)
      /\ UNCHANGED <<host, built, cached, outboxes, call, by, holds, box, memo, ref>>
      /\ stage[t] = "submit"
  BY DEF IInv, ThreadOK, Submit, shared, work
<1>1. /\ env' = env /\ app' = app /\ drifted' = drifted /\ Item(t)' = Item(t)
      /\ stage'[t] = "idle" /\ box[t] = 0
      /\ answer'[t] = "failed" \/ (answer'[t] = "routed" /\ Item(t) \in desk')
  BY <1>0 DEF host, env, Submit, Tell, Goto, TypeOK, Item, Holding
<1>2. Handed(t)'
  BY <1>0, <1>1 DEF Handed
<1>3. QED
  BY <1>0, <1>1, <1>2 DEF ThreadOK, Holding, PassedTheGuard, Past, Admitted, PersonasServed,
        Excused, MemoOK, Faithful, Working, Completed, Succeeded

LEMMA ServeStep ==
    ASSUME IInv, NEW t \in Threads, Serve(t)
    PROVE  IInv'
<1>1. TypeOK /\ TypeOK' /\ \A u \in Threads : ThreadOK(u)
  BY ServeKeepsTypes DEF IInv
<1>2. Grown /\ SinksAreClean' /\ HostKept /\ \A u \in Threads \ {t} : Untouched(u)
  BY <1>1, ServeGrows, ServeIsLocal
<1>3. DownIsBlank' /\ LoadsAgree' /\ ControlsAreArmed'
  BY ServeKeepsLoads
<1>4. ThreadOK(t)'
  BY LoadKeeps, StoreKeeps, AdmitKeeps, RouterKeeps, ReviewKeeps, EnqueueKeeps, ReferKeeps,
     SubmitKeeps DEF Serve
<1>5. \A u \in Threads \ {t} : ThreadOK(u)'
  BY <1>1, <1>2, FrameKeeps
<1>6. QED
  BY <1>1, <1>2, <1>3, <1>4, <1>5 DEF IInv

------------------------------------------------------------------------------
(* The host and the callers.                                               *)

LEMMA ArriveStep ==
    ASSUME IInv, NEW t \in Threads, NEW q \in Requests, Arrive(t, q)
    PROVE  IInv'
<1>0. /\ TypeOK /\ LengthsKnown
      /\ UNCHANGED <<host, built, cached, routers, outboxes, desk>>
      /\ stage[t] = "idle" /\ app # "down"
  BY Lengths DEF IInv, Arrive, Reaches, shared, sinks
<1>1. /\ call'[t] = q /\ by'[t] = 0 /\ box'[t] = 0 /\ memo'[t] = NoMemo
      /\ call' \in [Threads -> Requests] /\ by' \in [Threads -> 0..Len(built)]
      /\ box' \in [Threads -> 0..Len(outboxes)] /\ calls' \in 0..MaxCalls
  BY <1>0, ServingAssumption DEF Arrive, TypeOK, LengthsKnown
<1>2. memo' \in [Threads -> Memos] /\ ref' \in [Threads -> Nat]
  <2>1. NoMemo \in Memos
    BY DEF NoMemo, Memos, MemoStates
  <2>2. QED
    BY <1>0, <2>1 DEF Arrive, TypeOK
<1>3. /\ stage' \in [Threads -> Stages] /\ answer' \in [Threads -> Answers]
      /\ holds' \in [Threads -> 0..Len(built)]
      /\ \/ stage'[t] = "idle" /\ answer'[t] \in {"guarded", "ok", "unauthenticated", "unconfigured"}
            /\ (answer'[t] # "guarded" => q.route = "ping")
         \/ stage'[t] = "load" /\ answer'[t] = "none" /\ ~Guarded(q)
         \/ stage'[t] = "admit" /\ answer'[t] = "none" /\ ~Guarded(q)
            /\ cached # 0 /\ holds'[t] = cached
  <2>1. /\ stage \in [Threads -> Stages] /\ answer \in [Threads -> Answers]
        /\ holds \in [Threads -> 0..Len(built)] /\ cached \in 0..Len(built) /\ 0 \in 0..Len(built)
        /\ {"idle", "load", "admit"} \subseteq Stages
        /\ {"none", "guarded", "ok", "unauthenticated", "unconfigured"} \subseteq Answers
    BY <1>0 DEF TypeOK, LengthsKnown, Stages, Answers
  <2>2. ServiceAnswers(q) \subseteq {"ok", "unauthenticated", "unconfigured"}
    BY DEF ServiceAnswers
  <2>3. CASE Guarded(q)
    BY <2>1, <2>3 DEF Arrive, Tell, Goto
  <2>4. CASE ~Guarded(q) /\ q.route = "ping"
    <3>1. PICK a \in ServiceAnswers(q) : Tell(t, a)
      BY <2>4 DEF Arrive
    <3>2. holds' = [holds EXCEPT ![t] = 0] /\ a \in {"ok", "unauthenticated", "unconfigured"}
      BY <2>2, <2>4 DEF Arrive
    <3>3. QED
      BY <1>0, <2>1, <2>4, <3>1, <3>2 DEF Tell, Goto
  <2>5. CASE ~Guarded(q) /\ q.route # "ping"
    BY <2>1, <2>5 DEF Arrive, Goto
  <2>6. QED
    BY <2>3, <2>4, <2>5
<1>4. TypeOK'
  BY <1>0, <1>1, <1>2, <1>3 DEF TypeOK, host
<1>5. env' = env /\ file' = file /\ app' = app /\ drifted' = drifted
  BY <1>0 DEF host, env, file
<1>6. DownIsBlank' /\ LoadsAgree' /\ ControlsAreArmed' /\ SinksAreClean'
  BY <1>0, <1>5 DEF IInv, DownIsBlank, LoadsAgree, ControlsAreArmed, SinksAreClean, Clean
<1>7. ThreadOK(t)'
  <2>1. q.peer # "loopback" /\ ~Guarded(q) => app = "open" \/ env.insecure
    BY <1>0 DEF Guarded, TypeOK
  <2>2. "ping" \notin EndUserRoutes
    BY DEF EndUserRoutes
  <2>3. MemoOK(t)'
    BY <1>1 DEF MemoOK, Faithful, NoMemo
  <2>4. Holding(t)' /\ Handed(t)'
    BY <1>0, <1>1, <1>3 DEF Holding, Handed, Working, Completed
  <2>5. PassedTheGuard(t)' /\ Excused(t)'
    BY <1>1, <1>3, <1>5, <2>1, <2>2 DEF PassedTheGuard, Past, Excused, Working, Succeeded, Completed
  <2>6. QED
    BY <2>3, <2>4, <2>5 DEF ThreadOK
<1>8. \A u \in Threads \ {t} : ThreadOK(u)'
  <2>1. \A u \in Threads \ {t} : Untouched(u)
    BY <1>0 DEF Arrive, Tell, Goto, TypeOK, Untouched
  <2>2. Grown /\ HostKept
    BY <1>0 DEF Grown, HostKept, host, LengthsKnown
  <2>3. QED
    BY <1>0, <1>4, <2>1, <2>2, FrameKeeps DEF IInv
<1>9. QED
  BY <1>4, <1>6, <1>7, <1>8 DEF IInv

LEMMA RestartStep ==
    ASSUME IInv, Restart
    PROVE  IInv'
<1>1. TypeOK /\ UNCHANGED <<deployed, edited, drifted, call, desk, calls>>
  BY DEF IInv, Restart, Blank
<1>2. /\ built' = <<>> /\ routers' = <<>> /\ outboxes' = <<>> /\ cached' = 0
      /\ Len(built') = 0 /\ Len(routers') = 0 /\ Len(outboxes') = 0
      /\ built' \in Seq(Settings) /\ routers' \in Seq(0..Len(outboxes'))
      /\ outboxes' \in Seq(Seq(Items))
  BY EmptySeq DEF Restart, Blank
<1>3. /\ stage' \in [Threads -> Stages] /\ answer' \in [Threads -> Answers]
      /\ by' \in [Threads -> 0..0] /\ holds' \in [Threads -> 0..0] /\ box' \in [Threads -> 0..0]
      /\ memo' \in [Threads -> Memos] /\ ref' \in [Threads -> Nat] /\ app' = "down"
  BY DEF Restart, Blank, Nothing, NoMemo, Memos, MemoStates, Stages, Answers
<1>4. TypeOK'
  BY <1>1, <1>2, <1>3 DEF TypeOK
<1>5. \A t \in Threads : stage'[t] = "idle" /\ answer'[t] = "none" /\ memo'[t] = NoMemo
  BY DEF Restart, Blank
<1>6. DownIsBlank' /\ LoadsAgree' /\ ControlsAreArmed' /\ SinksAreClean'
  BY <1>1, <1>2, <1>3, <1>5
     DEF IInv, DownIsBlank, LoadsAgree, ControlsAreArmed, SinksAreClean, Clean
<1>7. ASSUME NEW t \in Threads
      PROVE  ThreadOK(t)'
  BY <1>5 DEF ThreadOK, Holding, PassedTheGuard, Past, Handed, Excused, MemoOK, Faithful, NoMemo,
     Working, Completed, Succeeded
<1>8. QED
  BY <1>4, <1>6, <1>7 DEF IInv

LEMMA StartStep ==
    ASSUME IInv, Start
    PROVE  IInv'
<1> USE DEF shared, sinks, work, said
<1>1. /\ TypeOK /\ app = "down" /\ DownIsBlank /\ app' # "down" /\ drifted' = FALSE
      /\ UNCHANGED <<deployed, edited, shared, sinks, stage, work, said, calls>>
      /\ app' \in {"guarded", "open"} /\ (app' = "open" <=> EndUserAuthenticated(env, file))
  BY DEF IInv, Start
<1>2. TypeOK'
  BY <1>1 DEF TypeOK
<1>3. env' = env /\ file' = file /\ Len(built') = 0
  BY <1>1, EmptySeq DEF env, file, DownIsBlank
<1>4. DownIsBlank' /\ LoadsAgree' /\ ControlsAreArmed' /\ SinksAreClean'
  BY <1>1, <1>3 DEF IInv, DownIsBlank, LoadsAgree, ControlsAreArmed, SinksAreClean, Clean
<1>5. ASSUME NEW t \in Threads
      PROVE  ThreadOK(t)'
  BY <1>1 DEF IInv, DownIsBlank, ThreadOK, Holding, PassedTheGuard, Past, Handed, Excused, MemoOK,
     Faithful, Working, Completed, Succeeded
<1>6. QED
  BY <1>2, <1>4, <1>5 DEF IInv

LEMMA EditStep ==
    ASSUME IInv, Edit
    PROVE  IInv'
<1> USE DEF shared, sinks, work, said
<1>1. /\ TypeOK /\ LengthsKnown /\ edited' = TRUE /\ drifted' = (app # "down")
      /\ UNCHANGED <<deployed, app, shared, sinks, stage, work, said, calls>>
  BY Lengths DEF IInv, Edit
<1>2. TypeOK'
  BY <1>1 DEF TypeOK
<1>3. DownIsBlank' /\ LoadsAgree' /\ ControlsAreArmed' /\ SinksAreClean'
  BY <1>1 DEF IInv, DownIsBlank, LoadsAgree, ControlsAreArmed, SinksAreClean, Clean
<1>4. ASSUME NEW t \in Threads
      PROVE  ThreadOK(t)'
  <2>1. CASE app = "down"
    BY <1>1, <2>1 DEF IInv, DownIsBlank, ThreadOK, Holding, PassedTheGuard, Past, Handed, Excused,
       MemoOK, Faithful, Working, Completed, Succeeded
  <2>2. CASE app # "down"
    <3>1. drifted'
      BY <1>1, <2>2
    <3>2. Untouched(t) /\ HostKept
      BY <1>1, <3>1 DEF Untouched, HostKept
    <3>3. Grown
      BY <1>1 DEF Grown, LengthsKnown
    <3>4. QED
      BY <1>1, <1>2, <3>2, <3>3, FrameKeeps DEF IInv
  <2>3. QED
    BY <2>1, <2>2
<1>5. QED
  BY <1>2, <1>3, <1>4 DEF IInv

LEMMA InitIInv ==
    ASSUME Init
    PROVE  IInv
<1>1. /\ Len(built) = 0 /\ Len(routers) = 0 /\ Len(outboxes) = 0
      /\ built \in Seq(Settings) /\ routers \in Seq(0..Len(outboxes))
      /\ outboxes \in Seq(Seq(Items))
  BY EmptySeq DEF Init
<1>2. (CHOOSE q \in Requests : TRUE) \in Requests
  BY ServingAssumption
<1>3. /\ by \in [Threads -> 0..0] /\ holds \in [Threads -> 0..0] /\ box \in [Threads -> 0..0]
      /\ memo \in [Threads -> Memos] /\ ref \in [Threads -> Nat]
      /\ stage \in [Threads -> Stages] /\ answer \in [Threads -> Answers]
      /\ call \in [Threads -> Requests]
  BY <1>2 DEF Init, Nothing, NoMemo, Memos, MemoStates, Stages, Answers
<1>4. TypeOK
  <2>1. /\ deployed \in Deployments /\ edited = FALSE /\ drifted = FALSE /\ app = "down"
        /\ cached = 0 /\ desk = {} /\ calls = 0
    BY DEF Init
  <2>2. calls \in 0..MaxCalls
    BY <2>1, ServingAssumption
  <2>3. /\ edited \in BOOLEAN /\ drifted \in BOOLEAN /\ app \in {"down", "guarded", "open"}
        /\ desk \subseteq Items
    BY <2>1
  <2>4. Len(routers) = Len(built)
    BY <1>1
  <2>5. cached \in 0..Len(built)
    BY <1>1, <2>1
  <2>6. /\ by \in [Threads -> 0..Len(built)] /\ holds \in [Threads -> 0..Len(built)]
        /\ box \in [Threads -> 0..Len(outboxes)]
    BY <1>1, <1>3
  <2>7. QED
    BY <1>1, <1>3, <2>1, <2>2, <2>3, <2>4, <2>5, <2>6 DEF TypeOK
<1>5. ASSUME NEW t \in Threads
      PROVE  ThreadOK(t)
  BY DEF Init, ThreadOK, Holding, PassedTheGuard, Past, Handed, Excused, MemoOK, Faithful, NoMemo,
     Working, Completed, Succeeded
<1>6. DownIsBlank /\ LoadsAgree /\ ControlsAreArmed /\ SinksAreClean
  BY <1>1 DEF Init, DownIsBlank, LoadsAgree, ControlsAreArmed, SinksAreClean
<1>7. QED
  BY <1>4, <1>5, <1>6 DEF IInv

LEMMA NextIInv ==
    ASSUME IInv, [Next]_vars
    PROVE  IInv'
<1>1. CASE UNCHANGED vars
  <2> USE DEF vars, host, shared, sinks, work, said
  <2>1. TypeOK /\ TypeOK' /\ LengthsKnown
    BY <1>1, Lengths DEF IInv, TypeOK
  <2>2. DownIsBlank' /\ LoadsAgree' /\ ControlsAreArmed' /\ SinksAreClean'
    BY <1>1 DEF IInv, DownIsBlank, LoadsAgree, ControlsAreArmed, SinksAreClean, Clean, env, file
  <2>3. Grown /\ HostKept /\ \A t \in Threads : Untouched(t)
    BY <1>1, <2>1 DEF Grown, HostKept, Untouched, LengthsKnown
  <2>4. \A t \in Threads : ThreadOK(t)'
    BY <2>1, <2>3, FrameKeeps DEF IInv
  <2>5. QED
    BY <2>1, <2>2, <2>4 DEF IInv
<1>2. ASSUME NEW t \in Threads, (\E q \in Requests : Arrive(t, q)) \/ Serve(t)
      PROVE  IInv'
  BY <1>2, ArriveStep, ServeStep
<1>3. QED
  BY <1>1, <1>2, StartStep, RestartStep, EditStep DEF Next

------------------------------------------------------------------------------
(* The promises of the service.                                            *)

\* What a process knows of its deployment, and what each of its threads holds,
\* agree at every step.
THEOREM ServingIsConsistent == Spec => []IInv
<1>1. IInv /\ [Next]_vars => IInv'
  BY NextIInv
<1>2. QED
  BY <1>1, InitIInv, PTL DEF Spec

\* The state of the service is of its types.
THEOREM ServingTypes == Spec => []TypeOK
<1>1. IInv => TypeOK
  BY DEF IInv
<1>2. QED
  BY <1>1, ServingIsConsistent, PTL

\* The guard frozen at the import (api/app.py) and the adapter of the cached
\* container (config.py) agree on who authenticates end users.
THEOREM GuardAgrees == Spec => []TheGuardAgreesWithTheAdapter
<1>1. IInv => TheGuardAgreesWithTheAdapter
  <2> SUFFICES ASSUME IInv, cached # 0, ~drifted
               PROVE  app = "open" <=> /\ built[cached].explicit
                                       /\ DeclaredEndUserAuth(built[cached].bound["identity"])
                                              = "verified"
    BY DEF TheGuardAgreesWithTheAdapter
  <2>1. cached \in 1..Len(built) /\ built # <<>>
    BY Lengths, EmptySeq DEF IInv, TypeOK, LengthsKnown
  <2>2. app # "down"
    BY <2>1 DEF IInv, DownIsBlank
  <2>3. /\ app = "open" <=> EndUserAuthenticated(env, file)
        /\ ~Unloadable(env, file) /\ built[cached] = Load(env, file)
    BY <2>1, <2>2 DEF IInv, LoadsAgree
  <2>4. Load(env, file).explicit <=> ResolveProfile(env.profile).explicit
    BY DEF Load
  <2>5. QED
    BY <2>3, <2>4 DEF EndUserAuthenticated, EndUserAuthKind
<1>2. QED
  BY <1>1, ServingIsConsistent, PTL

\* No order of imports, loads and races serves a stranger (require_end_user).
THEOREM AnsweredIsAdmitted == Spec => []WhoeverIsAnsweredWasAdmitted
<1>1. IInv => WhoeverIsAnsweredWasAdmitted
  BY DEF IInv, ThreadOK, PassedTheGuard, Past, Admitted, WhoeverIsAnsweredWasAdmitted
<1>2. QED
  BY <1>1, ServingIsConsistent, PTL

\* A caller is asked for a better assertion only where one would do.
THEOREM NobodyIsBlamed == Spec => []NobodyIsBlamedForTheDeployment
<1>1. IInv => NobodyIsBlamedForTheDeployment
  BY DEF IInv, ThreadOK, Excused, NobodyIsBlamedForTheDeployment
<1>2. QED
  BY <1>1, ServingIsConsistent, PTL

\* No container of the managed profile routes without a console (config.py).
THEOREM FailedHandOffs == Spec => []AFailedHandOffIsTheConsoles
<1>1. IInv => AFailedHandOffIsTheConsoles
  <2> SUFFICES ASSUME IInv, NEW t \in Threads, answer[t] = "failed"
               PROVE  built[holds[t]].profile \in ManagedProfiles =>
                          "console" \in built[holds[t]].named
    BY DEF AFailedHandOffIsTheConsoles
  <2>1. built[holds[t]].routing /\ holds[t] \in 1..Len(built)
    BY Lengths DEF IInv, ThreadOK, Holding, Completed, TypeOK, LengthsKnown
  <2>2. QED
    BY <2>1 DEF IInv, ControlsAreArmed
<1>2. QED
  BY <1>1, ServingIsConsistent, PTL

\* What a caller was told is routed is where its reference says, whatever other
\* threads enqueue (LocalReviewRouter.route).
THEOREM RoutedIsHeld == Spec => []RoutedMeansHeld
<1>1. IInv => RoutedMeansHeld
  BY DEF IInv, ThreadOK, Handed, RoutedMeansHeld
<1>2. QED
  BY <1>1, ServingIsConsistent, PTL

\* Masking, grounding and the console's payload agree for every set of tokens
\* and every model (redaction.py, narration.py, _review_payload.py).
THEOREM MaskingHolds == Spec => []NothingMaskedComesBack
<1>1. IInv => NothingMaskedComesBack
  BY Lengths
     DEF IInv, LengthsKnown, ThreadOK, MemoOK, Faithful, SinksAreClean, Clean,
         NothingMaskedComesBack
<1>2. QED
  BY <1>1, ServingIsConsistent, PTL

\* The pill and the narrator name one model, for every binding of the shipped ones.
THEOREM PillIsHonest == Spec => []ThePillNamesWhatAnswers
<1>1. IInv => ThePillNamesWhatAnswers
  BY DEF ThePillNamesWhatAnswers, GeneratorModel, AnsweredBy, ConfiguredLocalModel, DeclaredModel,
         LaptopProfiles, ManagedProfiles
<1>2. QED
  BY <1>1, ServingIsConsistent, PTL


------------------------------------------------------------------------------
(* The offline outbox, where no two calls overlap.                         *)

\* Requests are served one at a time.
OneAtATime == \A t, u \in Threads : t = u

\* The router a thread has is the one its container keeps.
Kept(t) ==
    stage[t] # "keep" /\ box[t] # 0 => holds[t] # 0 /\ box[t] = routers[holds[t]]

LEMMA ServeKeepsRouters ==
    ASSUME OneAtATime, IInv, NEW t \in Threads, Kept(t), Serve(t)
    PROVE  Kept(t)'
<1>1. /\ stage \in [Threads -> Stages] /\ box \in [Threads -> 0..Len(outboxes)]
      /\ holds \in [Threads -> 0..Len(built)] /\ Holding(t)
  BY DEF IInv, TypeOK, ThreadOK
<1> USE <1>1 DEF Kept, Goto, Tell, host, shared, sinks, work, said
<1>2. CASE stage[t] \in {"load", "store", "admit"}
  <2>1. box'[t] = 0
    BY <1>2 DEF Holding, Serve, LoadSettings, Store, Admit, BindRouter, KeepRouter,
                Review, Enqueue, Refer, Submit
  <2>2. QED
    BY <2>1
<1>3. CASE BindRouter(t)
  <2>1. holds[t] # 0 /\ box[t] = 0
    BY <1>3 DEF BindRouter, Holding, Working
  <2>2. UNCHANGED <<holds, routers>>
    BY <1>3 DEF BindRouter
  <2>3. \/ box'[t] = 0
        \/ box'[t] = routers[holds[t]]
        \/ stage'[t] = "keep"
    BY <1>3, <2>1 DEF BindRouter
  <2>4. QED
    BY <2>1, <2>2, <2>3
<1>4. CASE KeepRouter(t)
  <2>1. holds[t] \in 1..Len(routers) /\ routers \in Seq(0..Len(outboxes))
    BY <1>4, Lengths DEF KeepRouter, Holding, Working, IInv, TypeOK, LengthsKnown
  <2>2. DOMAIN routers = 1..Len(routers)
    BY <2>1, LenProperties
  <2>3. routers'[holds[t]] = box[t] /\ UNCHANGED <<holds, box>>
    BY <1>4, <2>1, <2>2 DEF KeepRouter
  <2>4. QED
    BY <2>1, <2>3
<1>5. CASE stage[t] \in {"review", "enqueue", "refer", "submit"}
  <2>1. UNCHANGED <<holds, box, routers>>
    BY <1>5 DEF Serve, LoadSettings, Store, Admit, BindRouter, KeepRouter,
                Review, HandOff, Enqueue, Refer, Submit
  <2>2. QED
    BY <1>5, <2>1
<1>6. stage[t] \in {"load", "store", "admit"} \/ BindRouter(t) \/ KeepRouter(t)
        \/ stage[t] \in {"review", "enqueue", "refer", "submit"}
  BY DEF Serve, LoadSettings, Store, Admit, Review, Enqueue, Refer, Submit
<1>7. QED
  BY <1>2, <1>3, <1>4, <1>5, <1>6

LEMMA RoutersAreKept ==
    ASSUME OneAtATime, IInv, \A t \in Threads : Kept(t), [Next]_vars
    PROVE  \A t \in Threads : Kept(t)'
<1>1. CASE Start \/ Edit \/ UNCHANGED vars
  BY <1>1 DEF Start, Edit, Kept, vars, host, shared, sinks, work, said
<1>2. CASE Restart
  BY <1>2 DEF Restart, Blank, Nothing, Kept
<1>3. ASSUME NEW t \in Threads, NEW q \in Requests, Arrive(t, q)
      PROVE  \A u \in Threads : Kept(u)'
  BY <1>3 DEF Arrive, OneAtATime, IInv, TypeOK, Kept
<1>4. ASSUME NEW t \in Threads, Serve(t)
      PROVE  \A u \in Threads : Kept(u)'
  BY <1>4, ServeKeepsRouters DEF OneAtATime
<1>5. QED
  BY <1>1, <1>2, <1>3, <1>4 DEF Next

\* The lock that Container.review_router does not take is all it lacks: where
\* requests are served one at a time, what was queued is in the outbox the
\* container keeps, across failed loads, edits of the file and restarts.
THEOREM OneAtATimeNothingIsLost ==
    ASSUME OneAtATime
    PROVE  Spec => []TheOutboxIsReachable
<1> DEFINE I == \A t \in Threads : Kept(t)
<1>1. Init => I
  BY DEF Init, Nothing, Kept
<1>2. IInv /\ I /\ [Next]_vars => I'
  BY RoutersAreKept
<1>3. IInv /\ I => TheOutboxIsReachable
  <2> SUFFICES ASSUME IInv, I, NEW t \in Threads, answer[t] = "routed", box[t] # 0
               PROVE  box[t] = routers[holds[t]]
    BY DEF TheOutboxIsReachable
  <2>1. stage[t] # "keep"
    BY DEF IInv, ThreadOK, Holding
  <2>2. QED
    BY <2>1 DEF Kept
<1>4. QED
  BY <1>1, <1>2, <1>3, ServingIsConsistent, PTL DEF Spec
==============================================================================
