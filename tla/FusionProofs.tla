----------------------------- MODULE FusionProofs ----------------------------
(***************************************************************************)
(* What the fused score is, whichever signals fired: the sum of their      *)
(* weights is computed by a recursion over a finite set, and every fact    *)
(* about it here rests on a smallest counterexample.  From there to what   *)
(* the caps promise of the whole system: a bounded family never classifies *)
(* on its own, and findings reach no further than their families' caps.    *)
(***************************************************************************)
EXTENDS ObligorProofs, FiniteSetTheorems

------------------------------------------------------------------------------
(* Sums of weights.                                                        *)

WeightSum(S) == MapThenSumSet(LAMBDA s : s.weight, S)

Pick(s) == CHOOSE x \in s : TRUE

\* g adds up the weights of every subset of T, taking one element at a time.
Adds(g, T) ==
    g = [s \in SUBSET T |-> IF s = {} THEN 0 ELSE Pick(s).weight + g[s \ {Pick(s)}]]

LEMMA PickIsIn == ASSUME NEW s, s # {} PROVE Pick(s) \in s
BY DEF Pick

\* A non-empty collection of finite sets has a smallest member.
LEMMA SmallestSet ==
    ASSUME NEW S, IsFiniteSet(S), NEW Bad, Bad \subseteq SUBSET S, Bad # {}
    PROVE  \E T \in Bad : \A U \in Bad : ~(U \subseteq T /\ U # T)
<1>1. IsWellFoundedOn(StrictSubsetOrdering(S), FiniteSubsetsOf(S))
  BY FS_StrictSubsetOrderingWellFounded
<1>2. Bad \subseteq FiniteSubsetsOf(S)
  BY FS_FiniteSubsetsOfFinite
<1>3. PICK T \in Bad : \A U \in Bad : ~(<<U, T>> \in StrictSubsetOrdering(S))
  BY <1>1, <1>2, WFMin
<1>4. ASSUME NEW U \in Bad, U \subseteq T, U # T PROVE FALSE
  <2>1. U \in SUBSET S /\ T \in SUBSET S
    OBVIOUS
  <2>2. <<U, T>> \in StrictSubsetOrdering(S)
    BY <1>4, <2>1 DEF StrictSubsetOrdering
  <2>3. QED
    BY <1>3, <2>2
<1>5. QED
  BY <1>4

LEMMA AddsStep ==
    ASSUME NEW g, NEW T, Adds(g, T), NEW s, s \subseteq T
    PROVE  g[s] = IF s = {} THEN 0 ELSE Pick(s).weight + g[s \ {Pick(s)}]
<1> DEFINE body(t) == IF t = {} THEN 0 ELSE Pick(t).weight + g[t \ {Pick(t)}]
<1>1. g = [t \in SUBSET T |-> body(t)]
  BY DEF Adds
<1> HIDE DEF body
<1>2. g[s] = body(s)
  BY <1>1
<1>3. QED
  BY <1>2 DEF body

\* Two such functions agree wherever both are defined.
LEMMA AddsIsUnique ==
    ASSUME NEW T, IsFiniteSet(T), NEW U, T \subseteq U,
           NEW g, Adds(g, T), NEW h, Adds(h, U)
    PROVE  \A s \in SUBSET T : g[s] = h[s]
<1> DEFINE Bad == {s \in SUBSET T : g[s] # h[s]}
<1> SUFFICES ASSUME Bad # {} PROVE FALSE
  OBVIOUS
<1>1. PICK s \in Bad : \A t \in Bad : ~(t \subseteq s /\ t # s)
  <2>1. Bad \subseteq SUBSET T
    OBVIOUS
  <2> HIDE DEF Bad
  <2>2. QED
    BY <2>1, SmallestSet
<1>2. s \subseteq T /\ s \subseteq U /\ g[s] # h[s]
  BY <1>1
<1>3. s # {}
  BY <1>2, AddsStep
<1> DEFINE r == s \ {Pick(s)}
<1>4. r \subseteq s /\ r # s
  BY <1>3, PickIsIn
<1>5. g[r] = h[r]
  BY <1>1, <1>2, <1>4
<1> HIDE DEF r, Bad
<1>6. g[s] = Pick(s).weight + g[r] /\ h[s] = Pick(s).weight + h[r]
  BY <1>2, <1>3, AddsStep DEF r
<1>7. QED
  BY <1>2, <1>5, <1>6

\* And there is one, on every finite set.
LEMMA AddsExists == ASSUME NEW S, IsFiniteSet(S) PROVE \E g : Adds(g, S)
<1> DEFINE Bad == {T \in SUBSET S : ~\E g : Adds(g, T)}
<1> SUFFICES ASSUME Bad # {} PROVE FALSE
  OBVIOUS
<1>1. PICK T \in Bad : \A U \in Bad : ~(U \subseteq T /\ U # T)
  <2>1. Bad \subseteq SUBSET S
    OBVIOUS
  <2> HIDE DEF Bad
  <2>2. QED
    BY <2>1, SmallestSet
<1>2. T \subseteq S /\ ~\E g : Adds(g, T)
  BY <1>1
<1>3. \A U \in SUBSET T : U # T => \E g : Adds(g, U)
  BY <1>1, <1>2
<1> HIDE DEF Bad
<1> DEFINE some(U) == CHOOSE g : Adds(g, U)
           total(U) == some(U)[U]
           body(s) == IF s = {} THEN 0 ELSE Pick(s).weight + total(s \ {Pick(s)})
           h == [s \in SUBSET T |-> body(s)]
<1>4. ASSUME NEW U \in SUBSET T, U # T PROVE h[U] = total(U)
  <2>1. Adds(some(U), U)
    BY <1>3, <1>4
  <2> HIDE DEF some
  <2>2. CASE U = {}
    BY <2>1, <2>2, AddsStep
  <2>3. CASE U # {}
    <3> DEFINE V == U \ {Pick(U)}
    <3>1. V \subseteq U /\ V \in SUBSET T /\ V # T /\ IsFiniteSet(V)
      BY <1>2, <1>4, FS_Subset
    <3>2. Adds(some(V), V)
      BY <1>3, <3>1 DEF some
    <3> HIDE DEF V
    <3>3. some(V)[V] = some(U)[V]
      BY <2>1, <3>1, <3>2, AddsIsUnique
    <3>4. some(U)[U] = Pick(U).weight + some(U)[V]
      BY <2>1, <2>3, AddsStep DEF V
    <3>5. h[U] = Pick(U).weight + some(V)[V]
      BY <2>3 DEF V
    <3>6. QED
      BY <3>3, <3>4, <3>5
  <2>4. QED
    BY <2>2, <2>3
<1>5. ASSUME NEW s \in SUBSET T, s # {} PROVE total(s \ {Pick(s)}) = h[s \ {Pick(s)}]
  <2>1. s \ {Pick(s)} \in SUBSET T /\ s \ {Pick(s)} # T
    BY <1>5, PickIsIn
  <2> HIDE DEF h, total
  <2>2. QED
    BY <1>4, <2>1
<1>6. \A s \in SUBSET T :
         body(s) = IF s = {} THEN 0 ELSE Pick(s).weight + h[s \ {Pick(s)}]
  <2> HIDE DEF h, total
  <2>1. QED
    BY <1>5
<1>7. Adds(h, T)
  <2> DEFINE next(s) == IF s = {} THEN 0 ELSE Pick(s).weight + h[s \ {Pick(s)}]
  <2>1. h = [s \in SUBSET T |-> body(s)]
    OBVIOUS
  <2>2. \A s \in SUBSET T : body(s) = next(s)
    BY <1>6
  <2> HIDE DEF h, body, next
  <2>3. h = [s \in SUBSET T |-> next(s)]
    BY <2>1, <2>2
  <2>4. QED
    BY <2>3 DEF Adds, next
<1>8. QED
  BY <1>2, <1>7

LEMMA WeightSumAdds ==
    ASSUME NEW S, IsFiniteSet(S), NEW U, S \subseteq U, NEW g, Adds(g, U)
    PROVE  WeightSum(S) = g[S]
<1> DEFINE some == CHOOSE f : Adds(f, S)
<1>1. WeightSum(S) = some[S]
  BY DEF WeightSum, MapThenSumSet, MapThenFoldSet, Adds, Pick
<1>2. Adds(some, S)
  BY AddsExists
<1> HIDE DEF some
<1>3. QED
  BY <1>1, <1>2, AddsIsUnique

\* The sum of no weights, and of some.
LEMMA WeightSumStep ==
    ASSUME NEW S, IsFiniteSet(S)
    PROVE  WeightSum(S) = IF S = {} THEN 0 ELSE Pick(S).weight + WeightSum(S \ {Pick(S)})
<1>1. PICK g : Adds(g, S)
  BY AddsExists
<1> DEFINE r == S \ {Pick(S)}
<1>2. r \subseteq S /\ IsFiniteSet(r)
  BY FS_Subset
<1>3. g[S] = IF S = {} THEN 0 ELSE Pick(S).weight + g[r]
  BY <1>1, AddsStep
<1> HIDE DEF r
<1>4. WeightSum(S) = g[S] /\ WeightSum(r) = g[r]
  BY <1>1, <1>2, WeightSumAdds
<1>5. QED
  BY <1>3, <1>4 DEF r

Weighted(S) == IsFiniteSet(S) /\ \A s \in S : s.weight \in Int

LEMMA WeightedSubset == ASSUME NEW S, Weighted(S), NEW T, T \subseteq S PROVE Weighted(T)
BY FS_Subset DEF Weighted

\* Whole weights have a whole sum, and none of them above nought none above nought.
LEMMA WeightSumShape ==
    ASSUME NEW S, Weighted(S)
    PROVE  /\ WeightSum(S) \in Int
           /\ (\A s \in S : s.weight <= 0) => WeightSum(S) <= 0
<1> DEFINE Holds(T) == /\ WeightSum(T) \in Int
                       /\ (\A s \in T : s.weight <= 0) => WeightSum(T) <= 0
           Bad == {T \in SUBSET S : ~Holds(T)}
<1> SUFFICES ASSUME ~Holds(S) PROVE FALSE
  OBVIOUS
<1>1. PICK T \in Bad : \A U \in Bad : ~(U \subseteq T /\ U # T)
  <2>1. Bad \subseteq SUBSET S /\ Bad # {}
    OBVIOUS
  <2> HIDE DEF Bad
  <2>2. QED
    BY <2>1, SmallestSet DEF Weighted
<1>2. T \subseteq S /\ ~Holds(T) /\ IsFiniteSet(T)
  BY <1>1, WeightedSubset DEF Weighted
<1>3. CASE T = {}
  <2>1. WeightSum(T) = 0
    BY <1>2, <1>3, WeightSumStep
  <2>2. Holds(T)
    BY <2>1
  <2>3. QED
    BY <1>2, <2>2
<1>4. CASE T # {}
  <2> DEFINE r == T \ {Pick(T)}
  <2>1. Pick(T) \in T /\ r \in SUBSET S /\ r \subseteq T /\ r # T
    BY <1>2, <1>4, PickIsIn
  <2>2. Holds(r)
    BY <1>1, <2>1
  <2>3. WeightSum(T) = Pick(T).weight + WeightSum(r)
    BY <1>2, <1>4, WeightSumStep
  <2>4. Pick(T).weight \in Int
    BY <1>2, <2>1 DEF Weighted
  <2> HIDE DEF r
  <2>5. QED
    BY <1>2, <2>1, <2>2, <2>3, <2>4
<1>5. QED
  BY <1>3, <1>4

\* It does not matter which element is taken out first.
LEMMA WeightSumRemove ==
    ASSUME NEW S, Weighted(S), NEW x \in S
    PROVE  WeightSum(S) = x.weight + WeightSum(S \ {x})
<1> DEFINE Holds(T) == \A y \in T : WeightSum(T) = y.weight + WeightSum(T \ {y})
           Bad == {T \in SUBSET S : ~Holds(T)}
<1> SUFFICES ASSUME ~Holds(S) PROVE FALSE
  OBVIOUS
<1>1. PICK T \in Bad : \A U \in Bad : ~(U \subseteq T /\ U # T)
  <2>1. Bad \subseteq SUBSET S /\ Bad # {}
    OBVIOUS
  <2> HIDE DEF Bad
  <2>2. QED
    BY <2>1, SmallestSet DEF Weighted
<1>2. T \subseteq S /\ ~Holds(T) /\ Weighted(T) /\ IsFiniteSet(T)
  BY <1>1, WeightedSubset DEF Weighted
<1>3. \A U \in SUBSET T : U # T => Holds(U)
  BY <1>1, <1>2
<1>4. PICK y \in T : WeightSum(T) # y.weight + WeightSum(T \ {y})
  BY <1>2
<1> HIDE DEF Bad
<1> DEFINE p == Pick(T)
           r == T \ {p}
           q == T \ {y}
           b == T \ {p, y}
<1>5. p \in T /\ WeightSum(T) = p.weight + WeightSum(r)
  BY <1>2, <1>4, PickIsIn, WeightSumStep
<1>6. y # p
  BY <1>4, <1>5
<1>7. y \in r /\ r \in SUBSET T /\ r # T /\ r \ {y} = b
  BY <1>5, <1>6
<1>8. p \in q /\ q \in SUBSET T /\ q # T /\ q \ {p} = b
  BY <1>5, <1>6
<1>9. WeightSum(r) = y.weight + WeightSum(b)
  BY <1>3, <1>7
<1>10. WeightSum(q) = p.weight + WeightSum(b)
  BY <1>3, <1>8
<1>11. y.weight \in Int /\ p.weight \in Int /\ WeightSum(b) \in Int
  <2>1. Weighted(b)
    BY <1>2, WeightedSubset
  <2>2. QED
    BY <1>2, <1>5, <2>1, WeightSumShape DEF Weighted
<1>12. WeightSum(T) # y.weight + WeightSum(q)
  BY <1>4
<1> HIDE DEF p, r, q, b
<1>13. QED
  BY <1>5, <1>9, <1>10, <1>11, <1>12

\* More signals of no negative weight never sum to less.
LEMMA WeightSumGrows ==
    ASSUME NEW S, Weighted(S), NEW T, T \subseteq S, \A s \in S \ T : s.weight >= 0
    PROVE  WeightSum(T) <= WeightSum(S)
<1> DEFINE Bad == {U \in SUBSET S : T \subseteq U /\ ~(WeightSum(T) <= WeightSum(U))}
<1> SUFFICES ASSUME Bad # {} PROVE FALSE
  OBVIOUS
<1>1. PICK U \in Bad : \A V \in Bad : ~(V \subseteq U /\ V # U)
  <2>1. Bad \subseteq SUBSET S
    OBVIOUS
  <2> HIDE DEF Bad
  <2>2. QED
    BY <2>1, SmallestSet DEF Weighted
<1>2. /\ U \subseteq S /\ T \subseteq U /\ Weighted(U) /\ Weighted(T)
      /\ ~(WeightSum(T) <= WeightSum(U))
  BY <1>1, WeightedSubset
<1>3. WeightSum(T) \in Int /\ WeightSum(U) \in Int
  BY <1>2, WeightSumShape
<1>4. T # U
  BY <1>2, <1>3
<1>5. PICK x \in U : x \notin T
  BY <1>2, <1>4
<1> DEFINE r == U \ {x}
<1>6. T \subseteq r /\ r \in SUBSET S /\ r \subseteq U /\ r # U
  BY <1>2, <1>5
<1>7. WeightSum(T) <= WeightSum(r)
  BY <1>1, <1>6
<1>8. WeightSum(U) = x.weight + WeightSum(r)
  BY <1>2, WeightSumRemove
<1>9. x.weight \in Int /\ x.weight >= 0 /\ WeightSum(r) \in Int
  <2>1. Weighted(r)
    BY <1>2, <1>6, WeightedSubset
  <2>2. QED
    BY <1>2, <1>5, <2>1, WeightSumShape DEF Weighted
<1> HIDE DEF r, Bad
<1>10. QED
  BY <1>2, <1>3, <1>7, <1>8, <1>9

------------------------------------------------------------------------------
(* Every signal carries a whole weight, and there are finitely many.       *)

LEMMA FiniteImage ==
    ASSUME NEW S, IsFiniteSet(S), NEW g, DOMAIN g = S
    PROVE  /\ IsFiniteSet({g[x] : x \in S})
           /\ Cardinality({g[x] : x \in S}) <= Cardinality(S)
<1> DEFINE T == {g[x] : x \in S}
           h == [x \in S |-> g[x]]
<1>1. h \in Surjection(S, T)
  BY DEF Surjection
<1>2. QED
  BY <1>1, FS_Surjection

LEMMA FiniteTests ==
    ASSUME NEW terms, IsFiniteSet(terms), NEW rows, NEW p, NEW asOf
    PROVE  /\ IsFiniteSet(CovenantTests(terms, rows, p, asOf))
           /\ Cardinality(CovenantTests(terms, rows, p, asOf)) <= Cardinality(terms)
<1> DEFINE g == [t \in terms |-> CovenantTest(t, rows, p, asOf)]
<1>1. CovenantTests(terms, rows, p, asOf) = {g[t] : t \in terms}
  BY DEF CovenantTests
<1> HIDE DEF g
<1>2. DOMAIN g = terms
  BY DEF g
<1>3. QED
  BY <1>1, <1>2, FiniteImage

LEMMA WeightedSingle ==
    ASSUME NEW s, s.weight \in Int PROVE Weighted({s})
BY FS_Singleton DEF Weighted

LEMMA WeightedNone == Weighted({})
BY FS_EmptySet DEF Weighted

LEMMA CovenantWeights ==
    ASSUME NEW p, IsPolicy(p), Covers(p), NEW terms, IsFiniteSet(terms),
           NEW rows, NEW asOf
    PROVE  Weighted(CovenantSignals(CovenantTests(terms, rows, p, asOf)))
<1> DEFINE tests == CovenantTests(terms, rows, p, asOf)
           loud  == {u \in tests : u.status \notin QuietStatuses}
           g     == [t \in loud |-> Signal(t.rule, t.family, t.severity, t.weight,
                                           t.id, t.located)]
<1>1. IsFiniteSet(loud)
  <2>1. IsFiniteSet(tests)
    BY FiniteTests
  <2> HIDE DEF tests
  <2>2. QED
    BY <2>1, FS_Subset
<1>2. CovenantSignals(tests) = {g[t] : t \in loud}
  BY DEF CovenantSignals
<1>3. ASSUME NEW t \in loud PROVE g[t].weight \in Int
  <2>1. PICK u \in terms : t = CovenantTest(u, rows, p, asOf)
    BY DEF CovenantTests
  <2>2. StatusOf(u, rows, p, asOf) \in Statuses
    BY DEF StatusOf, TestedStatus, Statuses
  <2>3. t.weight = p.covenant[StatusOf(u, rows, p, asOf)].weight
    BY <2>1 DEF CovenantTest
  <2>4. g[t].weight = t.weight
    BY DEF Signal
  <2>5. QED
    BY <2>2, <2>3, <2>4 DEF IsPolicy, IsWeight, Covers
<1>4. DOMAIN g = loud
  OBVIOUS
<1> HIDE DEF g, loud, tests
<1>5. IsFiniteSet({g[t] : t \in loud})
  BY <1>1, <1>4, FiniteImage
<1>6. QED
  BY <1>2, <1>3, <1>5 DEF Weighted, tests

LEMMA RuleWeights ==
    ASSUME NEW p, IsPolicy(p), NEW r \in p.rules, NEW ref, NEW located
    PROVE  RuleSignal(r, ref, located).weight \in Int
BY DEF RuleSignal, Signal, IsPolicy, IsWeight

LEMMA ExternalWeights ==
    ASSUME NEW p, IsPolicy(p), NEW r \in p.rules, NEW news, IsFiniteSet(news), NEW asOf
    PROVE  Weighted(ExternalSignals(r, news, p, asOf))
<1> DEFINE items == {n \in news : /\ n.relevance = "confirmed"
                                  /\ n.category = r.metric
                                  /\ asOf - n.published <= p.lookback}
           g     == [i \in items |-> RuleSignal(r, i.id, i.located)]
<1>1. ExternalSignals(r, news, p, asOf) = {g[i] : i \in items} /\ DOMAIN g = items
  BY DEF ExternalSignals
<1>2. IsFiniteSet(items)
  BY FS_Subset
<1>3. \A i \in items : g[i].weight \in Int
  BY RuleWeights
<1> HIDE DEF g, items
<1>4. QED
  BY <1>1, <1>2, <1>3, FiniteImage DEF Weighted

LEMMA LevelWeights ==
    ASSUME NEW p, IsPolicy(p), NEW r \in p.rules, NEW rows
    PROVE  Weighted(LevelSignals(r, rows))
<1> DEFINE found == \E o \in MostRecent(rows, 1) : o.located
<1>1. \/ LevelSignals(r, rows) = {RuleSignal(r, r.metric, found)}
      \/ LevelSignals(r, rows) = {}
  BY DEF LevelSignals
<1> HIDE DEF found
<1>2. QED
  BY <1>1, RuleWeights, WeightedSingle, WeightedNone

LEMMA ChangeWeights ==
    ASSUME NEW p, IsPolicy(p), NEW r \in p.rules, NEW rows, IsFiniteSet(rows)
    PROVE  Weighted(ChangeSignals(r, rows))
<1> DEFINE pairs == {lp \in rows \X rows :
                        /\ Position(lp[1], rows) = 0
                        /\ Position(lp[2], rows) = 1
                        /\ \E t \in r.threshold : Moved(r, lp[1], lp[2], t)}
           g     == [o \in pairs |-> RuleSignal(r, r.metric, o[1].located \/ o[2].located)]
<1>1. ChangeSignals(r, rows) = {g[o] : o \in pairs} /\ DOMAIN g = pairs
  BY DEF ChangeSignals
<1>2. IsFiniteSet(pairs)
  <2>1. IsFiniteSet(rows \X rows) /\ pairs \subseteq rows \X rows
    BY FS_Product
  <2>2. QED
    BY <2>1, FS_Subset
<1>3. \A o \in pairs : g[o].weight \in Int
  BY RuleWeights
<1> HIDE DEF g, pairs
<1>4. QED
  BY <1>1, <1>2, <1>3, FiniteImage DEF Weighted

LEMMA RulesAreWeighted ==
    ASSUME NEW p, IsPolicy(p), NEW window, IsFiniteSet(window),
           NEW news, IsFiniteSet(news), NEW asOf
    PROVE  Weighted(RuleSignals(window, news, p, asOf))
<1> DEFINE fired(r) ==
             LET rows == {o \in window : o.metric = r.metric}
             IN  CASE r.cmp = "present"       -> ExternalSignals(r, news, p, asOf)
                   [] r.cmp \in {"max", "min"} -> LevelSignals(r, rows)
                   [] OTHER                    -> ChangeSignals(r, rows)
           g == [r \in p.rules |-> fired(r)]
<1>1. RuleSignals(window, news, p, asOf) = UNION {g[r] : r \in p.rules}
  BY DEF RuleSignals
<1>2. ASSUME NEW r \in p.rules PROVE Weighted(fired(r))
  <2> DEFINE rows == {o \in window : o.metric = r.metric}
  <2>1. IsFiniteSet(rows)
    BY FS_Subset
  <2>2. fired(r) \in {ExternalSignals(r, news, p, asOf), LevelSignals(r, rows),
                      ChangeSignals(r, rows)}
    OBVIOUS
  <2> HIDE DEF rows, fired
  <2>3. QED
    BY <2>1, <2>2, ExternalWeights, LevelWeights, ChangeWeights
<1> HIDE DEF fired
<1>3. IsFiniteSet(p.rules) /\ DOMAIN g = p.rules
  BY DEF IsPolicy
<1>4. \A r \in p.rules : Weighted(g[r])
  BY <1>2
<1> HIDE DEF g
<1>5. IsFiniteSet({g[r] : r \in p.rules})
  BY <1>3, FiniteImage
<1>6. IsFiniteSet(UNION {g[r] : r \in p.rules})
  BY <1>4, <1>5, FS_UNION DEF Weighted
<1>7. QED
  BY <1>1, <1>4, <1>6 DEF Weighted

\* What the gate on materiality, the clocks and the coverage test may add.
LEMMA OneAtMost ==
    ASSUME NEW p, IsPolicy(p), Covers(p), NEW f, NEW complete, NEW asOf
    PROVE  /\ Weighted(ArrearsGateSignals(f.arrears, p))
           /\ Weighted(ArrearsSignals(f.arrears, p))
           /\ Weighted(ClockSignals(f, p, asOf))
           /\ Weighted(CoverageSignals(complete, p))
<1>1. Weighted(ArrearsGateSignals(f.arrears, p))
  <2> DEFINE missing == Signal("ews-arrears-not-evidenced", "process", MEDIUM, 0,
                               "none", FALSE)
             small   == Signal("ews-arrears-immaterial", "process", LOW, 0,
                               "arrears", f.arrears.located)
  <2>1. ArrearsGateSignals(f.arrears, p) \in {{missing}, {small}, {}}
    BY DEF ArrearsGateSignals
  <2>2. missing.weight \in Int /\ small.weight \in Int
    BY DEF Signal
  <2> HIDE DEF missing, small
  <2>3. QED
    BY <2>1, <2>2, WeightedSingle, WeightedNone
<1>2. Weighted(ArrearsSignals(f.arrears, p))
  <2> DEFINE tier == ArrearsTier(EffectiveDays(f.arrears, p), p)
             sign == Signal("ews-arrears", "behavioural", p.arrears[tier].severity,
                            p.arrears[tier].weight, tier,
                            f.arrears.known /\ f.arrears.located)
  <2>1. ArrearsSignals(f.arrears, p) = IF tier = "none" THEN {} ELSE {sign}
    BY DEF ArrearsSignals
  <2>2. tier \in ArrearsTiers \cup {"none"}
    BY DEF ArrearsTier, ArrearsTiers
  <2>3. tier # "none" => sign.weight \in Int
    BY <2>2 DEF Signal, IsPolicy, IsTier, Covers
  <2> HIDE DEF tier, sign
  <2>4. QED
    BY <2>1, <2>3, WeightedSingle, WeightedNone
<1>3. Weighted(ClockSignals(f, p, asOf))
  <2> DEFINE sign(tier) == Signal("ews-review", "process", p.clock[tier].severity,
                                  p.clock[tier].weight, tier, f.located)
  <2>1. ClockSignals(f, p, asOf) \in {{sign("absent")}, {sign("overdue")}, {}}
    BY DEF ClockSignals
  <2>2. sign("absent").weight \in Int /\ sign("overdue").weight \in Int
    BY DEF Signal, IsPolicy, IsTier, Covers, ClockTiers
  <2> HIDE DEF sign
  <2>3. QED
    BY <2>1, <2>2, WeightedSingle, WeightedNone
<1>4. Weighted(CoverageSignals(complete, p))
  BY WeightedSingle, WeightedNone DEF CoverageSignals, Signal, IsPolicy
<1>5. QED
  BY <1>1, <1>2, <1>3, <1>4

\* Everything a review of one obligor's evidence fires.
LEMMA SignalsAreWeighted ==
    ASSUME NEW p, IsPolicy(p), Covers(p), NEW f, IsFiniteSet(f.terms),
           IsFiniteSet(f.window), IsFiniteSet(f.news), NEW asOf
    PROVE  Weighted(SignalsOf(f, p, asOf))
<1> DEFINE A == ArrearsGateSignals(f.arrears, p)
           B == CovenantSignals(TestsOf(f, p, asOf))
           C == RuleSignals(f.window, f.news, p, asOf)
           D == ArrearsSignals(f.arrears, p)
           E == ClockSignals(f, p, asOf)
           F == CoverageSignals(CompleteOf(f, p, asOf), p)
<1>1. /\ Weighted(A) /\ Weighted(B) /\ Weighted(C)
      /\ Weighted(D) /\ Weighted(E) /\ Weighted(F)
  BY OneAtMost, CovenantWeights, RulesAreWeighted DEF TestsOf
<1>2. SignalsOf(f, p, asOf) = A \cup B \cup C \cup D \cup E \cup F
  BY DEF SignalsOf
<1> HIDE DEF A, B, C, D, E, F
<1>3. IsFiniteSet(A \cup B \cup C \cup D \cup E \cup F)
  BY <1>1, FS_Union DEF Weighted
<1>4. QED
  BY <1>1, <1>2, <1>3 DEF Weighted

------------------------------------------------------------------------------
(* The family scores of a set of signals.                                  *)

Family(signals, f) == {s \in signals : s.family = f}

LEMMA RawIsASum ==
    ASSUME NEW signals, Weighted(signals)
    PROVE  /\ RawScores(signals) \in [Families -> Int]
           /\ \A f \in Families :
                 /\ RawScores(signals)[f] = WeightSum(Family(signals, f))
                 /\ Weighted(Family(signals, f))
<1>1. \A f \in Families : /\ RawScores(signals)[f] = WeightSum(Family(signals, f))
                          /\ Weighted(Family(signals, f))
  BY WeightedSubset DEF RawScores, Raw, WeightSum, Family
<1>2. \A f \in Families : RawScores(signals)[f] \in Int
  BY <1>1, WeightSumShape
<1>3. QED
  BY <1>1, <1>2 DEF RawScores

\* One bounded family cannot lift the band, whichever signals fired.
LEMMA LoneFamilyStaysAtPass ==
    ASSUME NEW p, IsPolicy(p), ValidPolicy(p), NEW signals, Weighted(signals),
           NEW f \in BoundedFamilies, \A s \in signals : s.weight > 0 => s.family = f
    PROVE  Band(Composite(RawScores(signals), p), p.bands) = PASS
<1>1. ASSUME NEW g \in Families, g # f PROVE RawScores(signals)[g] <= 0
  <2>1. \A s \in Family(signals, g) : s.weight <= 0
    BY <1>1 DEF Family, Weighted
  <2>2. QED
    BY <2>1, RawIsASum, WeightSumShape
<1>2. QED
  BY <1>1, RawIsASum, BoundedFamilyStaysAtPass

------------------------------------------------------------------------------
(* More signals never score better.                                        *)

LEMMA CompositeGrows ==
    ASSUME NEW p, IsPolicy(p), ValidPolicy(p),
           NEW less \in [Families -> Int], NEW more \in [Families -> Int],
           \A f \in Families : less[f] <= more[f]
    PROVE  /\ Composite(less, p) \in Int /\ Composite(more, p) \in Int
           /\ Composite(less, p) <= Composite(more, p)
<1> DEFINE a(f) == AtMost(less[f], p.caps[f])
           b(f) == AtMost(more[f], p.caps[f])
<1>1. \A f \in Families : p.caps[f] \in Int /\ less[f] \in Int /\ more[f] \in Int
  BY DEF IsPolicy, ValidPolicy, Covers
<1>2. \A f \in Families : a(f) \in Int /\ b(f) \in Int /\ a(f) <= b(f)
  BY <1>1 DEF AtMost
<1>3. /\ Composite(less, p)
           = AtMost(100, a("financial") + a("behavioural") + a("external") + a("process"))
      /\ Composite(more, p)
           = AtMost(100, b("financial") + b("behavioural") + b("external") + b("process"))
  BY DEF Composite
<1> HIDE DEF a, b
<1>4. \A f \in {"financial", "behavioural", "external", "process"} :
         a(f) \in Int /\ b(f) \in Int /\ a(f) <= b(f)
  BY <1>2 DEF Families
<1> DEFINE A == a("financial") + a("behavioural") + a("external") + a("process")
           B == b("financial") + b("behavioural") + b("external") + b("process")
<1>5. A \in Int /\ B \in Int /\ A <= B
  BY <1>4
<1> HIDE DEF A, B
<1>6. AtMost(100, A) \in Int /\ AtMost(100, B) \in Int /\ AtMost(100, A) <= AtMost(100, B)
  BY <1>5 DEF AtMost
<1>7. QED
  BY <1>3, <1>6 DEF A, B

\* A higher rung of a ladder is never a better grade.
LEMMA LadderClimbs ==
    ASSUME NEW bands \in Ladders, LadderOk(bands),
           NEW i \in 1..Len(bands), NEW j \in 1..Len(bands), i <= j
    PROVE  bands[i].grade <= bands[j].grade
<1> DEFINE g(k) == bands[k].grade
<1>1. PICK n \in 1..5 : n = Len(bands)
  BY LadderIsShort
<1>2. \A k \in Int : 1 <= k /\ k <= n => g(k) \in Int
  BY <1>1, LadderRungs
<1>3. \A k \in 1..(n - 1) : g(k) < g(k + 1)
  BY <1>1 DEF LadderOk
<1> HIDE DEF g
<1>4. /\ 2 <= n => g(1) <= g(2)
      /\ 3 <= n => g(2) <= g(3)
      /\ 4 <= n => g(3) <= g(4)
      /\ 5 <= n => g(4) <= g(5)
  BY <1>1, <1>2, <1>3, SMTT(30)
<1>5. i \in {1, 2, 3, 4, 5} /\ j \in {1, 2, 3, 4, 5} /\ j <= n
  BY <1>1
<1>6. g(i) <= g(j)
  BY <1>1, <1>2, <1>4, <1>5, SMTT(30)
<1>7. QED
  BY <1>6 DEF g

LEMMA BandClimbs ==
    ASSUME NEW bands \in Ladders, LadderOk(bands),
           NEW c \in Int, NEW d \in Int, c <= d
    PROVE  Band(c, bands) <= Band(d, bands)
<1> DEFINE R == Rungs(c, bands)
           S == Rungs(d, bands)
<1>1. /\ Len(bands) \in 1..5 /\ DOMAIN bands = 1..Len(bands)
      /\ \A i \in 1..Len(bands) : bands[i].min \in Int
  BY LadderIsShort, LadderRungs
<1>2. R \subseteq S
  BY <1>1 DEF Rungs
<1>3. Band(c, bands) \in Int /\ Band(d, bands) \in Int /\ Band(d, bands) >= PASS
  BY BandIsAGrade DEF Grades, PASS, LOSS
<1>4. CASE R = {}
  BY <1>3, <1>4 DEF Band, LadderOk, PASS
<1>5. CASE R # {}
  <2>1. S # {}
    BY <1>2, <1>5
  <2>2. Max(R) \in R /\ Max(S) \in S
    BY <1>5, <2>1, RungReached
  <2>3. Max(R) <= Max(S)
    <3>1. \A x \in S : x \in 1..5
      BY <1>1 DEF Rungs
    <3>2. \E x \in S : \A y \in S : x >= y
      <4> HIDE DEF S
      <4>1. CASE 5 \in S
        BY <3>1, <4>1
      <4>2. CASE 5 \notin S /\ 4 \in S
        BY <3>1, <4>2
      <4>3. CASE 5 \notin S /\ 4 \notin S /\ 3 \in S
        BY <3>1, <4>3
      <4>4. CASE 5 \notin S /\ 4 \notin S /\ 3 \notin S /\ 2 \in S
        BY <3>1, <4>4
      <4>5. CASE 5 \notin S /\ 4 \notin S /\ 3 \notin S /\ 2 \notin S
        BY <2>1, <3>1, <4>5
      <4>6. QED
        BY <4>1, <4>2, <4>3, <4>4, <4>5
    <3>3. \A y \in S : Max(S) >= y
      BY <3>2 DEF Max
    <3>4. QED
      BY <1>2, <2>2, <3>1, <3>3
  <2>4. Max(R) \in 1..Len(bands) /\ Max(S) \in 1..Len(bands)
    BY <1>1, <2>2 DEF Rungs
  <2>5. QED
    BY <1>5, <2>1, <2>3, <2>4, LadderClimbs DEF Band
<1>6. QED
  BY <1>4, <1>5

LEMMA FlooringClimbs ==
    ASSUME NEW p, IsPolicy(p), Covers(p), NEW a \in Grades, NEW b \in Grades, a <= b,
           NEW floors, floors \subseteq FloorRules
    PROVE  Floored(a, floors, p) <= Floored(b, floors, p)
<1> DEFINE S == {a} \cup {p.floors[r] : r \in floors}
           T == {b} \cup {p.floors[r] : r \in floors}
<1>1. \A r \in floors : p.floors[r] \in Grades
  BY DEF IsPolicy, Covers
<1>2. S \subseteq Grades /\ S # {} /\ T \subseteq Grades /\ T # {}
  BY <1>1
<1>3. /\ Floored(a, floors, p) = Max(S) /\ Floored(b, floors, p) = Max(T)
      /\ \A g \in S : g = a \/ g \in T
      /\ b \in T
  BY DEF Floored
<1>4. \A g \in Grades : g \in Int
  BY DEF Grades, PASS, LOSS
<1> HIDE DEF S, T
<1>5. Max(S) \in S /\ Max(T) \in T /\ \A g \in T : g <= Max(T)
  BY <1>2, WorstGrade
<1>6. QED
  BY <1>2, <1>3, <1>4, <1>5

LEMMA ScoreGrows ==
    ASSUME NEW p, IsPolicy(p), ValidPolicy(p), NEW more, Weighted(more),
           NEW less, less \subseteq more, \A s \in more \ less : s.weight >= 0
    PROVE  /\ Composite(RawScores(less), p) \in Int
           /\ Composite(RawScores(more), p) \in Int
           /\ Composite(RawScores(less), p) <= Composite(RawScores(more), p)
<1>1. Weighted(less)
  BY WeightedSubset
<1>2. ASSUME NEW f \in Families PROVE RawScores(less)[f] <= RawScores(more)[f]
  <2>1. /\ Family(less, f) \subseteq Family(more, f)
        /\ \A s \in Family(more, f) \ Family(less, f) : s.weight >= 0
    BY DEF Family
  <2>2. QED
    BY <1>1, <2>1, RawIsASum, WeightSumGrows
<1>3. QED
  BY <1>1, <1>2, RawIsASum, CompositeGrows

------------------------------------------------------------------------------
(* What the caps leave to a downgrade.                                     *)

\* Families at their caps and no others score at least what was scored.
LEMMA CapsBoundTheScore ==
    ASSUME NEW p, IsPolicy(p), ValidPolicy(p), NEW raw \in [Families -> Int],
           NEW F, \A g \in Families : g \notin F => raw[g] <= 0,
           NEW full, full = [g \in Families |-> IF g \in F THEN p.caps[g] ELSE 0]
    PROVE  /\ Composite(raw, p) \in Int /\ Composite(full, p) \in Int
           /\ Composite(raw, p) <= Composite(full, p)
<1> DEFINE cut == [g \in Families |-> AtMost(raw[g], p.caps[g])]
<1>1. \A g \in Families : /\ p.caps[g] \in Int /\ p.caps[g] >= 0 /\ raw[g] \in Int
  BY DEF IsPolicy, ValidPolicy, Covers, CapsOk
<1>2. \A g \in Families : /\ AtMost(raw[g], p.caps[g]) \in Int
                          /\ AtMost(AtMost(raw[g], p.caps[g]), p.caps[g])
                                = AtMost(raw[g], p.caps[g])
                          /\ AtMost(raw[g], p.caps[g]) <= p.caps[g]
                          /\ raw[g] <= 0 => AtMost(raw[g], p.caps[g]) <= 0
  BY <1>1 DEF AtMost
<1>3. cut \in [Families -> Int] /\ full \in [Families -> Int]
  BY <1>1, <1>2
<1>4. \A g \in Families : cut[g] <= full[g]
  BY <1>1, <1>2
<1>5. Composite(cut, p) = Composite(raw, p)
  <2>1. \A g \in Families : AtMost(cut[g], p.caps[g]) = AtMost(raw[g], p.caps[g])
    BY <1>2
  <2> HIDE DEF cut
  <2>2. QED
    BY <2>1 DEF Composite, Families
<1> HIDE DEF cut
<1>6. QED
  BY <1>3, <1>4, <1>5, CompositeGrows

\* A downgrade goes no further than the band or than the grade of some floor.
LEMMA DowngradeHasASource ==
    ASSUME NEW p, IsPolicy(p), ValidPolicy(p),
           NEW f, f.grade \in Grades,
           NEW signals, NEW tests, NEW complete, NEW composite,
           NEW floors, floors \subseteq FloorRules,
           NEW q, q = Proposal(f, signals, tests, complete, p, composite, floors),
           q.proposed > f.grade
    PROVE  \/ q.band >= q.proposed
           \/ \E r \in q.floors : p.floors[r] >= q.proposed
<1> DEFINE band      == Band(composite, p.bands)
           S         == {band} \cup {p.floors[r] : r \in floors}
           evidence  == Floored(band, floors, p)
           supported == UnderCeiling(evidence)
           withheld  == IF supported < f.grade
                        THEN Withheld(f, signals, tests, complete, p) ELSE "none"
<1>1. /\ q.band = band /\ q.floors = floors
      /\ q.proposed = ProposedRank(f.grade, supported, withheld, p)
  BY DEF Proposal
<1>2. band \in Grades
  BY BandIsAGrade DEF IsPolicy, ValidPolicy, Ladders
<1>3. evidence \in Grades /\ evidence \in S
  <2>1. \A r \in floors : p.floors[r] \in Grades
    BY DEF IsPolicy, ValidPolicy, Covers
  <2>2. S \subseteq Grades /\ S # {} /\ evidence = Max(S)
    BY <1>2, <2>1 DEF Floored
  <2> HIDE DEF S, evidence
  <2>3. QED
    BY <2>2, WorstGrade
<1>4. evidence = band \/ \E r \in floors : p.floors[r] = evidence
  BY <1>3
<1> HIDE DEF band, S, evidence
<1>5. evidence \in 0..4 /\ f.grade \in 0..4
  BY <1>3 DEF Grades, PASS, LOSS
<1>6. supported \in 0..4 /\ supported <= evidence
  BY <1>5 DEF UnderCeiling, AtMost, DOUBTFUL
<1> HIDE DEF supported, withheld
<1>7. q.proposed = supported
  <2>1. PICK n \in Int : n >= 1 /\ p.notches = n
    BY DEF IsPolicy, ValidPolicy, UpgradeOk
  <2>2. QED
    BY <1>1, <1>5, <1>6, <2>1, RankBounds
<1>8. QED
  BY <1>1, <1>4, <1>5, <1>6, <1>7

------------------------------------------------------------------------------
(* What the feeds can return, day after day.                               *)

\* The evidence on file is finite and dated no later than today.
EvidenceIsReturnable == Returnable(file, today)

LEMMA NextIsReturnable ==
    ASSUME TypeOK, EvidenceIsReturnable, [Next]_vars PROVE EvidenceIsReturnable'
<1> USE DEF EvidenceIsReturnable, Returnable
<1>1. today \in Int /\ file \in FileType /\ today' \in Int /\ today' >= today
  <2>1. today \in Int /\ file \in FileType
    BY CalendarAssumption DEF TypeOK
  <2>2. today' = today \/ today' = today + 1
    BY DEF Next, Environment, vars, Certify, RollPeriod, Waive, Service, Publish,
       Spread, CountClean, RestartCount, Tick, Review, Adopt, Confirm
  <2>3. QED
    BY <2>1, <2>2
<1>2. /\ \A o \in file.window : o.asOf \in Int
      /\ \A n \in file.news : n.published \in Int
  BY <1>1 DEF FileType, ReadingType, NewsType
<1>3. /\ \A o \in file.window : o.asOf <= today'
      /\ \A n \in file.news : n.published <= today'
  BY <1>1, <1>2
<1>4. CASE /\ file'.terms = file.terms /\ file'.window = file.window
           /\ file'.news = file.news
  BY <1>3, <1>4
<1>5. ASSUME NEW t, NEW next, file' = [file EXCEPT !.terms = (@ \ {t}) \cup {next}]
      PROVE  EvidenceIsReturnable'
  <2>1. /\ file'.terms = (file.terms \ {t}) \cup {next}
        /\ file'.window = file.window /\ file'.news = file.news
    BY <1>1, <1>5 DEF FileType
  <2>2. IsFiniteSet((file.terms \ {t}) \cup {next})
    BY FS_RemoveElement, FS_AddElement
  <2>3. QED
    BY <1>3, <2>1, <2>2
<1>6. ASSUME NEW s, Publish(s) PROVE EvidenceIsReturnable'
  <2> DEFINE item == [id |-> s.id, relevance |-> s.relevance, category |-> s.category,
                      located |-> s.located, published |-> today]
  <2>1. /\ file'.terms = file.terms /\ file'.window = file.window
        /\ file'.news = file.news \cup {item}
    BY <1>1, <1>6 DEF Publish, FileType
  <2>2. item.published <= today'
    BY <1>1
  <2> HIDE DEF item
  <2>3. QED
    BY <1>3, <2>1, <2>2, FS_AddElement
<1>7. ASSUME NEW r, Spread(r) PROVE EvidenceIsReturnable'
  <2> DEFINE row == [metric |-> r.metric, value |-> r.value, ratio |-> r.ratio,
                     asOf |-> today, ref |-> 0, located |-> TRUE]
  <2>1. /\ file'.terms = file.terms /\ file'.window = file.window \cup {row}
        /\ file'.news = file.news
    BY <1>1, <1>7 DEF Spread, FileType
  <2>2. row.asOf <= today'
    BY <1>1
  <2> HIDE DEF row
  <2>3. QED
    BY <1>3, <2>1, <2>2, FS_AddElement
<1>8. CASE \E t \in file.terms : RollPeriod(t)
  BY <1>5, <1>8 DEF RollPeriod
<1>9. CASE \E t \in file.terms, u \in Expiries : Waive(t, u)
  BY <1>5, <1>9 DEF Waive
<1>10. QED
  BY <1>1, <1>4, <1>6, <1>7, <1>8, <1>9
     DEF Next, Environment, vars, Certify, Service, CountClean, RestartCount, Tick,
         Review, Adopt, Confirm, FileType

LEMMA ReturnableHolds == Spec => []EvidenceIsReturnable
<1>1. Init => EvidenceIsReturnable
  BY EvidenceAssumption DEF Init, EvidenceIsReturnable
<1>2. QED
  BY <1>1, NextIsReturnable, TypesHold, PTL DEF Spec

\* So is what a review reads of it, and the signals it fires.
LEMMA ReadIsReturnable ==
    ASSUME TypeOK, EvidenceIsReturnable, NEW n, NEW f, f = EvidenceFor(n)
    PROVE  /\ IsFiniteSet(f.terms) /\ IsFiniteSet(f.window) /\ IsFiniteSet(f.news)
           /\ \A day : Weighted(SignalsOf(f, Policy, day))
<1>1. f.window = file.window /\ f.news \subseteq file.news /\ f.terms \subseteq file.terms
  BY EvidenceShape DEF NewsOn
<1>2. IsFiniteSet(f.terms) /\ IsFiniteSet(f.window) /\ IsFiniteSet(f.news)
  BY <1>1, FS_Subset DEF EvidenceIsReturnable, Returnable
<1>3. QED
  BY <1>2, PolicyNumbers, SignalsAreWeighted DEF ValidPolicy

\* Neither adverse media nor the bank's own file ever lifts an obligor's band off
\* pass (_score, _band, and the caps validate_policy holds them to), whatever is
\* on file and however the policy weighs it.
THEOREM BoundedFamiliesNeverDo == Spec => BoundedFamiliesNeverClassifyAlone
<1> DEFINE A == \A n \in TestPeriods : Reviewed /\ last' = Outcome(Resolved(n)) =>
                  LET signals == SignalsOf(EvidenceFor(Resolved(n)), Policy, today)
                  IN  (\E f \in BoundedFamilies :
                          \A s \in signals : s.weight > 0 => s.family = f)
                      => Proposed.band = PASS
<1>1. TypeOK /\ EvidenceIsReturnable /\ [Next]_vars => [A]_vars
  <2> SUFFICES ASSUME TypeOK, EvidenceIsReturnable, NEW n \in TestPeriods, Reviewed,
                      last' = Outcome(Resolved(n)),
                      NEW f \in BoundedFamilies,
                      \A s \in SignalsOf(EvidenceFor(Resolved(n)), Policy, today) :
                          s.weight > 0 => s.family = f
               PROVE  Proposed.band = PASS
    OBVIOUS
  <2> DEFINE evidence == EvidenceFor(Resolved(n))
             signals  == SignalsOf(evidence, Policy, today)
             made     == OutcomeOn(evidence, Resolved(n))
  <2>1. last' = made /\ made # Ungrounded
    BY DEF Reviewed, Outcome, Ungrounded
  <2>2. Proposed = ProposalOf(evidence, Policy, today)
    BY <2>1, OutcomeShape DEF Proposed
  <2>3. Proposed.band = Band(Composite(RawScores(signals), Policy), Policy.bands)
    BY <2>2 DEF ProposalOf, Proposal
  <2>4. Weighted(signals)
    BY ReadIsReturnable
  <2> HIDE DEF signals
  <2>5. \A s \in signals : s.weight > 0 => s.family = f
    BY DEF signals
  <2>6. QED
    BY <2>3, <2>4, <2>5, PolicyNumbers, LoneFamilyStaysAtPass
<1>2. QED
  BY <1>1, TypesHold, ReturnableHolds, PTL DEF Spec, BoundedFamiliesNeverClassifyAlone

\* A downgrade that no floor asks for is within what the caps of the counting
\* families reach.
LEMMA DowngradeIsWithinCaps ==
    ASSUME TypeOK, EvidenceIsReturnable, Reviewed,
           NEW n, last' = Outcome(Resolved(n)), ~(Proposed.proposed <= file.grade),
           \A r \in Proposed.floors : ~(Policy.floors[r] >= Proposed.proposed)
    PROVE  Band(FullScore(Scoring(SignalsOf(EvidenceFor(Resolved(n)), Policy, today))),
                Policy.bands) >= Proposed.proposed
<1> DEFINE f         == EvidenceFor(Resolved(n))
           signals   == SignalsOf(f, Policy, today)
           made      == OutcomeOn(f, Resolved(n))
           tests     == TestsOf(f, Policy, today)
           complete  == CompleteOf(f, Policy, today)
           composite == Composite(RawScores(signals), Policy)
           floors    == FloorsOf(f, Policy, today)
           families  == Scoring(signals)
           full      == [g \in Families |-> IF g \in families THEN Policy.caps[g] ELSE 0]
<1>1. f \in FileType /\ f.grade = file.grade
  BY EvidenceShape
<1>2. Weighted(signals)
  BY ReadIsReturnable
<1>3. Proposed = ProposalOf(f, Policy, today)
  <2>1. last' = made /\ made # Ungrounded
    BY DEF Reviewed, Outcome, Ungrounded
  <2>2. QED
    BY <2>1, OutcomeShape DEF Proposed
<1>4. Proposed = Proposal(f, signals, tests, complete, Policy, composite, floors)
  BY <1>3 DEF ProposalOf
<1>5. floors \subseteq FloorRules
  BY DEF FloorsOf, Floors
<1>6. \A s \in signals : s.weight > 0 => s.family \in families
  BY DEF Scoring
<1>7. FullScore(families) = Composite(full, Policy)
  BY DEF FullScore
<1>8. Proposed.band = Band(composite, Policy.bands)
  BY <1>4 DEF Proposal
<1>9. Proposed.proposed \in Int /\ f.grade \in Grades /\ f.grade \in Int
  BY <1>1, <1>3, ReviewBounds DEF FileType, ProposalType, Grades, PASS, LOSS
<1> HIDE DEF f, signals, made, tests, complete, composite, floors, families
<1>10. Proposed.band >= Proposed.proposed
  <2>1. Proposed.proposed > f.grade
    BY <1>1, <1>9
  <2>2. QED
    BY <1>4, <1>5, <1>9, <2>1, PolicyNumbers, DowngradeHasASource
<1>11. composite \in Int /\ Composite(full, Policy) \in Int /\ composite <= Composite(full, Policy)
  <2>1. ASSUME NEW g \in Families, g \notin families PROVE RawScores(signals)[g] <= 0
    <3>1. \A s \in Family(signals, g) : s.weight <= 0
      BY <1>2, <1>6, <2>1 DEF Family, Weighted
    <3>2. QED
      BY <1>2, <3>1, RawIsASum, WeightSumShape
  <2>2. RawScores(signals) \in [Families -> Int]
    BY <1>2, RawIsASum
  <2>3. QED
    BY <2>1, <2>2, PolicyNumbers, CapsBoundTheScore DEF composite
<1> HIDE DEF full
<1>12. Policy.bands \in Ladders /\ LadderOk(Policy.bands)
  BY PolicyNumbers DEF IsPolicy, ValidPolicy, Ladders
<1>13. Band(Composite(full, Policy), Policy.bands) >= Band(composite, Policy.bands)
  BY <1>11, <1>12, BandClimbs
<1>14. Band(composite, Policy.bands) \in Int /\ Band(Composite(full, Policy), Policy.bands) \in Int
  BY <1>11, <1>12, BandIsAGrade DEF Grades, PASS, LOSS
<1>15. Band(FullScore(families), Policy.bands) >= Proposed.proposed
  BY <1>7, <1>8, <1>9, <1>10, <1>13, <1>14
<1>16. QED
  BY <1>15 DEF families, signals, f

\* Independent sources: a downgrade goes no further than an event's own floor, or
\* than the caps of the families that count against the obligor reach together
\* (_score, _band, _floors), whatever is on file and however it is weighed.
THEOREM FindingsNeverExceedTheirCaps == Spec => FindingsReachTheirCaps
<1> DEFINE A == \A n \in TestPeriods : Reviewed /\ last' = Outcome(Resolved(n)) =>
                  LET signals == SignalsOf(EvidenceFor(Resolved(n)), Policy, today)
                  IN  \/ Proposed.proposed <= file.grade
                      \/ \E r \in Proposed.floors : Policy.floors[r] >= Proposed.proposed
                      \/ Band(FullScore(Scoring(signals)), Policy.bands) >= Proposed.proposed
<1>1. TypeOK /\ EvidenceIsReturnable /\ [Next]_vars => [A]_vars
  BY DowngradeIsWithinCaps
<1>2. QED
  BY <1>1, TypesHold, ReturnableHolds, PTL DEF Spec, FindingsReachTheirCaps

\* The score of every family at its cap is a score, and any other set's is no higher.
LEMMA FullScoreGrows ==
    ASSUME NEW F
    PROVE  /\ FullScore(F) \in Int /\ FullScore(Families) \in Int
           /\ FullScore(F) <= FullScore(Families)
<1> DEFINE some == [f \in Families |-> IF f \in F THEN Policy.caps[f] ELSE 0]
           all  == [f \in Families |-> IF f \in Families THEN Policy.caps[f] ELSE 0]
<1>1. \A f \in Families : Policy.caps[f] \in Int /\ Policy.caps[f] >= 0
  BY PolicyNumbers DEF IsPolicy, ValidPolicy, Covers, CapsOk
<1>2. /\ some \in [Families -> Int] /\ all \in [Families -> Int]
      /\ \A f \in Families : some[f] <= all[f]
  BY <1>1
<1>3. FullScore(F) = Composite(some, Policy) /\ FullScore(Families) = Composite(all, Policy)
  BY DEF FullScore
<1> HIDE DEF some, all
<1>4. QED
  BY <1>2, <1>3, PolicyNumbers, CompositeGrows

\* What docs/conceptual-soundness.md says of the doubtful rung is true of a policy
\* whose rung is out of reach of every cap at once: nothing is downgraded to
\* doubtful but by a floor priced there.  Under the shipped policy the caps reach it.
THEOREM DoubtfulNeedsAFloor ==
    ASSUME Band(FullScore(Families), Policy.bands) < DOUBTFUL
    PROVE  Spec => [][Reviewed /\ Proposed.proposed = DOUBTFUL /\ file.grade < DOUBTFUL =>
                        \E r \in Proposed.floors : Policy.floors[r] >= DOUBTFUL]_vars
<1> DEFINE A == Reviewed /\ Proposed.proposed = DOUBTFUL /\ file.grade < DOUBTFUL =>
                  \E r \in Proposed.floors : Policy.floors[r] >= DOUBTFUL
<1>1. TypeOK /\ EvidenceIsReturnable /\ [Next]_vars => [A]_vars
  <2> SUFFICES ASSUME TypeOK, EvidenceIsReturnable, [Next]_vars, Reviewed,
                      Proposed.proposed = DOUBTFUL, file.grade < DOUBTFUL,
                      \A r \in Proposed.floors : ~(Policy.floors[r] >= DOUBTFUL)
               PROVE  FALSE
    OBVIOUS
  <2>1. PICK n \in TestPeriods : Review(n)
    BY DEF Reviewed, Next, vars, Environment, Certify, RollPeriod, Waive, Service,
           Publish, Spread, CountClean, RestartCount, Tick, Adopt, Confirm
  <2> DEFINE families == Scoring(SignalsOf(EvidenceFor(Resolved(n)), Policy, today))
  <2>2. Band(FullScore(families), Policy.bands) >= DOUBTFUL
    <3>1. file.grade \in Int
      BY DEF TypeOK, FileType, Grades, PASS, LOSS
    <3>2. last' = Outcome(Resolved(n)) /\ ~(Proposed.proposed <= file.grade)
      BY <2>1, <3>1 DEF Review, DOUBTFUL
    <3>3. QED
      BY <3>2, DowngradeIsWithinCaps
  <2> HIDE DEF families
  <2>3. Policy.bands \in Ladders /\ LadderOk(Policy.bands)
    BY PolicyNumbers DEF IsPolicy, ValidPolicy, Ladders
  <2>4. Band(FullScore(families), Policy.bands) <= Band(FullScore(Families), Policy.bands)
    BY <2>3, FullScoreGrows, BandClimbs
  <2>5. /\ Band(FullScore(families), Policy.bands) \in Int
        /\ Band(FullScore(Families), Policy.bands) \in Int
    BY <2>3, FullScoreGrows, BandIsAGrade DEF Grades, PASS, LOSS
  <2>6. QED
    BY <2>2, <2>4, <2>5 DEF DOUBTFUL
<1>2. QED
  BY <1>1, TypesHold, ReturnableHolds, PTL DEF Spec
==============================================================================
