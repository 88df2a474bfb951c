-------------------------- MODULE SelectorsProofs --------------------------
(***************************************************************************)
(* LIST and GET of cluster-scoped resources decide by different means:     *)
(* LIST by one selector with the requirements of all rules merged, GET by  *)
(* the requirements one by one.  What LIST shows, GET lets through.        *)
(*                                                                         *)
(* The pattern matching of rules misses no value that a pattern is meant   *)
(* to match.                                                               *)
(***************************************************************************)
EXTENDS Selectors, FiniteSetTheorems, TLAPS

\* A rule that applies to LIST applies to GET.
LEMMA ListRulesApplyToGet ==
    ASSUME NEW gvk, NEW rules
    PROVE  GetClusterScopeRequirements(gvk, "List", rules)
               \subseteq GetClusterScopeRequirements(gvk, "Get", rules)
    BY DEF GetClusterScopeRequirements, AllowsOperation

\* An object that the merged requirements match matches one of them: a value
\* among the merged ones comes from some requirement, a value that none of
\* them excludes is excluded by no requirement.
LEMMA MergedMatchesOne ==
    ASSUME NEW reqs, NEW labels,
           NEW req \in reqs,
           SelectorMatches(HandleListSelector(reqs), labels)
    PROVE  MatchesOne(reqs, labels)
<1> DEFINE similar == {o \in reqs : o.key = req.key /\ o.operator = req.operator}
<1> DEFINE merged == [key |-> req.key, operator |-> req.operator,
                      values |-> UNION {o.values : o \in similar}]
<1>1. merged \in HandleListSelector(reqs)
    BY DEF HandleListSelector
<1>2. Matches(merged, labels)
    BY <1>1 DEF SelectorMatches
<1>3. req \in similar
    OBVIOUS
<1>4. merged.key = req.key /\ merged.operator = req.operator
    OBVIOUS
<1>5. CASE req.operator = "In"
    <2>1. labels[req.key] \in merged.values
        BY <1>2, <1>4, <1>5 DEF Matches
    <2>2. PICK o \in similar : labels[req.key] \in o.values
        BY <2>1
    <2>3. Matches(o, labels)
        BY <1>5, <2>2 DEF Matches
    <2>4. QED
        BY <2>2, <2>3 DEF MatchesOne
<1>6. CASE req.operator # "In"
    <2>1. labels[req.key] \notin merged.values => labels[req.key] \notin req.values
        BY <1>3
    <2>2. Matches(req, labels)
        BY <1>2, <1>4, <1>6, <2>1 DEF Matches
    <2>3. QED
        BY <2>2 DEF MatchesOne
<1>7. QED
    BY <1>5, <1>6

\* For every set of rules and every object: if the selector of a LIST, made of
\* all the rules for it, matches the object, then the rules for GET let it
\* through (HandleListSelector, HandleGetSelector, AllowsOperation).
THEOREM ListImpliesGet ==
    ASSUME NEW gvk, NEW rules, NEW labels,
           GetClusterScopeRequirements(gvk, "List", rules) # {},
           SelectorMatches(HandleListSelector(GetClusterScopeRequirements(gvk, "List", rules)),
                           labels)
    PROVE  MatchesOne(GetClusterScopeRequirements(gvk, "Get", rules), labels)
<1> DEFINE reqs == GetClusterScopeRequirements(gvk, "List", rules)
<1>1. PICK req \in reqs : TRUE
    OBVIOUS
<1> HIDE DEF reqs
<1>2. SelectorMatches(HandleListSelector(reqs), labels)
    BY DEF reqs
<1>3. MatchesOne(reqs, labels)
    BY <1>1, <1>2, MergedMatchesOne
<1>4. reqs \subseteq GetClusterScopeRequirements(gvk, "Get", rules)
    BY ListRulesApplyToGet DEF reqs
<1>5. QED
    BY <1>3, <1>4 DEF MatchesOne

-----------------------------------------------------------------------------
(* Patterns that name an API group. *)

\* A pattern without a wildcard matches itself only.
LEMMA ExactPattern ==
    ASSUME NEW S, NEW pattern \in Seq(S), NEW value,
           \A i \in DOMAIN pattern : pattern[i] # "*",
           matchPattern(pattern, value)
    PROVE  pattern = value
<1>1. pattern # <<"*">>
    OBVIOUS
<1>2. QED
    BY <1>1 DEF matchPattern, Contains

\* A rule without wildcards and versions names the groups that it matches.
LEMMA ExactResource ==
    ASSUME NEW S, NEW gvk, NEW rule, matchResource(gvk, rule),
           \A pattern \in rule.apiGroups :
               pattern \in Seq(S) /\ \A i \in DOMAIN pattern : pattern[i] \notin {"*", "/"}
    PROVE  gvk.group \in rule.apiGroups
<1>1. PICK pattern \in rule.apiGroups :
          matchPattern(pattern, IF Contains(pattern, "/") THEN gvk.group \o <<"/">> \o gvk.version
                                ELSE gvk.group)
    BY DEF matchResource
<1>2. ~Contains(pattern, "/")
    BY <1>1 DEF Contains
<1>3. QED
    BY <1>1, <1>2, ExactPattern

-----------------------------------------------------------------------------
(***************************************************************************)
(* Induction up to n, by the pigeonhole principle: a set that has 0 and,   *)
(* below n, every successor, but not n, would be mapped one to one into    *)
(* itself without 0.                                                       *)
(***************************************************************************)
LEMMA SetInduction ==
    ASSUME NEW T, NEW n \in Nat, 0 \in T,
           \A k \in T : k \in 0..(n - 1) => k + 1 \in T
    PROVE  n \in T
<1> DEFINE U == {k \in 0..n : k \in T}
<1> DEFINE succ == [k \in U |-> k + 1]
<1> SUFFICES ASSUME n \notin T PROVE FALSE
    OBVIOUS
<1>1. U \subseteq 0..n /\ 0 \in U
    OBVIOUS
<1>2. succ \in [U -> U \ {0}] /\ \A j, k \in U : succ[j] = succ[k] => j = k
    OBVIOUS
<1> HIDE DEF U, succ
<1>3. IsFiniteSet(0..n)
    BY FS_Interval
<1>4. IsFiniteSet(U)
    BY <1>1, <1>3, FS_Subset
<1>5. Cardinality(U) \in Nat
    BY <1>4, FS_CardinalityType
<1>6. IsFiniteSet(U \ {0}) /\ Cardinality(U \ {0}) = Cardinality(U) - 1
    BY <1>1, <1>4, FS_RemoveElement
<1>7. Cardinality(U \ {0}) < Cardinality(U)
    BY <1>5, <1>6
<1>8. PICK j, k \in U : j # k /\ succ[j] = succ[k]
    BY <1>2, <1>4, <1>6, <1>7, FS_PigeonHole
<1>9. QED
    BY <1>2, <1>8

\* The least element of a set.
LEMMA LeastExists ==
    ASSUME NEW T \in SUBSET Nat, T # {}
    PROVE  Min(T) \in T /\ \A y \in T : Min(T) <= y
<1> DEFINE below == {k \in Nat : \A y \in T : k <= y}
<1>1. PICK n \in T : TRUE
    OBVIOUS
<1>2. \E x \in T : \A y \in T : x <= y
    <2> SUFFICES ASSUME \A x \in T : \E y \in T : ~(x <= y) PROVE FALSE
        OBVIOUS
    <2>1. 0 \in below
        OBVIOUS
    <2>2. ASSUME NEW k \in below PROVE k + 1 \in below
        <3>1. k \notin T
            OBVIOUS
        <3>2. QED
            BY <3>1
    <2>3. n + 1 \in Nat
        OBVIOUS
    <2> HIDE DEF below
    <2>4. n + 1 \in below
        BY <2>1, <2>2, <2>3, SetInduction
    <2>5. QED
        BY <1>1, <2>4 DEF below
<1>3. QED
    BY <1>2 DEF Min

\* f starts with base and takes the steps up to n.
Recurs(f, base, step, n) == f[0] = base /\ \A i \in 1..n : f[i] = step[i][f[i - 1]]

\* A function can be defined by recursion up to n.
LEMMA Recursion ==
    ASSUME NEW V, NEW base, NEW n, NEW step,
           base \in V, n \in Nat, step \in [1..n -> [V -> V]]
    PROVE  \E f \in [0..n -> V] : Recurs(f, base, step, n)
<1> DEFINE Upto(f, m) == f[0] = base /\ \A i \in 1..m : f[i] = step[i][f[i - 1]]
<1> DEFINE T == {m \in 0..n : \E f \in [0..m -> V] : Upto(f, m)}
<1>1. 0 \in T
    <2> DEFINE f == [i \in 0..0 |-> base]
    <2>1. f \in [0..0 -> V] /\ f[0] = base /\ 1..0 = {}
        OBVIOUS
    <2> HIDE DEF f
    <2>2. Upto(f, 0) /\ 0 \in 0..n
        BY <2>1
    <2>3. QED
        BY <2>1, <2>2
<1>2. ASSUME NEW m \in T, m \in 0..(n - 1) PROVE m + 1 \in T
    <2>1. m \in Nat /\ m + 1 \in 1..n
        BY <1>2
    <2>2. PICK g \in [0..m -> V] : Upto(g, m)
        OBVIOUS
    <2> DEFINE f == [i \in 0..(m + 1) |-> IF i <= m THEN g[i] ELSE step[i][g[m]]]
    <2>3. step[m + 1][g[m]] \in V
        BY <2>1
    <2>4. f \in [0..(m + 1) -> V]
        BY <2>1, <2>3
    <2>5. f[0] = base
        BY <2>1, <2>2
    <2>6. ASSUME NEW i \in 1..(m + 1)
          PROVE  f[i] = step[i][f[i - 1]]
        <3>1. CASE i <= m
            <4>1. g[i] = step[i][g[i - 1]]
                BY <2>1, <2>2, <3>1
            <4>2. f[i] = g[i] /\ f[i - 1] = g[i - 1]
                BY <2>1, <3>1
            <4>3. QED
                BY <4>1, <4>2
        <3>2. CASE i = m + 1
            <4>1. f[i] = step[i][g[m]] /\ f[i - 1] = g[m]
                BY <2>1, <3>2
            <4>2. QED
                BY <4>1
        <3>3. QED
            BY <2>1, <3>1, <3>2
    <2> HIDE DEF f
    <2>7. Upto(f, m + 1)
        BY <2>5, <2>6
    <2> HIDE DEF Upto
    <2>8. \E h \in [0..(m + 1) -> V] : Upto(h, m + 1)
        BY <2>4, <2>7
    <2>9. QED
        BY <2>1, <2>8
<1> HIDE DEF T
<1>3. n \in T
    BY <1>1, <1>2, SetInduction
<1>4. QED
    BY <1>3 DEF T, Recurs

\* Two functions that are defined by the same recursion are equal.
LEMMA RecursionAgrees ==
    ASSUME NEW n \in Nat, NEW f, NEW g, f[0] = g[0],
           \A i \in 1..n : f[i - 1] = g[i - 1] => f[i] = g[i]
    PROVE  f[n] = g[n]
<1> DEFINE T == {i \in 0..n : f[i] = g[i]}
<1>1. 0 \in T
    OBVIOUS
<1>2. ASSUME NEW k \in T, k \in 0..(n - 1) PROVE k + 1 \in T
    <2>1. k + 1 \in 1..n /\ (k + 1) - 1 = k
        BY <1>2
    <2>2. f[k + 1] = g[k + 1]
        BY <2>1
    <2>3. QED
        BY <2>1, <2>2
<1> HIDE DEF T
<1>3. n \in T
    BY <1>1, <1>2, SetInduction
<1>4. QED
    BY <1>3 DEF T

-----------------------------------------------------------------------------
(* The parts of a pattern, step by step. *)

IsParts(f, pattern, n) ==
    f = [i \in 0..n |->
            IF i = 0 THEN << << >> >>
            ELSE IF pattern[i] = "*" THEN Append(f[i - 1], << >>)
            ELSE [f[i - 1] EXCEPT ![Len(f[i - 1])] = Append(@, pattern[i])]]

\* The parts after one more element of the pattern.
NextParts(parts, e) ==
    IF e = "*" THEN Append(parts, << >>)
    ELSE [parts EXCEPT ![Len(parts)] = Append(@, e)]

PartsSeq(S) == {p \in Seq(Seq(S)) : Len(p) > 0}

LEMMA NextPartsType ==
    ASSUME NEW S, NEW parts \in PartsSeq(S), NEW e \in S
    PROVE  NextParts(parts, e) \in PartsSeq(S)
<1>1. parts \in Seq(Seq(S)) /\ Len(parts) \in Nat /\ Len(parts) > 0
    BY DEF PartsSeq
<1>2. CASE e = "*"
    <2>1. << >> \in Seq(S)
        OBVIOUS
    <2>2. Append(parts, << >>) \in Seq(Seq(S)) /\ Len(Append(parts, << >>)) = Len(parts) + 1
        BY <1>1, <2>1
    <2>3. QED
        BY <1>1, <1>2, <2>2 DEF NextParts, PartsSeq
<1>3. CASE e # "*"
    <2> DEFINE last == Append(parts[Len(parts)], e)
    <2>1. parts[Len(parts)] \in Seq(S)
        BY <1>1
    <2>2. last \in Seq(S)
        BY <2>1
    <2> HIDE DEF last
    <2>3. [parts EXCEPT ![Len(parts)] = last] \in Seq(Seq(S))
        BY <1>1, <2>2
    <2>4. Len([parts EXCEPT ![Len(parts)] = last]) = Len(parts)
        BY <1>1, <2>2
    <2>5. QED
        BY <1>1, <1>3, <2>3, <2>4 DEF NextParts, PartsSeq, last
<1>4. QED
    BY <1>2, <1>3

LEMMA PartsDefined ==
    ASSUME NEW S, NEW pattern \in Seq(S)
    PROVE  \E f \in [0..Len(pattern) -> PartsSeq(S)] :
              /\ f[0] = << << >> >>
              /\ \A i \in 1..Len(pattern) : f[i] = NextParts(f[i - 1], pattern[i])
              /\ Parts(pattern) = f[Len(pattern)]
<1> DEFINE n == Len(pattern)
<1> DEFINE V == PartsSeq(S)
<1> DEFINE base == << << >> >>
<1> DEFINE step == [i \in 1..n |-> [p \in V |-> NextParts(p, pattern[i])]]
<1>1. n \in Nat /\ \A i \in 1..n : pattern[i] \in S
    OBVIOUS
<1>2. base \in V
    <2>1. << >> \in Seq(S)
        OBVIOUS
    <2>2. << << >> >> \in Seq(Seq(S)) /\ Len(<< << >> >>) = 1
        BY <2>1
    <2>3. QED
        BY <2>2 DEF PartsSeq
<1>3. step \in [1..n -> [V -> V]]
    BY <1>1, NextPartsType
<1>4. PICK f \in [0..n -> V] : Recurs(f, base, step, n)
    <2> HIDE DEF step, V, base, n
    <2>1. n \in Nat
        BY <1>1
    <2>2. QED
        BY <1>2, <1>3, <2>1, Recursion
<1>5. \A i \in 1..n : f[i] = NextParts(f[i - 1], pattern[i])
    <2> HIDE DEF V
    <2>1. SUFFICES ASSUME NEW i \in 1..n PROVE f[i] = NextParts(f[i - 1], pattern[i])
        OBVIOUS
    <2>2. f[i - 1] \in V
        BY <1>1
    <2>3. QED
        BY <1>4, <2>2 DEF Recurs
<1> HIDE DEF step, V, base
<1>6. IsParts(f, pattern, n)
    <2>1. f = [i \in 0..n |-> f[i]]
        OBVIOUS
    <2>2. ASSUME NEW i \in 0..n
          PROVE  f[i] = IF i = 0 THEN base ELSE NextParts(f[i - 1], pattern[i])
        <3>1. i = 0 \/ i \in 1..n
            BY <1>1
        <3>2. QED
            BY <1>4, <1>5, <3>1 DEF Recurs
    <2>3. QED
        BY <2>1, <2>2 DEF IsParts, NextParts, base
<1> DEFINE chosen == CHOOSE g : IsParts(g, pattern, n)
<1>7. IsParts(chosen, pattern, n)
    BY <1>6
<1>8. Parts(pattern) = chosen[n]
    BY Zenon DEF Parts, IsParts
<1> HIDE DEF chosen
<1>9. \A i \in 0..n : chosen[i] = IF i = 0 THEN base
                                 ELSE IF pattern[i] = "*" THEN Append(chosen[i - 1], << >>)
                                 ELSE [chosen[i - 1] EXCEPT ![Len(chosen[i - 1])] = Append(@, pattern[i])]
    BY <1>7, Zenon DEF IsParts, base
<1>10. chosen[0] = f[0]
    <2>1. 0 \in 0..n
        BY <1>1
    <2>2. QED
        BY <1>4, <1>9, <2>1 DEF Recurs
<1>11. ASSUME NEW i \in 1..n, chosen[i - 1] = f[i - 1] PROVE chosen[i] = f[i]
    <2>1. i \in 0..n /\ i # 0
        BY <1>1
    <2>2. chosen[i] = NextParts(chosen[i - 1], pattern[i])
        BY <1>9, <2>1, Zenon DEF NextParts
    <2>3. QED
        BY <1>5, <1>11, <2>2
<1>12. chosen[n] = f[n]
    BY <1>1, <1>10, <1>11, RecursionAgrees
<1>13. QED
    BY <1>4, <1>5, <1>8, <1>12 DEF Recurs, V, base

-----------------------------------------------------------------------------
(* The search for the parts, step by step. *)

\* Where the search goes on after a part.
NextIdx(value, part, idx) ==
    IF idx < 0 \/ Starts(value, part, idx) = {} THEN -1
    ELSE Min(Starts(value, part, idx)) + Len(part)

IsSearch(f, parts, value, n) ==
    f = [k \in 0..n |->
            IF k = 0 THEN 0
            ELSE IF f[k - 1] < 0 \/ Starts(value, parts[k], f[k - 1]) = {} THEN -1
            ELSE Min(Starts(value, parts[k], f[k - 1])) + Len(parts[k])]

LEMMA NextIdxLeast ==
    ASSUME NEW S, NEW value \in Seq(S), NEW part \in Seq(S), NEW idx \in Int
    PROVE  /\ NextIdx(value, part, idx) \in Int
           /\ idx >= 0 => \A i \in Starts(value, part, idx) :
                              NextIdx(value, part, idx) \in 0..(i + Len(part))
<1> DEFINE starts == Starts(value, part, idx)
<1>1. Len(value) \in Nat /\ Len(part) \in Nat
    OBVIOUS
<1>2. CASE idx < 0 \/ starts = {}
    BY <1>2 DEF NextIdx
<1>3. CASE idx >= 0 /\ starts # {}
    <2>1. starts \in SUBSET Nat
        BY <1>1, <1>3 DEF Starts
    <2>2. NextIdx(value, part, idx) = Min(starts) + Len(part)
        BY <1>3 DEF NextIdx
    <2> HIDE DEF starts
    <2>3. Min(starts) \in starts /\ \A i \in starts : Min(starts) <= i
        BY <1>3, <2>1, LeastExists
    <2>4. Min(starts) \in Nat
        BY <2>1, <2>3
    <2>5. ASSUME NEW i \in starts
          PROVE  NextIdx(value, part, idx) \in 0..(i + Len(part))
        BY <1>1, <2>1, <2>2, <2>3, <2>4
    <2>6. QED
        BY <1>1, <2>2, <2>4, <2>5 DEF starts
<1>4. QED
    BY <1>2, <1>3

LEMMA SearchDefined ==
    ASSUME NEW S, NEW value \in Seq(S), NEW parts \in Seq(Seq(S))
    PROVE  \E f \in [0..Len(parts) -> Int] :
              /\ f[0] = 0
              /\ \A k \in 1..Len(parts) : f[k] = NextIdx(value, parts[k], f[k - 1])
              /\ SearchParts(parts, value) = f[Len(parts)]
<1> DEFINE n == Len(parts)
<1> DEFINE step == [k \in 1..n |-> [idx \in Int |-> NextIdx(value, parts[k], idx)]]
<1>1. n \in Nat /\ \A k \in 1..n : parts[k] \in Seq(S)
    OBVIOUS
<1>2. step \in [1..n -> [Int -> Int]]
    BY <1>1, NextIdxLeast
<1>3. PICK f \in [0..n -> Int] : Recurs(f, 0, step, n)
    <2> HIDE DEF step, n
    <2>1. n \in Nat /\ 0 \in Int
        BY <1>1
    <2>2. QED
        BY <1>2, <2>1, Recursion
<1>4. ASSUME NEW k \in 1..n
      PROVE  f[k] = NextIdx(value, parts[k], f[k - 1])
    <2>1. k - 1 \in 0..n
        BY <1>1
    <2>2. f[k] = step[k][f[k - 1]]
        BY <1>3 DEF Recurs
    <2>3. f[k - 1] \in Int
        <3> HIDE DEF n, step
        <3>1. QED
            BY <2>1
    <2>4. QED
        BY <2>2, <2>3
<1> HIDE DEF step
<1>5. f[0] = 0
    BY <1>3 DEF Recurs
<1>6. IsSearch(f, parts, value, n)
    <2>1. f = [k \in 0..n |-> f[k]]
        OBVIOUS
    <2>2. ASSUME NEW k \in 0..n
          PROVE  f[k] = IF k = 0 THEN 0 ELSE NextIdx(value, parts[k], f[k - 1])
        <3>1. k = 0 \/ k \in 1..n
            BY <1>1
        <3>2. QED
            BY <1>4, <1>5, <3>1
    <2>3. QED
        BY <2>1, <2>2 DEF IsSearch, NextIdx
<1> DEFINE chosen == CHOOSE g : IsSearch(g, parts, value, n)
<1>7. IsSearch(chosen, parts, value, n)
    BY <1>6
<1>8. SearchParts(parts, value) = chosen[n]
    BY Zenon DEF SearchParts, IsSearch
<1> HIDE DEF chosen
<1>9. \A k \in 0..n :
          chosen[k] = IF k = 0 THEN 0
                      ELSE IF chosen[k - 1] < 0 \/ Starts(value, parts[k], chosen[k - 1]) = {} THEN -1
                      ELSE Min(Starts(value, parts[k], chosen[k - 1])) + Len(parts[k])
    BY <1>7, Zenon DEF IsSearch
<1>10. chosen[0] = f[0]
    <2>1. 0 \in 0..n
        BY <1>1
    <2>2. QED
        BY <1>5, <1>9, <2>1
<1>11. ASSUME NEW k \in 1..n, chosen[k - 1] = f[k - 1] PROVE chosen[k] = f[k]
    <2>1. k \in 0..n /\ k # 0
        BY <1>1
    <2>2. chosen[k] = NextIdx(value, parts[k], chosen[k - 1])
        BY <1>9, <2>1, Zenon DEF NextIdx
    <2>3. QED
        BY <1>4, <1>11, <2>2
<1>12. chosen[n] = f[n]
    BY <1>1, <1>10, <1>11, RecursionAgrees
<1>13. QED
    BY <1>4, <1>5, <1>8, <1>12

-----------------------------------------------------------------------------
(* What a pattern is meant to match, step by step. *)

NextMatch(value, e, m) ==
    IF e = "*" THEN {j \in 0..Len(value) : \E h \in m : h <= j}
    ELSE {j \in 1..Len(value) : e = value[j] /\ j - 1 \in m}

IsMatch(f, pattern, value, n) ==
    f = [i \in 0..n |->
            IF i = 0 THEN {0}
            ELSE IF pattern[i] = "*" THEN {j \in 0..Len(value) : \E h \in f[i - 1] : h <= j}
            ELSE {j \in 1..Len(value) : pattern[i] = value[j] /\ j - 1 \in f[i - 1]}]

LEMMA GlobDefined ==
    ASSUME NEW S, NEW value \in Seq(S), NEW pattern \in Seq(S)
    PROVE  \E f \in [0..Len(pattern) -> SUBSET (0..Len(value))] :
              /\ f[0] = {0}
              /\ \A i \in 1..Len(pattern) : f[i] = NextMatch(value, pattern[i], f[i - 1])
              /\ Glob(pattern, value) <=> Len(value) \in f[Len(pattern)]
<1> DEFINE n == Len(pattern)
<1> DEFINE V == SUBSET (0..Len(value))
<1> DEFINE base == {0}
<1> DEFINE step == [i \in 1..n |-> [m \in V |-> NextMatch(value, pattern[i], m)]]
<1>1. n \in Nat /\ Len(value) \in Nat
    OBVIOUS
<1>2. base \in V
    BY <1>1
<1>3. step \in [1..n -> [V -> V]]
    <2>1. \A i \in 1..n, m \in V : NextMatch(value, pattern[i], m) \in V
        BY <1>1 DEF NextMatch
    <2> HIDE DEF V
    <2>2. QED
        BY <2>1
<1>4. PICK f \in [0..n -> V] : Recurs(f, base, step, n)
    <2> HIDE DEF step, V, base, n
    <2>1. n \in Nat
        BY <1>1
    <2>2. QED
        BY <1>2, <1>3, <2>1, Recursion
<1>5. ASSUME NEW i \in 1..n
      PROVE  f[i] = NextMatch(value, pattern[i], f[i - 1])
    <2> HIDE DEF V
    <2>1. f[i - 1] \in V
        BY <1>1
    <2>2. QED
        BY <1>4, <2>1 DEF Recurs
<1> HIDE DEF step, V, base
<1>6. f[0] = base
    BY <1>4 DEF Recurs
<1>7. IsMatch(f, pattern, value, n)
    <2>1. f = [i \in 0..n |-> f[i]]
        OBVIOUS
    <2>2. ASSUME NEW i \in 0..n
          PROVE  f[i] = IF i = 0 THEN base ELSE NextMatch(value, pattern[i], f[i - 1])
        <3>1. i = 0 \/ i \in 1..n
            BY <1>1
        <3>2. QED
            BY <1>5, <1>6, <3>1
    <2>3. QED
        BY <2>1, <2>2 DEF IsMatch, NextMatch, base
<1> DEFINE chosen == CHOOSE g : IsMatch(g, pattern, value, n)
<1>8. IsMatch(chosen, pattern, value, n)
    BY <1>7
<1>9. Glob(pattern, value) <=> Len(value) \in chosen[n]
    BY Zenon DEF Glob, IsMatch
<1> HIDE DEF chosen
<1>10. \A i \in 0..n :
          chosen[i] = IF i = 0 THEN base
                      ELSE IF pattern[i] = "*" THEN {j \in 0..Len(value) : \E h \in chosen[i - 1] : h <= j}
                      ELSE {j \in 1..Len(value) : pattern[i] = value[j] /\ j - 1 \in chosen[i - 1]}
    BY <1>8, Zenon DEF IsMatch, base
<1>11. chosen[0] = f[0]
    <2>1. 0 \in 0..n
        BY <1>1
    <2>2. QED
        BY <1>6, <1>10, <2>1
<1>12. ASSUME NEW i \in 1..n, chosen[i - 1] = f[i - 1] PROVE chosen[i] = f[i]
    <2>1. i \in 0..n /\ i # 0
        BY <1>1
    <2>2. chosen[i] = NextMatch(value, pattern[i], chosen[i - 1])
        BY <1>10, <2>1, Zenon DEF NextMatch
    <2>3. QED
        BY <1>5, <1>12, <2>2
<1>13. chosen[n] = f[n]
    BY <1>1, <1>11, <1>12, RecursionAgrees
<1>14. QED
    BY <1>5, <1>6, <1>9, <1>13 DEF V, base

-----------------------------------------------------------------------------
(***************************************************************************)
(* A pattern that is meant to match a value has its parts in it, in order. *)
(***************************************************************************)

\* The part is in the value after its first p elements.
At(value, part, p) ==
    p + Len(part) <= Len(value) /\ \A h \in 1..Len(part) : value[p + h] = part[h]

\* pos places the parts one after the other: the first at the start of the
\* value, the last so that it ends after j elements.
Placed(parts, value, pos, j) ==
    /\ pos \in [1..Len(parts) -> Nat]
    /\ pos[1] = 0
    /\ \A k \in 1..Len(parts) : At(value, parts[k], pos[k])
    /\ \A k \in 1..(Len(parts) - 1) : pos[k] + Len(parts[k]) <= pos[k + 1]
    /\ pos[Len(parts)] + Len(parts[Len(parts)]) = j

LEMMA StarPlaced ==
    ASSUME NEW S, NEW value \in Seq(S), NEW parts \in PartsSeq(S), NEW pos, NEW h,
           Placed(parts, value, pos, h), NEW j \in 0..Len(value), h <= j
    PROVE  \E p : Placed(NextParts(parts, "*"), value, p, j)
<1> DEFINE n == Len(parts)
<1> DEFINE next == NextParts(parts, "*")
<1> DEFINE p == [k \in 1..(n + 1) |-> IF k <= n THEN pos[k] ELSE j]
<1>1. parts \in Seq(Seq(S)) /\ n \in Nat /\ n > 0 /\ Len(value) \in Nat
    BY DEF PartsSeq
<1>2. next = Append(parts, << >>)
    BY DEF NextParts
<1>3. << >> \in Seq(S) /\ Len(<< >>) = 0
    OBVIOUS
<1>4. Len(next) = n + 1 /\ next[n + 1] = << >> /\ \A k \in 1..n : next[k] = parts[k]
    <2> DEFINE empty == << >>
    <2>1. empty \in Seq(S) /\ next = Append(parts, empty)
        BY <1>2, <1>3
    <2> HIDE DEF empty, next
    <2>2. Len(next) = n + 1
        BY <1>1, <2>1
    <2>3. next[n + 1] = empty
        BY <1>1, <2>1
    <2>4. \A k \in 1..n : next[k] = parts[k]
        BY <1>1, <2>1
    <2>5. QED
        BY <2>2, <2>3, <2>4 DEF empty
<1>5. pos \in [1..n -> Nat] /\ pos[1] = 0 /\ pos[n] + Len(parts[n]) = h
    BY DEF Placed
<1>6. p \in [1..(n + 1) -> Nat] /\ p[1] = 0 /\ p[n + 1] = j /\ \A k \in 1..n : p[k] = pos[k]
    BY <1>1, <1>5
<1> HIDE DEF next, p
<1>7. ASSUME NEW k \in 1..(n + 1)
      PROVE  At(value, next[k], p[k])
    <2>1. CASE k \in 1..n
        <3>1. At(value, parts[k], pos[k])
            BY <2>1 DEF Placed
        <3>2. QED
            BY <1>4, <1>6, <2>1, <3>1
    <2>2. CASE k = n + 1
        BY <1>1, <1>3, <1>4, <1>6, <2>2 DEF At
    <2>3. QED
        BY <1>1, <2>1, <2>2
<1>8. ASSUME NEW k \in 1..n
      PROVE  p[k] + Len(next[k]) <= p[k + 1]
    <2>1. CASE k = n
        BY <1>1, <1>4, <1>5, <1>6, <2>1
    <2>2. CASE k # n
        <3>1. k \in 1..(n - 1) /\ k + 1 \in 1..n
            BY <1>1, <2>2
        <3>2. pos[k] + Len(parts[k]) <= pos[k + 1]
            BY <3>1 DEF Placed
        <3>3. QED
            BY <1>4, <1>6, <3>1, <3>2
    <2>3. QED
        BY <2>1, <2>2
<1>9. p[n + 1] + Len(next[n + 1]) = j
    BY <1>1, <1>3, <1>4, <1>6
<1>10. (n + 1) - 1 = n
    BY <1>1
<1>11. Placed(next, value, p, j)
    BY <1>4, <1>6, <1>7, <1>8, <1>9, <1>10 DEF Placed
<1>12. QED
    BY <1>11 DEF next

LEMMA ElementPlaced ==
    ASSUME NEW S, NEW value \in Seq(S), NEW parts \in PartsSeq(S), NEW pos,
           NEW j \in 1..Len(value), Placed(parts, value, pos, j - 1),
           NEW e \in S, e # "*", e = value[j]
    PROVE  Placed(NextParts(parts, e), value, pos, j)
<1> DEFINE n == Len(parts)
<1> DEFINE last == Append(parts[n], e)
<1> DEFINE next == NextParts(parts, e)
<1>1. parts \in Seq(Seq(S)) /\ n \in Nat /\ n > 0 /\ Len(value) \in Nat
    BY DEF PartsSeq
<1>2. parts[n] \in Seq(S)
    BY <1>1
<1>3. /\ last \in Seq(S) /\ Len(last) = Len(parts[n]) + 1 /\ Len(parts[n]) \in Nat
      /\ last[Len(parts[n]) + 1] = e /\ \A h \in 1..Len(parts[n]) : last[h] = parts[n][h]
    BY <1>2
<1>4. next = [parts EXCEPT ![n] = last]
    BY DEF NextParts
<1> HIDE DEF last, next
<1>5. Len(next) = n /\ next[n] = last /\ \A k \in 1..(n - 1) : next[k] = parts[k]
    BY <1>1, <1>3, <1>4
<1>6. pos \in [1..n -> Nat] /\ pos[1] = 0 /\ pos[n] + Len(parts[n]) = j - 1
    BY DEF Placed
<1> HIDE DEF n
<1>7. pos[n] \in Nat /\ pos[n] + Len(last) = j
    <2>1. n \in 1..n
        BY <1>1
    <2>2. pos[n] \in Nat
        BY <1>6, <2>1
    <2>3. j \in Int
        BY <1>1
    <2>4. QED
        BY <1>3, <1>6, <2>2, <2>3, SMT
<1>8. ASSUME NEW k \in 1..n
      PROVE  At(value, next[k], pos[k])
    <2>1. At(value, parts[k], pos[k])
        BY DEF Placed, n
    <2>2. CASE k = n
        <3>1. pos[n] + Len(last) = j /\ pos[n] \in Nat
            BY <1>7
        <3>2. ASSUME NEW h \in 1..Len(last)
              PROVE  value[pos[n] + h] = last[h]
            <4>1. CASE h \in 1..Len(parts[n])
                BY <1>3, <2>1, <2>2, <4>1 DEF At
            <4>2. CASE h = Len(parts[n]) + 1
                <5>1. pos[n] + h = j
                    BY <1>3, <3>1, <4>2
                <5>2. QED
                    BY <1>3, <4>2, <5>1
            <4>3. QED
                BY <1>3, <4>1, <4>2
        <3>3. QED
            BY <1>5, <2>2, <3>1, <3>2 DEF At
    <2>3. CASE k # n
        BY <1>1, <1>5, <2>1, <2>3
    <2>4. QED
        BY <2>2, <2>3
<1>9. ASSUME NEW k \in 1..(n - 1)
      PROVE  pos[k] + Len(next[k]) <= pos[k + 1]
    BY <1>5 DEF Placed, n
<1>10. pos[n] + Len(next[n]) = j
    BY <1>5, <1>7
<1>11. Placed(next, value, pos, j)
    BY <1>5, <1>6, <1>8, <1>9, <1>10 DEF Placed
<1>12. QED
    BY <1>11 DEF next

LEMMA GlobPlaces ==
    ASSUME NEW S, NEW pattern \in Seq(S), NEW value \in Seq(S), Glob(pattern, value)
    PROVE  \E pos : Placed(Parts(pattern), value, pos, Len(value))
<1> DEFINE n == Len(pattern)
<1>1. n \in Nat /\ Len(value) \in Nat /\ \A i \in 1..n : pattern[i] \in S
    OBVIOUS
<1>2. PICK f \in [0..n -> PartsSeq(S)] :
          /\ f[0] = << << >> >>
          /\ \A i \in 1..n : f[i] = NextParts(f[i - 1], pattern[i])
          /\ Parts(pattern) = f[n]
    BY PartsDefined
<1>3. PICK m \in [0..n -> SUBSET (0..Len(value))] :
          /\ m[0] = {0}
          /\ \A i \in 1..n : m[i] = NextMatch(value, pattern[i], m[i - 1])
          /\ Len(value) \in m[n]
    BY GlobDefined
<1> DEFINE T == {i \in 0..n : \A j \in m[i] : \E pos : Placed(f[i], value, pos, j)}
<1> HIDE DEF n
<1>4. 0 \in T
    <2> DEFINE parts == << << >> >>
    <2> DEFINE pos == [k \in 1..1 |-> 0]
    <2>1. Len(parts) = 1 /\ parts[1] = << >> /\ Len(parts[1]) = 0
        OBVIOUS
    <2>2. pos \in [1..1 -> Nat] /\ pos[1] = 0 /\ 1..(1 - 1) = {}
        OBVIOUS
    <2> HIDE DEF parts, pos
    <2>3. At(value, parts[1], pos[1])
        BY <1>1, <2>1, <2>2 DEF At
    <2>4. Placed(parts, value, pos, 0)
        BY <2>1, <2>2, <2>3 DEF Placed
    <2>5. 0 \in 0..n /\ f[0] = parts /\ \A j \in m[0] : j = 0
        BY <1>1, <1>2, <1>3 DEF parts
    <2>6. QED
        BY <2>4, <2>5
<1>5. ASSUME NEW i \in T, i \in 0..(n - 1) PROVE i + 1 \in T
    <2>1. i + 1 \in 1..n /\ (i + 1) - 1 = i
        BY <1>1, <1>5
    <2>2. /\ f[i + 1] = NextParts(f[i], pattern[i + 1])
          /\ m[i + 1] = NextMatch(value, pattern[i + 1], m[i])
        BY <1>2, <1>3, <2>1
    <2>3. f[i] \in PartsSeq(S) /\ pattern[i + 1] \in S /\ m[i] \in SUBSET (0..Len(value))
        BY <1>1, <2>1
    <2>4. ASSUME NEW j \in m[i + 1]
          PROVE  \E pos : Placed(f[i + 1], value, pos, j)
        <3>1. CASE pattern[i + 1] = "*"
            <4>1. j \in 0..Len(value) /\ \E h \in m[i] : h <= j
                BY <2>2, <2>4, <3>1 DEF NextMatch
            <4>2. PICK h \in m[i] : h <= j
                BY <4>1
            <4>3. PICK pos : Placed(f[i], value, pos, h)
                OBVIOUS
            <4>4. QED
                BY <2>2, <2>3, <3>1, <4>1, <4>2, <4>3, StarPlaced
        <3>2. CASE pattern[i + 1] # "*"
            <4>1. j \in 1..Len(value) /\ pattern[i + 1] = value[j] /\ j - 1 \in m[i]
                BY <2>2, <2>4, <3>2 DEF NextMatch
            <4>2. PICK pos : Placed(f[i], value, pos, j - 1)
                BY <4>1
            <4>3. Placed(f[i + 1], value, pos, j)
                BY <2>2, <2>3, <3>2, <4>1, <4>2, ElementPlaced
            <4>4. QED
                BY <4>3
        <3>3. QED
            BY <3>1, <3>2
    <2>5. i + 1 \in 0..n
        BY <1>1, <2>1
    <2>6. QED
        BY <2>4, <2>5
<1> HIDE DEF T
<1>6. n \in T
    BY <1>1, <1>4, <1>5, SetInduction
<1>7. QED
    BY <1>2, <1>3, <1>6 DEF T

\* Two sequences of the same length and with the same elements are equal.
LEMMA SameSeq ==
    ASSUME NEW S, NEW s \in Seq(S), NEW t \in Seq(S), Len(s) = Len(t),
           \A i \in 1..Len(s) : s[i] = t[i]
    PROVE  s = t
    OBVIOUS

LEMMA AtSubSeq ==
    ASSUME NEW S, NEW value \in Seq(S), NEW part \in Seq(S), NEW p \in Nat,
           At(value, part, p)
    PROVE  SubSeq(value, p + 1, p + Len(part)) = part
<1> DEFINE sub == SubSeq(value, p + 1, p + Len(part))
<1>1. Len(value) \in Nat /\ Len(part) \in Nat /\ p + Len(part) <= Len(value)
    BY DEF At
<1>2. Len(sub) = Len(part)
    BY <1>1
<1>3. sub \in Seq(S)
    BY <1>1
<1>4. ASSUME NEW i \in 1..Len(part)
      PROVE  sub[i] = part[i]
    <2>1. sub[i] = value[p + i]
        BY <1>1
    <2>2. QED
        BY <2>1 DEF At
<1> HIDE DEF sub
<1>5. sub = part
    BY <1>2, <1>3, <1>4, SameSeq
<1>6. QED
    BY <1>5 DEF sub

\* The search finds every part no later than where it is placed.
LEMMA SearchFinds ==
    ASSUME NEW S, NEW value \in Seq(S), NEW parts \in PartsSeq(S), NEW pos, NEW j,
           Placed(parts, value, pos, j)
    PROVE  SearchParts(parts, value) >= 0
<1> DEFINE n == Len(parts)
<1>1. parts \in Seq(Seq(S)) /\ n \in Nat /\ n > 0 /\ Len(value) \in Nat
    BY DEF PartsSeq
<1>2. \A k \in 1..n : parts[k] \in Seq(S) /\ Len(parts[k]) \in Nat
    BY <1>1
<1>3. PICK f \in [0..n -> Int] :
          /\ f[0] = 0
          /\ \A k \in 1..n : f[k] = NextIdx(value, parts[k], f[k - 1])
          /\ SearchParts(parts, value) = f[n]
    BY <1>1, SearchDefined
<1>4. /\ pos \in [1..n -> Nat] /\ pos[1] = 0
      /\ \A k \in 1..n : At(value, parts[k], pos[k])
      /\ \A k \in 1..(n - 1) : pos[k] + Len(parts[k]) <= pos[k + 1]
    BY DEF Placed
<1> DEFINE T == {k \in 0..n : f[k] \in Nat /\ (k > 0 => f[k] <= pos[k] + Len(parts[k]))}
<1> HIDE DEF n
<1>5. 0 \in T
    BY <1>1, <1>3
<1>6. ASSUME NEW k \in T, k \in 0..(n - 1) PROVE k + 1 \in T
    <2>1. k + 1 \in 1..n /\ (k + 1) - 1 = k /\ k + 1 \in 0..n
        BY <1>1, <1>6
    <2>2. f[k] \in Nat /\ f[k] \in Int
        OBVIOUS
    <2> DEFINE part == parts[k + 1]
    <2> DEFINE q == pos[k + 1]
    <2>3. part \in Seq(S) /\ Len(part) \in Nat /\ q \in Nat /\ At(value, part, q)
        BY <1>2, <1>4, <2>1
    <2>4. f[k] <= q
        <3>1. CASE k = 0
            BY <1>3, <1>4, <3>1
        <3>2. CASE k > 0
            <4>1. k \in 1..(n - 1) /\ k \in 1..n
                BY <1>1, <1>6, <3>2
            <4>2. pos[k] \in Nat /\ Len(parts[k]) \in Nat
                BY <1>2, <1>4, <4>1
            <4>3. pos[k] + Len(parts[k]) <= q
                BY <1>4, <4>1
            <4>4. f[k] <= pos[k] + Len(parts[k])
                BY <3>2
            <4>5. QED
                BY <2>2, <2>3, <4>2, <4>3, <4>4
        <3>3. QED
            BY <1>1, <1>6, <3>1, <3>2
    <2>5. f[k + 1] = NextIdx(value, part, f[k])
        BY <1>3, <2>1
    <2> HIDE DEF part, q
    <2>6. q \in Starts(value, part, f[k])
        <3>1. SubSeq(value, q + 1, q + Len(part)) = part
            BY <2>3, AtSubSeq
        <3>2. q \in f[k]..(Len(value) - Len(part))
            <4>1. q + Len(part) <= Len(value)
                BY <2>3 DEF At
            <4>2. QED
                BY <1>1, <2>2, <2>3, <2>4, <4>1
        <3>3. QED
            BY <3>1, <3>2 DEF Starts
    <2>7. f[k] >= 0
        BY <2>2
    <2>8. NextIdx(value, part, f[k]) \in 0..(q + Len(part))
        BY <2>2, <2>3, <2>6, <2>7, NextIdxLeast
    <2>9. f[k + 1] \in Nat /\ f[k + 1] <= q + Len(part)
        BY <2>3, <2>5, <2>8
    <2>10. QED
        BY <2>1, <2>9 DEF part, q
<1> HIDE DEF T
<1>7. n \in T
    BY <1>1, <1>5, <1>6, SetInduction
<1>8. QED
    BY <1>3, <1>7 DEF T

\* A pattern without a wildcard is meant to match itself only, and the other
\* elements of a pattern occur in what it is meant to match.
LEMMA GlobElements ==
    ASSUME NEW S, NEW pattern \in Seq(S), NEW value \in Seq(S), Glob(pattern, value)
    PROVE  /\ (\A i \in 1..Len(pattern) : pattern[i] # "*") => pattern = value
           /\ \A i \in 1..Len(pattern) :
                  pattern[i] = "*" \/ \E g \in 1..Len(value) : value[g] = pattern[i]
<1> DEFINE n == Len(pattern)
<1>1. n \in Nat /\ Len(value) \in Nat
    OBVIOUS
<1>2. PICK m \in [0..n -> SUBSET (0..Len(value))] :
          /\ m[0] = {0}
          /\ \A i \in 1..n : m[i] = NextMatch(value, pattern[i], m[i - 1])
          /\ Len(value) \in m[n]
    BY GlobDefined
<1> DEFINE Occurs(i) == pattern[i] = "*" \/ \E g \in 1..Len(value) : value[g] = pattern[i]
<1> DEFINE plain == \A i \in 1..n : pattern[i] # "*"
<1> DEFINE T == {i \in 0..n :
                    \A j \in m[i] :
                        /\ \A h \in 1..i : Occurs(h)
                        /\ plain => j = i /\ \A h \in 1..i : pattern[h] = value[h]}
<1>3. 0 \in T
    <2>1. 0 \in 0..n /\ 1..0 = {}
        BY <1>1
    <2>2. \A j \in m[0] : j = 0
        BY <1>2
    <2> HIDE DEF Occurs, plain, n
    <2>3. QED
        BY <2>1, <2>2
<1>4. ASSUME NEW k \in T, k \in 0..(n - 1) PROVE k + 1 \in T
    <2>1. k + 1 \in 1..n /\ (k + 1) - 1 = k /\ k + 1 \in 0..n /\ k \in Nat
        BY <1>1, <1>4
    <2>2. m[k + 1] = NextMatch(value, pattern[k + 1], m[k])
        BY <1>2, <2>1
    <2>3. ASSUME NEW j \in m[k + 1]
          PROVE  /\ \A h \in 1..(k + 1) : Occurs(h)
                 /\ plain => j = k + 1 /\ \A h \in 1..(k + 1) : pattern[h] = value[h]
        <3>1. \A h \in 1..(k + 1) : h \in 1..k \/ h = k + 1
            BY <2>1
        <3>2. CASE pattern[k + 1] = "*"
            <4>1. PICK g \in m[k] : g <= j
                BY <2>2, <2>3, <3>2 DEF NextMatch
            <4>2. Occurs(k + 1) /\ ~plain
                BY <2>1, <3>2
            <4> HIDE DEF Occurs, plain
            <4>3. QED
                BY <3>1, <4>1, <4>2
        <3>3. CASE pattern[k + 1] # "*"
            <4>1. j \in 1..Len(value) /\ pattern[k + 1] = value[j] /\ j - 1 \in m[k]
                BY <2>2, <2>3, <3>3 DEF NextMatch
            <4>2. Occurs(k + 1)
                BY <4>1
            <4> HIDE DEF Occurs, plain, n
            <4>3. \A h \in 1..(k + 1) : Occurs(h)
                BY <3>1, <4>1, <4>2
            <4>4. ASSUME plain
                  PROVE  j = k + 1 /\ \A h \in 1..(k + 1) : pattern[h] = value[h]
                <5>1. j - 1 = k /\ \A h \in 1..k : pattern[h] = value[h]
                    BY <4>1, <4>4
                <5>2. j = k + 1
                    BY <1>1, <2>1, <4>1, <5>1
                <5>3. QED
                    BY <3>1, <4>1, <5>1, <5>2
            <4>5. QED
                BY <4>3, <4>4
        <3>4. QED
            BY <3>2, <3>3
    <2> HIDE DEF Occurs, plain, n
    <2>4. QED
        BY <2>1, <2>3
<1> HIDE DEF T
<1>5. n \in T
    BY <1>1, <1>3, <1>4, SetInduction
<1>6. (\A h \in 1..n : Occurs(h)) /\ (plain => Len(value) = n /\ \A h \in 1..n : pattern[h] = value[h])
    BY <1>2, <1>5 DEF T
<1>7. ASSUME plain PROVE pattern = value
    <2>1. Len(value) = n /\ \A h \in 1..n : pattern[h] = value[h]
        BY <1>6, <1>7
    <2>2. QED
        BY <2>1, SameSeq
<1>8. QED
    BY <1>6, <1>7

LEMMA AtPrefix ==
    ASSUME NEW S, NEW value \in Seq(S), NEW part \in Seq(S), At(value, part, 0)
    PROVE  IsPrefix(part, value)
<1>1. Len(value) \in Nat /\ Len(part) \in Nat /\ 0 + Len(part) = Len(part)
    OBVIOUS
<1>2. Len(part) <= Len(value)
    BY <1>1 DEF At
<1>3. SubSeq(value, 1, Len(part)) = part
    <2>1. SubSeq(value, 0 + 1, 0 + Len(part)) = part
        BY AtSubSeq
    <2>2. QED
        BY <1>1, <2>1
<1>4. SubSeq(part, 1, Len(part)) = part
    OBVIOUS
<1>5. QED
    BY <1>2, <1>3, <1>4 DEF IsPrefix

LEMMA AtSuffix ==
    ASSUME NEW S, NEW value \in Seq(S), NEW part \in Seq(S), NEW p \in Nat,
           At(value, part, p), p + Len(part) = Len(value)
    PROVE  IsSuffix(part, value)
<1> DEFINE rv == Reverse(value)
<1> DEFINE rp == Reverse(part)
<1>1. Len(value) \in Nat /\ Len(part) \in Nat
    OBVIOUS
<1>2. rv \in Seq(S) /\ Len(rv) = Len(value)
    BY <1>1 DEF Reverse
<1>3. rp \in Seq(S) /\ Len(rp) = Len(part)
    BY <1>1 DEF Reverse
<1>4. ASSUME NEW h \in 1..Len(part)
      PROVE  rv[h] = rp[h]
    <2> DEFINE g == (Len(part) - h) + 1
    <2>1. g \in 1..Len(part) /\ p + g = (Len(value) - h) + 1 /\ h \in 1..Len(value)
        BY <1>1
    <2>2. value[p + g] = part[g]
        BY <2>1 DEF At
    <2>3. rv[h] = value[(Len(value) - h) + 1] /\ rp[h] = part[g]
        BY <1>1, <2>1 DEF Reverse
    <2>4. QED
        BY <2>1, <2>2, <2>3
<1> HIDE DEF rv, rp
<1>5. At(rv, rp, 0)
    BY <1>1, <1>2, <1>3, <1>4 DEF At
<1>6. IsPrefix(rp, rv)
    BY <1>2, <1>3, <1>5, AtPrefix
<1>7. QED
    BY <1>6 DEF IsSuffix, rp, rv

\* For every pattern and value: matchPattern reports every value that the
\* pattern is meant to match, the wildcards standing for any run of characters.
\* The anchored cases and the search for the parts, which takes the first
\* occurrence of each, miss none (the converse is false, see the README).
THEOREM GlobMatches ==
    ASSUME NEW S, NEW pattern \in Seq(S), NEW value \in Seq(S), Glob(pattern, value)
    PROVE  matchPattern(pattern, value)
<1> DEFINE parts == Parts(pattern)
<1>1. parts \in PartsSeq(S)
    <2>1. PICK f \in [0..Len(pattern) -> PartsSeq(S)] : parts = f[Len(pattern)]
        BY PartsDefined
    <2>2. Len(pattern) \in 0..Len(pattern)
        OBVIOUS
    <2>3. QED
        BY <2>1, <2>2
<1>2. PICK pos : Placed(parts, value, pos, Len(value))
    BY GlobPlaces
<1>3. CASE ~Contains(pattern, "*")
    <2>1. \A i \in 1..Len(pattern) : pattern[i] # "*"
        BY <1>3 DEF Contains
    <2>2. pattern = value
        BY <2>1, GlobElements
    <2>3. QED
        BY <1>3, <2>2 DEF matchPattern
<1> HIDE DEF parts
<1>4. CASE Len(parts) = 2
    <2>1. parts[1] \in Seq(S) /\ parts[2] \in Seq(S)
        <3>1. parts \in Seq(Seq(S)) /\ 1 \in 1..Len(parts) /\ 2 \in 1..Len(parts)
            BY <1>1, <1>4 DEF PartsSeq
        <3>2. QED
            BY <3>1
    <2>2. /\ pos[1] = 0 /\ pos[2] \in Nat
          /\ At(value, parts[1], pos[1]) /\ At(value, parts[2], pos[2])
          /\ pos[2] + Len(parts[2]) = Len(value)
        BY <1>2, <1>4 DEF Placed
    <2>3. IsPrefix(parts[1], value)
        BY <2>1, <2>2, AtPrefix
    <2>4. IsSuffix(parts[2], value)
        BY <2>1, <2>2, AtSuffix
    <2>5. SearchParts(parts, value) >= 0
        BY <1>1, <1>2, SearchFinds
    <2>6. QED
        BY <1>3, <2>3, <2>4, <2>5 DEF matchPattern, parts
<1>5. CASE Len(parts) # 2
    <2>1. SearchParts(parts, value) >= 0
        BY <1>1, <1>2, SearchFinds
    <2>2. QED
        BY <1>3, <1>5, <2>1 DEF matchPattern, parts
<1>6. QED
    BY <1>4, <1>5

=============================================================================
