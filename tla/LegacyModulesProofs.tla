------------------------ MODULE LegacyModulesProofs ------------------------
(***************************************************************************)
(* Proofs about the modules that are registered without the feature gate:  *)
(* what a filtered request reaches is allowed for its method, and what a   *)
(* LIST has shown is found by a GET.                                       *)
(***************************************************************************)
EXTENDS LegacyModules, SelectorsProofs, FiniteSetTheorems, TLAPS

-----------------------------------------------------------------------------
(* The sorted names are the names: SliceStable loses and invents none. *)

\* One more name, in front of the sorted ones or behind them.
Inserted(exact, i, t) ==
    IF i > 1 /\ exact[i] < t[1] THEN <<exact[i]>> \o t ELSE Append(t, exact[i])

\* f sorts the first names of exact, up to n of them.
IsSort(f, exact, n) ==
    f = [i \in 0..n |-> IF i = 0 THEN << >>
                        ELSE IF i > 1 /\ exact[i] < f[i - 1][1] THEN <<exact[i]>> \o f[i - 1]
                        ELSE Append(f[i - 1], exact[i])]

LEMMA SortStep ==
    ASSUME NEW f, NEW exact, NEW n \in Nat, IsSort(f, exact, n)
    PROVE /\ f[0] = << >>
          /\ \A i \in 1..n : f[i] = Inserted(exact, i, f[i - 1])
<1>1. \A i \in 0..n : f[i] = IF i = 0 THEN << >>
                        ELSE IF i > 1 /\ exact[i] < f[i - 1][1] THEN <<exact[i]>> \o f[i - 1]
                        ELSE Append(f[i - 1], exact[i])
    BY Zenon DEF IsSort
<1>2. f[0] = << >>
    <2>1. 0 \in 0..n
        OBVIOUS
    <2>2. QED
        BY <1>1, <2>1
<1>3. ASSUME NEW i \in 1..n
      PROVE  f[i] = Inserted(exact, i, f[i - 1])
    <2>1. i \in 0..n /\ i # 0
        OBVIOUS
    <2>2. f[i] = IF i > 1 /\ exact[i] < f[i - 1][1] THEN <<exact[i]>> \o f[i - 1]
                 ELSE Append(f[i - 1], exact[i])
        BY <1>1, <2>1, Zenon
    <2>3. QED
        BY <2>2, Zenon DEF Inserted
<1>4. QED
    BY <1>2, <1>3

LEMMA SortExists ==
    ASSUME NEW exact, NEW n \in Nat
    PROVE  \E f : IsSort(f, exact, n)
<1> DEFINE T == {m \in Nat : \E f : IsSort(f, exact, m)}
<1>1. 0 \in T
    <2>1. IsSort([i \in 0..0 |-> << >>], exact, 0)
        BY DEF IsSort
    <2>2. QED
        BY <2>1
<1>2. ASSUME NEW m \in T PROVE m + 1 \in T
    <2>0. m \in Nat
        OBVIOUS
    <2>1. PICK g : IsSort(g, exact, m)
        OBVIOUS
    <2> HIDE DEF T
    <2> DEFINE f == [i \in 0..(m + 1) |-> IF i <= m THEN g[i] ELSE Inserted(exact, i, g[i - 1])]
    <2>2. ASSUME NEW i \in 0..(m + 1)
          PROVE  f[i] = IF i = 0 THEN << >> ELSE Inserted(exact, i, f[i - 1])
        <3>1. CASE i <= m
            <4>1. g[i] = IF i = 0 THEN << >> ELSE Inserted(exact, i, g[i - 1])
                BY <2>0, <2>1, <3>1, SortStep
            <4>2. QED
                BY <2>0, <3>1, <4>1
        <3>2. QED
            BY <2>0, <3>1
    <2>3. IsSort(f, exact, m + 1)
        BY <2>2 DEF IsSort, Inserted
    <2>4. QED
        BY <2>0, <2>3 DEF T
<1> HIDE DEF T
<1>3. n \in T
    BY <1>1, <1>2, SetInduction
<1>4. QED
    BY <1>3 DEF T

\* The recursive function that SliceStable chooses is one of those.
LEMMA SortDefined ==
    ASSUME NEW exact, Len(exact) \in Nat
    PROVE  \E f : IsSort(f, exact, Len(exact)) /\ SliceStable(exact) = f[Len(exact)]
<1> DEFINE sorted == CHOOSE g : IsSort(g, exact, Len(exact))
<1>1. \E g : IsSort(g, exact, Len(exact))
    BY SortExists
<1>2. IsSort(sorted, exact, Len(exact))
    BY <1>1
<1>3. SliceStable(exact) = sorted[Len(exact)]
    BY Zenon DEF SliceStable, IsSort
<1>4. QED
    BY <1>2, <1>3

LEMMA SortKeeps ==
    ASSUME NEW S, NEW exact \in Seq(S)
    PROVE  SliceStable(exact) \in Seq(S)
<1>1. Len(exact) \in Nat
    OBVIOUS
<1>2. PICK f : IsSort(f, exact, Len(exact)) /\ SliceStable(exact) = f[Len(exact)]
    BY <1>1, SortDefined
<1> DEFINE T == {i \in 0..Len(exact) : f[i] \in Seq(S)}
<1>3. f[0] = << >> /\ \A i \in 1..Len(exact) : f[i] = Inserted(exact, i, f[i - 1])
    BY <1>1, <1>2, SortStep
<1>4. ASSUME NEW k \in 0..(Len(exact) - 1), f[k] \in Seq(S) PROVE f[k + 1] \in Seq(S)
    <2>1. f[k + 1] = Inserted(exact, k + 1, f[k])
        <3>1. (k + 1) - 1 = k /\ k + 1 \in 1..Len(exact)
            OBVIOUS
        <3>2. QED
            BY <1>3, <3>1
    <2>2. exact[k + 1] \in S
        OBVIOUS
    <2>3. <<exact[k + 1]>> \o f[k] \in Seq(S) /\ Append(f[k], exact[k + 1]) \in Seq(S)
        BY <1>4, <2>2
    <2>4. QED
        BY <2>1, <2>3 DEF Inserted
<1>5. 0 \in T
    <2>1. 0 \in 0..Len(exact) /\ << >> \in Seq(S)
        BY <1>1
    <2>2. QED
        BY <1>3, <2>1
<1>6. \A k \in T : k \in 0..(Len(exact) - 1) => k + 1 \in T
    <2> SUFFICES ASSUME NEW k \in 0..(Len(exact) - 1), f[k] \in Seq(S) PROVE k + 1 \in T
        OBVIOUS
    <2>1. f[k + 1] \in Seq(S)
        BY <1>4
    <2>2. QED
        BY <2>1
<1> HIDE DEF T
<1>7. Len(exact) \in T
    BY <1>1, <1>5, <1>6, SetInduction
<1>8. f[Len(exact)] \in Seq(S)
    BY <1>7 DEF T
<1>9. QED
    BY <1>2, <1>8

-----------------------------------------------------------------------------
(* FlattenSeq, in the same way. *)

\* f concatenates the first sequences of seqs, up to n of them.
IsFlat(f, seqs, n) ==
    f = [i \in 1..n |-> IF i = 1 THEN seqs[i] ELSE f[i - 1] \o seqs[i]]

LEMMA FlatStep ==
    ASSUME NEW f, NEW seqs, NEW n \in Nat, IsFlat(f, seqs, n)
    PROVE  \A i \in 1..n : f[i] = IF i = 1 THEN seqs[i] ELSE f[i - 1] \o seqs[i]
    BY Zenon DEF IsFlat

LEMMA FlatExists ==
    ASSUME NEW seqs, NEW n \in Nat
    PROVE  \E f : IsFlat(f, seqs, n)
<1> DEFINE T == {m \in Nat : \E f : IsFlat(f, seqs, m)}
<1>1. 0 \in T
    <2>1. IsFlat([i \in 1..0 |-> << >>], seqs, 0)
        BY DEF IsFlat
    <2>2. QED
        BY <2>1
<1>2. ASSUME NEW m \in T PROVE m + 1 \in T
    <2>1. m \in Nat
        OBVIOUS
    <2>2. PICK g : IsFlat(g, seqs, m)
        OBVIOUS
    <2> HIDE DEF T
    <2> DEFINE next(i, t) == IF i = 1 THEN seqs[i] ELSE t \o seqs[i]
    <2> DEFINE f == [i \in 1..(m + 1) |-> IF i <= m THEN g[i] ELSE next(i, g[i - 1])]
    <2>3. \A i \in 1..m : g[i] = next(i, g[i - 1])
        BY <2>1, <2>2, FlatStep
    <2> HIDE DEF next
    <2>4. ASSUME NEW i \in 1..(m + 1)
          PROVE  f[i] = next(i, f[i - 1])
        <3>1. CASE i <= m
            <4>1. g[i] = next(i, g[i - 1])
                BY <2>1, <2>3, <3>1
            <4>2. CASE i = 1
                BY <2>1, <3>1, <4>1, <4>2 DEF next
            <4>3. CASE i # 1
                <5>1. i - 1 \in 1..(m + 1) /\ i - 1 <= m
                    BY <2>1, <4>3
                <5>2. f[i - 1] = g[i - 1] /\ f[i] = g[i]
                    BY <2>1, <3>1, <5>1
                <5>3. QED
                    BY <4>1, <5>2
            <4>4. QED
                BY <4>2, <4>3
        <3>2. CASE i = m + 1
            <4>1. f[i] = next(i, g[i - 1])
                BY <2>1, <3>2
            <4>2. CASE i = 1
                BY <4>1, <4>2 DEF next
            <4>3. CASE i # 1
                <5>1. i - 1 \in 1..(m + 1) /\ i - 1 <= m
                    BY <2>1, <3>2, <4>3
                <5>2. f[i - 1] = g[i - 1]
                    BY <5>1
                <5>3. QED
                    BY <4>1, <5>2
            <4>4. QED
                BY <4>2, <4>3
        <3>3. QED
            BY <2>1, <3>1, <3>2
    <2>5. IsFlat(f, seqs, m + 1)
        <3>1. DOMAIN f = 1..(m + 1)
            OBVIOUS
        <3>2. f = [i \in 1..(m + 1) |-> f[i]]
            OBVIOUS
        <3> HIDE DEF f
        <3>3. QED
            BY <2>4, <3>2 DEF IsFlat, next
    <2>6. QED
        BY <2>1, <2>5 DEF T
<1> HIDE DEF T
<1>3. n \in T
    BY <1>1, <1>2, SetInduction
<1>4. QED
    BY <1>3 DEF T

\* The concatenation of sequences of names is a sequence of these names.
LEMMA FlattenKeeps ==
    ASSUME NEW S, NEW seqs, Len(seqs) \in Nat, Len(seqs) = 0 => seqs = << >>,
           \A i \in 1..Len(seqs) : seqs[i] \in Seq(S)
    PROVE  FlattenSeq(seqs) \in Seq(S)
<1>1. CASE Len(seqs) = 0
    BY <1>1 DEF FlattenSeq
<1>2. CASE Len(seqs) # 0
    <2> DEFINE flat == CHOOSE g : IsFlat(g, seqs, Len(seqs))
    <2>1. \E g : IsFlat(g, seqs, Len(seqs))
        BY FlatExists
    <2>2. IsFlat(flat, seqs, Len(seqs))
        BY <2>1
    <2>3. FlattenSeq(seqs) = flat[Len(seqs)]
        BY <1>2, Zenon DEF FlattenSeq, IsFlat
    <2> HIDE DEF flat
    <2> DEFINE T == {i \in 0..Len(seqs) : i = 0 \/ flat[i] \in Seq(S)}
    <2>4. \A i \in 1..Len(seqs) : flat[i] = IF i = 1 THEN seqs[i] ELSE flat[i - 1] \o seqs[i]
        BY <2>2, FlatStep
    <2>5. 0 \in T
        OBVIOUS
    <2>6. ASSUME NEW k \in T, k \in 0..(Len(seqs) - 1) PROVE k + 1 \in T
        <3>1. k + 1 \in 1..Len(seqs) /\ (k + 1) - 1 = k
            BY <2>6
        <3>2. flat[k + 1] = IF k + 1 = 1 THEN seqs[k + 1] ELSE flat[k] \o seqs[k + 1]
            BY <2>4, <3>1
        <3>3. seqs[k + 1] \in Seq(S)
            BY <3>1
        <3>4. k # 0 => flat[k] \in Seq(S)
            OBVIOUS
        <3>5. flat[k + 1] \in Seq(S)
            BY <2>6, <3>2, <3>3, <3>4
        <3>6. QED
            BY <3>1, <3>5
    <2> HIDE DEF T
    <2>7. Len(seqs) \in T
        BY <2>5, <2>6, SetInduction
    <2>8. flat[Len(seqs)] \in Seq(S)
        BY <1>2, <2>7 DEF T
    <2>9. QED
        BY <2>3, <2>8
<1>3. QED
    BY <1>1, <1>2

-----------------------------------------------------------------------------
(* What the tenants allow, and what is collected from them. *)

ClassKinds == {"StorageClasses", "PriorityClasses", "IngressClasses", "RuntimeClasses"}
NodeKinds == {"Nodes", "NodeMetrics"}

\* Some tenant allows the object.
Grants(pts, kind, method, n, labels) ==
    \E i \in DOMAIN pts : AllowedBy(pts[i], kind, method, n, labels)

LEMMA OperationsCover ==
    ASSUME NEW operations, NEW method \in Methods, IsAllowed(operations, method)
    PROVE  Needed[method] \subseteq operations
<1>1. method \in {"GET", "PUT", "PATCH", "DELETE", "POST"}
    BY LegacyAssumption
<1>2. QED
    BY <1>1 DEF IsAllowed, Needed

\* The names in the specifications of the tenants that allow the method.
NamedBy(kind, pts, method) ==
    {n \in Names : \E i \in AllowedTenants(kind, pts, method) :
                       \/ n = pts[i].spec[kind].default
                       \/ \E j \in DOMAIN pts[i].spec[kind].exact : pts[i].spec[kind].exact[j] = n}

LEMMA ExactIsNamed ==
    ASSUME NEW kind \in Kinds, NEW pts \in ProxyTenants, NEW method,
           NEW i \in AllowedTenants(kind, pts, method)
    PROVE  ExactOf(pts[i].spec[kind]) \in Seq(NamedBy(kind, pts, method))
<1> DEFINE S == NamedBy(kind, pts, method)
<1> DEFINE exact == pts[i].spec[kind].exact
<1> DEFINE default == pts[i].spec[kind].default
<1>1. i \in DOMAIN pts
    BY DEF AllowedTenants
<1>2. exact \in Seq(Names) /\ default \in Names \cup {NoObject}
    BY <1>1, ProxyTenantsAssumption
<1>3. \A j \in 1..Len(exact) : exact[j] \in S
    BY <1>2 DEF NamedBy
<1>4. default # NoObject => default \in S
    BY <1>2 DEF NamedBy
<1> HIDE DEF S, exact, default
<1>5. exact \in Seq(S)
    BY <1>2, <1>3
<1>6. exact \o << >> \in Seq(S)
    BY <1>5
<1>7. default # NoObject => exact \o <<default>> \in Seq(S)
    BY <1>4, <1>5
<1>8. QED
    BY <1>6, <1>7 DEF ExactOf, S, exact, default

\* Only names of these tenants are collected.
LEMMA FoundIsNamed ==
    ASSUME NEW kind \in Kinds, NEW pts \in ProxyTenants, NEW method, NEW n,
           FoundExact(Collect(kind, pts, method).exact, n)
    PROVE  n \in NamedBy(kind, pts, method)
<1> DEFINE S == NamedBy(kind, pts, method)
<1> DEFINE allowed == AllowedTenants(kind, pts, method)
<1> DEFINE seqs == [i \in DOMAIN pts |->
                      IF i \in allowed THEN ExactOf(pts[i].spec[kind]) ELSE << >>]
<1>1. Len(pts) \in Nat /\ DOMAIN pts = 1..Len(pts)
    BY ProxyTenantsAssumption
<1>2. Len(seqs) = Len(pts)
    BY <1>1
<1>3. \A i \in 1..Len(pts) : seqs[i] \in Seq(S)
    BY <1>1, ExactIsNamed
<1>4. Len(pts) = 0 => seqs = << >>
    BY <1>1
<1>5. Collect(kind, pts, method).exact = SliceStable(FlattenSeq(seqs))
    BY DEF Collect
<1> HIDE DEF S, seqs
<1>6. FlattenSeq(seqs) \in Seq(S)
    BY <1>1, <1>2, <1>3, <1>4, FlattenKeeps
<1>7. SliceStable(FlattenSeq(seqs)) \in Seq(S)
    BY <1>6, SortKeeps
<1>8. QED
    BY <1>5, <1>7 DEF FoundExact, S

\* The class is collected by its name.
Chosen(c, n) == n \in c.regex \/ FoundExact(c.exact, n)

LEMMA ChosenIsGranted ==
    ASSUME NEW kind \in Kinds \cap ClassKinds, NEW pts \in ProxyTenants, NEW method \in Methods,
           NEW n, NEW labels, Chosen(Collect(kind, pts, method), n)
    PROVE  Grants(pts, kind, method, n, labels)
<1>1. PICK i \in AllowedTenants(kind, pts, method) :
          \/ n \in pts[i].spec[kind].regex
          \/ n = pts[i].spec[kind].default
          \/ \E j \in DOMAIN pts[i].spec[kind].exact : pts[i].spec[kind].exact[j] = n
    <2>1. CASE n \in Collect(kind, pts, method).regex
        <3>1. Collect(kind, pts, method).regex
                  = UNION {pts[i].spec[kind].regex : i \in AllowedTenants(kind, pts, method)}
            BY DEF Collect
        <3>2. QED
            BY <2>1, <3>1
    <2>2. CASE FoundExact(Collect(kind, pts, method).exact, n)
        <3>1. n \in NamedBy(kind, pts, method)
            BY <2>2, FoundIsNamed
        <3>2. QED
            BY <3>1 DEF NamedBy
    <2>3. QED
        BY <2>1, <2>2 DEF Chosen
<1>2. i \in DOMAIN pts /\ Needed[method] \subseteq pts[i].operations[kind]
    BY OperationsCover DEF AllowedTenants, RequestAllowed
<1>3. kind \notin {"Nodes", "NodeMetrics"} /\ kind # "PersistentVolumes"
    BY DEF ClassKinds
<1>4. AllowedBy(pts[i], kind, method, n, labels)
    BY <1>1, <1>2, <1>3 DEF AllowedBy
<1>5. QED
    BY <1>2, <1>4 DEF Grants

\* A requirement that matches is the whole selector of a tenant.
LEMMA RequirementIsGranted ==
    ASSUME PlainSelectors,
           NEW kind \in Kinds \cap ClassKinds, NEW pts \in ProxyTenants, NEW method \in Methods,
           NEW n, NEW labels, MatchesOne(Collect(kind, pts, method).requirements, labels)
    PROVE  Grants(pts, kind, method, n, labels)
<1>1. PICK req \in Collect(kind, pts, method).requirements : Matches(req, labels)
    BY DEF MatchesOne
<1>2. PICK i \in AllowedTenants(kind, pts, method) :
          /\ pts[i].spec[kind].selector # NoSelector
          /\ req \in pts[i].spec[kind].selector
    BY <1>1 DEF Collect
<1>3. i \in DOMAIN pts /\ Needed[method] \subseteq pts[i].operations[kind]
    BY OperationsCover DEF AllowedTenants, RequestAllowed
<1>4. \A other \in pts[i].spec[kind].selector : other = req
    BY <1>2, <1>3 DEF PlainSelectors
<1>5. SelectorMatches(pts[i].spec[kind].selector, labels)
    BY <1>1, <1>4 DEF SelectorMatches
<1>6. kind \notin {"Nodes", "NodeMetrics"} /\ kind # "PersistentVolumes"
    BY DEF ClassKinds
<1>7. pts[i].spec[kind].selector \notin {NoSelector, {}}
    BY <1>2
<1>8. AllowedBy(pts[i], kind, method, n, labels)
    BY <1>3, <1>5, <1>6, <1>7 DEF AllowedBy
<1>9. QED
    BY <1>3, <1>8 DEF Grants

\* A volume of an allowed tenant.
OfTenant(pts, method, labels) ==
    \E i \in AllowedTenants("PersistentVolumes", pts, method) : labels["tenant"] = pts[i].tenant

LEMMA VolumeIsGranted ==
    ASSUME NEW pts, NEW method \in Methods, NEW n, NEW labels, OfTenant(pts, method, labels)
    PROVE  Grants(pts, "PersistentVolumes", method, n, labels)
<1>1. PICK i \in AllowedTenants("PersistentVolumes", pts, method) : labels["tenant"] = pts[i].tenant
    BY DEF OfTenant
<1>2. i \in DOMAIN pts /\ Needed[method] \subseteq pts[i].operations["PersistentVolumes"]
    BY OperationsCover DEF AllowedTenants, RequestAllowed
<1>3. AllowedBy(pts[i], "PersistentVolumes", method, n, labels)
    BY <1>1, <1>2 DEF AllowedBy
<1>4. QED
    BY <1>2, <1>3 DEF Grants

\* A node with all labels of a tenant's node selector.
OnNode(pts, labels) ==
    \E i \in DOMAIN pts : \A l \in pts[i].nodeSelector : labels[l.key] = l.value

LEMMA NodeIsGranted ==
    ASSUME NEW pts, NEW kind \in NodeKinds, NEW method, NEW n, NEW labels
    PROVE  OnNode(pts, labels) <=> Grants(pts, kind, method, n, labels)
    BY DEF OnNode, Grants, AllowedBy, NodeKinds

-----------------------------------------------------------------------------
(* Selectors of names, and of nothing. *)

LEMMA NameLabel ==
    ASSUME NEW n, NEW obj
    PROVE  Labels(n, obj)["name"] = IF obj.labelled THEN n ELSE NoLabel
    BY DEF Labels

LEMMA NothingMatchesNot ==
    ASSUME NEW n, NEW obj
    PROVE  Nothing # {} /\ ~SelectorMatches(Nothing, Labels(n, obj))
<1> DEFINE req == [key |-> "dontexistsignoreme", operator |-> "Exists", values |-> {}]
<1>1. Labels(n, obj)["dontexistsignoreme"] = NoLabel
    BY LegacyAssumption DEF Labels
<1>2. ~Matches(req, Labels(n, obj))
    BY <1>1 DEF Matches
<1>3. req \in Nothing
    BY DEF Nothing
<1>4. QED
    BY <1>2, <1>3 DEF SelectorMatches

LEMMA NamesMatch ==
    ASSUME NEW names \in SUBSET Names, NEW n, NEW obj,
           NamesRequirement(names) # {},
           SelectorMatches(NamesRequirement(names), Labels(n, obj))
    PROVE  n \in names /\ n \notin LongNames /\ obj.labelled
<1> DEFINE req == [key |-> "name", operator |-> "In", values |-> names]
<1>1. NamesRequirement(names) = {req} /\ names \cap LongNames = {}
    BY DEF NamesRequirement
<1>2. Matches(req, Labels(n, obj))
    BY <1>1 DEF SelectorMatches
<1>3. Labels(n, obj)["name"] \in names
    BY <1>2 DEF Matches
<1>4. NoLabel \notin names
    BY LegacyAssumption
<1>5. QED
    BY <1>1, <1>3, <1>4, NameLabel

\* The label names one object at most.
LEMMA LabelledIsCached ==
    ASSUME NEW name \in Names, NEW n
    PROVE  n \in CachedWithLabel(name) <=> n = name /\ n \in Cached /\ cache[n].labelled
<1>1. name # NoLabel
    BY LegacyAssumption
<1>2. QED
    BY <1>1, NameLabel DEF CachedWithLabel

\* A requirement of at most one name is an error if there is none, or a long one.
LEMMA OneName ==
    ASSUME NEW name \in Names, NEW names \in SUBSET CachedWithLabel(name)
    PROVE  /\ NamesRequirement(names) # {} => /\ name \in names /\ name \in Cached
                                              /\ name \notin LongNames /\ cache[name].labelled
           /\ name \in names /\ name \notin LongNames => NamesRequirement(names) # {}
<1>1. \A n \in names : n = name /\ n \in Cached /\ cache[n].labelled
    BY LabelledIsCached
<1>2. NamesRequirement(names) # {} <=> names # {} /\ names \cap LongNames = {}
    BY DEF NamesRequirement
<1>3. QED
    BY <1>1, <1>2

-----------------------------------------------------------------------------
(* What the decisions select. *)

\* What a class module decides by, for both a collection and a name.
Admitted(c, n, obj) ==
    \/ MatchesOne(c.requirements, Labels(n, obj))
    \/ c.requirements = {} /\ n \notin LongNames /\ obj.labelled /\ Chosen(c, n)

LEMMA MergedSelects ==
    ASSUME NEW reqs, reqs # {}, NEW labels
    PROVE  /\ HandleListSelector(reqs) # {}
           /\ SelectorMatches(HandleListSelector(reqs), labels) => MatchesOne(reqs, labels)
<1>1. PICK req \in reqs : TRUE
    OBVIOUS
<1>2. HandleListSelector(reqs) # {}
    BY <1>1 DEF HandleListSelector
<1>3. QED
    BY <1>1, <1>2, MergedMatchesOne

LEMMA GetSelects ==
    ASSUME NEW reqs, NEW name, NEW d, d = HandleGetSelector(reqs, name)
    PROVE  /\ d.outcome = "filter" => /\ d.selector # {} /\ name \in Cached
                                      /\ MatchesOne(reqs, Labels(name, cache[name]))
           /\ d.outcome # "filter" /\ name \in Cached => ~MatchesOne(reqs, Labels(name, cache[name]))
           /\ d.outcome \in {"filter", "notFound"}
<1> DEFINE labels == Labels(name, cache[name])
<1>1. CASE name \notin Cached
    BY <1>1 DEF HandleGetSelector, Refuse
<1>2. CASE name \in Cached /\ MatchesOne(reqs, labels)
    <2>1. d = Filter({req \in reqs : Matches(req, labels)})
        BY <1>2 DEF HandleGetSelector
    <2>2. {req \in reqs : Matches(req, labels)} # {}
        BY <1>2 DEF MatchesOne
    <2>3. QED
        BY <1>2, <2>1, <2>2 DEF Filter
<1>3. CASE name \in Cached /\ ~MatchesOne(reqs, labels)
    BY <1>3 DEF HandleGetSelector, Refuse
<1>4. QED
    BY <1>1, <1>2, <1>3

LEMMA ClassListSelects ==
    ASSUME NEW c, NEW d, d = ListClasses(c, ClassSelector(Cached, c)), d.outcome = "filter",
           NEW n, NEW obj
    PROVE  /\ d.selector # {}
           /\ SelectorMatches(d.selector, Labels(n, obj)) => Admitted(c, n, obj)
<1> DEFINE names == {m \in Cached : m \in c.regex \/ FoundExact(c.exact, m)}
<1>1. CASE c.requirements # {}
    <2>1. d.selector = HandleListSelector(c.requirements)
        BY <1>1 DEF ListClasses, Filter
    <2>2. QED
        BY <1>1, <2>1, MergedSelects DEF Admitted
<1>2. CASE c.requirements = {} /\ ClassSelector(Cached, c) # {}
    <2>1. d.selector = NamesRequirement(names) /\ NamesRequirement(names) # {}
        BY <1>2 DEF ListClasses, Filter, ClassSelector
    <2>2. names \in SUBSET Names
        BY DEF Cached
    <2>3. SelectorMatches(d.selector, Labels(n, obj))
              => n \in names /\ n \notin LongNames /\ obj.labelled
        <3> HIDE DEF names
        <3>1. QED
            BY <2>1, <2>2, NamesMatch
    <2>4. QED
        BY <1>2, <2>1, <2>3 DEF Admitted, Chosen
<1>3. CASE c.requirements = {} /\ ClassSelector(Cached, c) = {}
    <2>1. d = Refuse("notAllowed") \/ d = Filter(Nothing)
        BY <1>3 DEF ListClasses
    <2>2. d.selector = Nothing
        BY <2>1 DEF Refuse, Filter
    <2>3. QED
        BY <2>2, NothingMatchesNot
<1>4. QED
    BY <1>1, <1>2, <1>3

LEMMA ClassGetSelects ==
    ASSUME NEW r, r.name \in Names, NEW c, NEW d,
           d = GetClass(r, c, ClassSelector(CachedWithLabel(r.name), c))
    PROVE  /\ d.outcome = "filter" => /\ d.selector # {} /\ r.name \in Cached
                                      /\ Admitted(c, r.name, cache[r.name])
           /\ d.outcome = "notFound" /\ r.name \in Cached => ~Admitted(c, r.name, cache[r.name])
<1> DEFINE names == {m \in CachedWithLabel(r.name) : m \in c.regex \/ FoundExact(c.exact, m)}
<1>1. CASE c.requirements # {}
    <2>1. d = HandleGetSelector(c.requirements, r.name)
        BY <1>1 DEF GetClass
    <2>2. QED
        BY <1>1, <2>1, GetSelects DEF Admitted
<1>2. CASE c.requirements = {}
    <2>1. names \in SUBSET CachedWithLabel(r.name)
        OBVIOUS
    <2>2. ClassSelector(CachedWithLabel(r.name), c) = NamesRequirement(names)
        BY DEF ClassSelector
    <2>3. /\ NamesRequirement(names) # {} => /\ r.name \in names /\ r.name \in Cached
                                             /\ r.name \notin LongNames /\ cache[r.name].labelled
          /\ r.name \in names /\ r.name \notin LongNames => NamesRequirement(names) # {}
        <3> HIDE DEF names
        <3>1. QED
            BY <2>1, OneName
    <2>4. r.name \in Cached /\ cache[r.name].labelled => r.name \in CachedWithLabel(r.name)
        BY LabelledIsCached
    <2>5. CASE NamesRequirement(names) # {}
        <3>1. d = Filter(NamesRequirement(names))
            BY <1>2, <2>2, <2>5 DEF GetClass
        <3>2. Admitted(c, r.name, cache[r.name])
            BY <1>2, <2>3, <2>5 DEF Admitted, Chosen
        <3>3. QED
            BY <2>3, <2>5, <3>1, <3>2 DEF Filter
    <2>6. CASE NamesRequirement(names) = {}
        <3>1. d = Refuse("notFound") \/ d = Impersonate
            BY <1>2, <2>2, <2>6 DEF GetClass
        <3>2. d.outcome # "filter"
            BY <3>1 DEF Refuse, Impersonate
        <3>3. ~MatchesOne(c.requirements, Labels(r.name, cache[r.name]))
            BY <1>2 DEF MatchesOne
        <3>4. r.name \in Cached => ~Admitted(c, r.name, cache[r.name])
            BY <2>3, <2>4, <2>6, <3>3 DEF Admitted, Chosen
        <3>5. QED
            BY <3>2, <3>4
    <2>7. QED
        BY <2>5, <2>6
<1>3. QED
    BY <1>1, <1>2

\* What the module for the kind selects, where read is the object it reads:
\* nodes are selected by their labels in the cache.
Selects(kind, pts, method, n, obj, read) ==
    \/ /\ kind \in ClassKinds
       /\ Admitted(Collect(kind, pts, method), n, obj)
       /\ kind = "RuntimeClasses" =>
             MatchesOne(Collect(kind, pts, method).requirements, Labels(n, obj))
    \/ kind = "PersistentVolumes" /\ OfTenant(pts, method, Labels(n, obj))
    \/ /\ kind \in NodeKinds
       /\ n \notin LongNames /\ obj.labelled
       /\ OnNode(pts, Labels(n, read))

\* A request of a caller.
Asked(r) == r.kind \in Kinds /\ r.proxyTenants \in ProxyTenants /\ r.method \in Methods

LEMMA KindCases ==
    ASSUME NEW kind \in Kinds
    PROVE  \/ kind \in {"StorageClasses", "PriorityClasses", "IngressClasses"}
           \/ kind = "RuntimeClasses"
           \/ kind = "PersistentVolumes"
           \/ kind \in NodeKinds
    BY LegacyAssumption DEF LegacyKinds, NodeKinds

LEMMA VolumeSelects ==
    ASSUME NEW r, NEW labels
    PROVE  MatchesOne({getPersistentVolume(r)}, labels) <=> OfTenant(r.proxyTenants, r.method, labels)
<1> DEFINE req == getPersistentVolume(r)
<1>1. /\ req.key = "tenant" /\ req.operator = "In"
      /\ req.values = {r.proxyTenants[i].tenant :
                         i \in AllowedTenants("PersistentVolumes", r.proxyTenants, r.method)}
    BY DEF getPersistentVolume
<1> HIDE DEF req
<1>2. Matches(req, labels) <=> labels["tenant"] \in req.values
    BY <1>1 DEF Matches
<1>3. labels["tenant"] \in req.values <=> OfTenant(r.proxyTenants, r.method, labels)
    BY <1>1 DEF OfTenant
<1>4. QED
    BY <1>2, <1>3 DEF MatchesOne, req

\* The nodes that are named in a selector.
NodeNames(nodes, r) ==
    {n \in nodes : \E s \in GetNodeSelectors(r) : \A l \in s : Labels(n, cache[n])[l.key] = l.value}

LEMMA NodeNamesAreOn ==
    ASSUME NEW nodes, NEW r, NEW n
    PROVE  n \in NodeNames(nodes, r) <=> n \in nodes /\ OnNode(r.proxyTenants, Labels(n, cache[n]))
    BY DEF NodeNames, GetNodeSelectors, OnNode

LEMMA NodeSelectorNames ==
    ASSUME NEW nodes, NEW r
    PROVE  GetNodeSelector(nodes, GetNodeSelectors(r)) = NamesRequirement(NodeNames(nodes, r))
    BY DEF GetNodeSelector, NodeNames

LEMMA NodeListSelects ==
    ASSUME NEW r, NEW d, d = nodeList(r), NEW n, NEW obj
    PROVE  /\ d.outcome = "filter" /\ d.selector # {}
           /\ SelectorMatches(d.selector, Labels(n, obj))
                  => /\ n \in Cached /\ n \notin LongNames /\ obj.labelled
                     /\ OnNode(r.proxyTenants, Labels(n, cache[n]))
<1> DEFINE names == NodeNames(Cached, r)
<1>1. d = Filter(IF NamesRequirement(names) # {} THEN NamesRequirement(names) ELSE Nothing)
    BY NodeSelectorNames DEF nodeList
<1>2. names \in SUBSET Names
    BY DEF NodeNames, Cached
<1>3. n \in names => n \in Cached /\ OnNode(r.proxyTenants, Labels(n, cache[n]))
    BY NodeNamesAreOn
<1> HIDE DEF names
<1>4. CASE NamesRequirement(names) # {}
    <2>1. d.outcome = "filter" /\ d.selector = NamesRequirement(names)
        BY <1>1, <1>4 DEF Filter
    <2>2. SelectorMatches(d.selector, Labels(n, obj))
              => n \in names /\ n \notin LongNames /\ obj.labelled
        BY <1>2, <1>4, <2>1, NamesMatch
    <2>3. QED
        BY <1>3, <1>4, <2>1, <2>2
<1>5. CASE NamesRequirement(names) = {}
    <2>1. d.outcome = "filter" /\ d.selector = Nothing
        BY <1>1, <1>5 DEF Filter
    <2>2. QED
        BY <2>1, NothingMatchesNot
<1>6. QED
    BY <1>4, <1>5

LEMMA NodeGetSelects ==
    ASSUME NEW r, r.name \in Names, NEW d, d = nodeGet(r)
    PROVE  /\ d.outcome = "filter" => /\ d.selector # {} /\ r.name \in Cached
                                      /\ r.name \notin LongNames /\ cache[r.name].labelled
                                      /\ OnNode(r.proxyTenants, Labels(r.name, cache[r.name]))
           /\ d.outcome = "notFound" /\ r.name \in Cached =>
                  ~ /\ r.name \notin LongNames /\ cache[r.name].labelled
                    /\ OnNode(r.proxyTenants, Labels(r.name, cache[r.name]))
<1> DEFINE names == NodeNames(CachedWithLabel(r.name), r)
<1>1. d = IF NamesRequirement(names) # {} THEN Filter(NamesRequirement(names))
          ELSE IF r.method = "GET" THEN Refuse("notFound") ELSE Impersonate
    BY NodeSelectorNames DEF nodeGet
<1>2. names \in SUBSET CachedWithLabel(r.name)
    BY DEF NodeNames
<1>3. r.name \in names <=> /\ r.name \in CachedWithLabel(r.name)
                           /\ OnNode(r.proxyTenants, Labels(r.name, cache[r.name]))
    BY NodeNamesAreOn
<1>4. r.name \in Cached /\ cache[r.name].labelled => r.name \in CachedWithLabel(r.name)
    BY LabelledIsCached
<1> HIDE DEF names
<1>5. /\ NamesRequirement(names) # {} => /\ r.name \in names /\ r.name \in Cached
                                         /\ r.name \notin LongNames /\ cache[r.name].labelled
      /\ r.name \in names /\ r.name \notin LongNames => NamesRequirement(names) # {}
    BY <1>2, OneName
<1>6. CASE NamesRequirement(names) # {}
    <2>1. d.outcome = "filter" /\ d.selector = NamesRequirement(names)
        BY <1>1, <1>6 DEF Filter
    <2>2. QED
        BY <1>3, <1>5, <1>6, <2>1
<1>7. CASE NamesRequirement(names) = {}
    <2>1. d.outcome # "filter"
        BY <1>1, <1>7 DEF Refuse, Impersonate
    <2>2. QED
        BY <1>3, <1>4, <1>5, <1>7, <2>1
<1>8. QED
    BY <1>6, <1>7

\* A collection: the selector matches what the module selects.
LEMMA ListSelects ==
    ASSUME NEW r, Asked(r), NEW d, d = ListDecision(r), d.outcome = "filter",
           NEW n, NEW obj
    PROVE  /\ d.selector # {}
           /\ SelectorMatches(d.selector, Labels(n, obj))
                  => /\ Selects(r.kind, r.proxyTenants, r.method, n, obj, cache[n])
                     /\ r.kind \in NodeKinds => n \in Cached
<1> DEFINE c == Collect(r.kind, r.proxyTenants, r.method)
<1>1. CASE r.kind \in {"StorageClasses", "PriorityClasses", "IngressClasses"}
    <2>1. d = ListClasses(c, ClassSelector(Cached, c)) \/ d = Refuse("badRequest")
        <3>1. CASE r.kind = "StorageClasses"
            BY <3>1 DEF ListDecision, storageclassList, getStorageClasses, getStorageClassSelector
        <3>2. CASE r.kind = "PriorityClasses"
            BY <3>2 DEF ListDecision, priorityclassList, getPriorityClass, getPriorityClassSelector
        <3>3. CASE r.kind = "IngressClasses"
            BY <3>3 DEF ListDecision, ingressclassList, getIngressClasses, getIngressClassSelector
        <3>4. QED
            BY <1>1, <3>1, <3>2, <3>3
    <2>2. d = ListClasses(c, ClassSelector(Cached, c))
        BY <2>1 DEF Refuse
    <2> HIDE DEF c
    <2>3. d.selector # {} /\ (SelectorMatches(d.selector, Labels(n, obj)) => Admitted(c, n, obj))
        BY <2>2, ClassListSelects
    <2>4. QED
        BY <1>1, <2>3 DEF Selects, ClassKinds, NodeKinds, c
<1>2. CASE r.kind = "RuntimeClasses"
    <2>1. d = runtimeclassList(r) /\ c = getRuntimeClass(r)
        BY <1>2 DEF ListDecision, getRuntimeClass
    <2> HIDE DEF c
    <2>2. CASE c.requirements = {}
        <3>1. d.selector = Nothing
            BY <2>1, <2>2 DEF runtimeclassList, Refuse, Filter
        <3>2. QED
            BY <3>1, NothingMatchesNot
    <2>3. CASE c.requirements # {}
        <3>1. d.selector = HandleListSelector(c.requirements)
            BY <2>1, <2>3 DEF runtimeclassList, Refuse, Filter
        <3>2. QED
            BY <1>2, <2>3, <3>1, MergedSelects DEF Selects, Admitted, ClassKinds, NodeKinds, c
    <2>4. QED
        BY <2>2, <2>3
<1>3. CASE r.kind = "PersistentVolumes"
    <2>1. d = persistentvolumeList(r)
        BY <1>3 DEF ListDecision
    <2>2. d.selector = HandleListSelector({getPersistentVolume(r)})
        BY <2>1 DEF persistentvolumeList, Refuse, Filter
    <2>3. QED
        BY <1>3, <2>2, MergedSelects, VolumeSelects DEF Selects, NodeKinds
<1>4. CASE r.kind \in NodeKinds
    <2>1. d = nodeList(r)
        BY <1>4 DEF ListDecision, metricList, NodeKinds
    <2>2. QED
        BY <1>4, <2>1, NodeListSelects DEF Selects
<1>5. QED
    BY <1>1, <1>2, <1>3, <1>4, KindCases DEF Asked

\* A name: it is let through if the module selects it, and else not found.
LEMMA GetDecides ==
    ASSUME NEW r, Asked(r), r.name \in Names, NEW d, d = GetDecision(r)
    PROVE  LET name == r.name
               selects == Selects(r.kind, r.proxyTenants, r.method, name, cache[name], cache[name])
           IN  /\ d.outcome = "filter" => d.selector # {} /\ name \in Cached /\ selects
               /\ d.outcome = "notFound" /\ name \in Cached => ~selects
<1> DEFINE c == Collect(r.kind, r.proxyTenants, r.method)
<1> DEFINE name == r.name
<1> DEFINE labels == Labels(name, cache[name])
<1> DEFINE selects == Selects(r.kind, r.proxyTenants, r.method, name, cache[name], cache[name])
<1>1. CASE r.kind \in {"StorageClasses", "PriorityClasses", "IngressClasses"}
    <2>1. d = GetClass(r, c, ClassSelector(CachedWithLabel(name), c)) \/ d = Refuse("badRequest")
        <3>1. CASE r.kind = "StorageClasses"
            BY <3>1 DEF GetDecision, storageclassGet, getStorageClasses, getStorageClassSelector
        <3>2. CASE r.kind = "PriorityClasses"
            BY <3>2 DEF GetDecision, priorityclassGet, getPriorityClass, getPriorityClassSelector
        <3>3. CASE r.kind = "IngressClasses"
            BY <3>3 DEF GetDecision, ingressclassGet, getIngressClasses, getIngressClassSelector
        <3>4. QED
            BY <1>1, <3>1, <3>2, <3>3
    <2>2. selects <=> Admitted(c, name, cache[name])
        BY <1>1 DEF Selects, ClassKinds, NodeKinds
    <2>3. CASE d = Refuse("badRequest")
        BY <2>3 DEF Refuse
    <2>4. CASE d = GetClass(r, c, ClassSelector(CachedWithLabel(name), c))
        <3> HIDE DEF c, selects
        <3>1. /\ d.outcome = "filter" => d.selector # {} /\ name \in Cached /\ Admitted(c, name, cache[name])
              /\ d.outcome = "notFound" /\ name \in Cached => ~Admitted(c, name, cache[name])
            BY <2>4, ClassGetSelects
        <3>2. QED
            BY <2>2, <3>1 DEF selects
    <2>5. QED
        BY <2>1, <2>3, <2>4
<1>2. CASE r.kind = "RuntimeClasses"
    <2>1. d = runtimeclassGet(r) /\ c = getRuntimeClass(r)
        BY <1>2 DEF GetDecision, getRuntimeClass
    <2>2. selects <=> MatchesOne(c.requirements, labels)
        BY <1>2 DEF Selects, Admitted, ClassKinds, NodeKinds
    <2> HIDE DEF c, selects
    <2>3. CASE c.requirements = {}
        <3>1. d.outcome = "notFound"
            BY <2>1, <2>3 DEF runtimeclassGet, Refuse
        <3>2. ~MatchesOne(c.requirements, labels)
            BY <2>3 DEF MatchesOne
        <3>3. QED
            BY <2>2, <3>1, <3>2 DEF selects
    <2>4. CASE c.requirements # {}
        <3>1. d = HandleGetSelector(c.requirements, name)
            BY <2>1, <2>4 DEF runtimeclassGet
        <3>2. QED
            BY <2>2, <3>1, GetSelects DEF selects
    <2>5. QED
        BY <2>3, <2>4
<1>3. CASE r.kind = "PersistentVolumes"
    <2>1. d = persistentvolumeGet(r)
        BY <1>3 DEF GetDecision
    <2>2. selects <=> MatchesOne({getPersistentVolume(r)}, labels)
        BY <1>3, VolumeSelects DEF Selects, ClassKinds, NodeKinds
    <2> HIDE DEF selects
    <2>3. d = Refuse("panic") \/ d = HandleGetSelector({getPersistentVolume(r)}, name)
        BY <2>1 DEF persistentvolumeGet
    <2>4. CASE d = Refuse("panic")
        BY <2>4 DEF Refuse
    <2>5. CASE d = HandleGetSelector({getPersistentVolume(r)}, name)
        BY <2>2, <2>5, GetSelects DEF selects
    <2>6. QED
        BY <2>3, <2>4, <2>5
<1>4. CASE r.kind \in NodeKinds
    <2>1. d = nodeGet(r)
        BY <1>4 DEF GetDecision, metricGet, NodeKinds
    <2>2. selects <=> /\ name \notin LongNames /\ cache[name].labelled
                      /\ OnNode(r.proxyTenants, labels)
        BY <1>4 DEF Selects, ClassKinds, NodeKinds
    <2> HIDE DEF selects
    <2>3. QED
        BY <2>1, <2>2, NodeGetSelects DEF selects
<1>5. QED
    BY <1>1, <1>2, <1>3, <1>4, KindCases DEF Asked

-----------------------------------------------------------------------------
(* The inductive invariant. *)

\* The fields of a request.
Shape(r) ==
    r = [pc |-> r.pc, kind |-> r.kind, method |-> r.method, name |-> r.name, version |-> r.version,
         proxyTenants |-> r.proxyTenants, decision |-> r.decision, shown |-> r.shown,
         steady |-> r.steady, synced |-> r.synced]

World ==
    /\ caller \in [kind : Kinds, proxyTenants : ProxyTenants]
    /\ objects \in [Names -> Objects \cup {NoObject}]
    /\ cache \in [Names -> Objects \cup {NoObject}]
    /\ listed \in SUBSET Names
    /\ writes \in 0..MaxWrites

\* The request is the caller's, and is sent with a selector.
RequestInv ==
    /\ Shape(request)
    /\ request.pc \in {"idle", "handle", "send", "answered", "impersonated", "refused"}
    /\ request.name \in Names \cup {NoObject}
    /\ request.pc = "idle" => request.kind = NoObject
    /\ request.pc # "idle" => /\ request.kind = caller.kind
                              /\ request.proxyTenants = caller.proxyTenants
                              /\ request.method \in Methods
    /\ request.pc = "send" => request.decision.selector # {}

\* Until the answer, the cache is as up to date as when the request began.
SyncInv ==
    /\ request.pc \in {"handle", "send"} /\ request.steady /\ request.synced => cache = objects
    /\ listed # {} => cache = objects

\* A GET of the object by the caller finds it.
Finds(n, obj) ==
    obj # NoObject /\ Selects(caller.kind, caller.proxyTenants, "GET", n, obj, obj)

\* What is listed, and what a LIST that is sent will show, is found.
FoundInv ==
    /\ \A n \in listed : Finds(n, objects[n])
    /\ /\ request.pc = "send" /\ request.name = NoObject /\ request.method = "GET"
       /\ request.steady /\ request.synced
       => \A n \in Names :
              objects[n] # NoObject /\ SelectorMatches(request.decision.selector, Labels(n, objects[n]))
                  => Finds(n, objects[n])
    /\ ListedIsFound

IndInv == World /\ RequestInv /\ SyncInv /\ FoundInv

\* What the API server shows of a request that is sent.
Shows(r, n, obj) ==
    IF r.name # NoObject THEN n = r.name ELSE SelectorMatches(r.decision.selector, Labels(n, obj))

\* What a request that is sent will reach is allowed: the objects with the
\* labels that they may get, or the ones that are there.
AllowedInv ==
    /\ request.pc = "send" /\ request.name = NoObject /\ request.kind \notin NodeKinds
       => \A n \in Names, obj \in Objects :
              SelectorMatches(request.decision.selector, Labels(n, obj))
                  => Allowed(request, n, Labels(n, obj))
    /\ request.pc = "send" /\ request.steady /\ request.synced
       => \A n \in Names : objects[n] # NoObject /\ Shows(request, n, objects[n])
                               => Allowed(request, n, Labels(n, objects[n]))
    /\ CollectionIsAllowed
    /\ ReachedIsAllowed

\* A change leaves the request as it was, but for steady.
LEMMA ChangedFields ==
    ASSUME Shape(request), Changed
    PROVE  /\ Shape(request') /\ request'.steady = FALSE /\ listed' = {}
           /\ request'.pc = request.pc /\ request'.kind = request.kind
           /\ request'.method = request.method /\ request'.name = request.name
           /\ request'.proxyTenants = request.proxyTenants /\ request'.shown = request.shown
           /\ request'.decision = request.decision
<1>1. request' = [request EXCEPT !.steady = FALSE]
    BY DEF Changed
<1>2. listed' = {}
    BY DEF Changed
<1>3. QED
    BY <1>1, <1>2 DEF Shape

\* A decision ends a request, or sends it.
LEMMA DecidedFields ==
    ASSUME Shape(request), NEW pc, NEW d,
           request' = [request EXCEPT !.pc = pc, !.decision = d]
    PROVE  /\ Shape(request') /\ request'.pc = pc /\ request'.decision = d
           /\ request'.kind = request.kind /\ request'.method = request.method
           /\ request'.name = request.name /\ request'.proxyTenants = request.proxyTenants
           /\ request'.steady = request.steady /\ request'.synced = request.synced
    BY DEF Shape

LEMMA AnsweredFields ==
    ASSUME Shape(request), NEW shown,
           request' = [request EXCEPT !.pc = "answered", !.shown = shown]
    PROVE  /\ Shape(request') /\ request'.pc = "answered" /\ request'.shown = shown
           /\ request'.kind = request.kind /\ request'.method = request.method
           /\ request'.name = request.name /\ request'.proxyTenants = request.proxyTenants
           /\ request'.steady = request.steady /\ request'.synced = request.synced
    BY DEF Shape

LEMMA BegunFields ==
    ASSUME NEW method, NEW name, NEW version, Begin(method, name, version)
    PROVE  /\ Shape(request') /\ request'.pc = "handle"
           /\ request'.kind = caller.kind /\ request'.proxyTenants = caller.proxyTenants
           /\ request'.method = method /\ request'.name = name
           /\ request'.synced => cache = objects
<1>1. request' = [pc |-> "handle", kind |-> caller.kind, method |-> method, name |-> name,
                  version |-> version, proxyTenants |-> caller.proxyTenants,
                  decision |-> Impersonate, shown |-> {}, steady |-> TRUE,
                  synced |-> cache = objects]
    BY DEF Begin, NoRequest
<1>2. request'.synced = (cache = objects)
    BY <1>1, Zenon
<1>3. QED
    BY <1>1, <1>2 DEF Shape

LEMMA InitHolds ==
    ASSUME Init
    PROVE  IndInv /\ AllowedInv
<1>1. World
    BY LegacyAssumption DEF Init, World
<1>2. RequestInv
    BY DEF Init, RequestInv, Shape, NoRequest
<1>3. SyncInv
    BY DEF Init, SyncInv
<1>4. FoundInv
    BY DEF Init, NoRequest, FoundInv, ListedIsFound
<1>5. AllowedInv
    BY DEF Init, NoRequest, AllowedInv, CollectionIsAllowed, ReachedIsAllowed
<1>6. QED
    BY <1>1, <1>2, <1>3, <1>4, <1>5 DEF IndInv

LEMMA ChangeKeeps ==
    ASSUME IndInv, Write \/ Sync
    PROVE  IndInv'
<1>1. Changed /\ caller' = caller
    BY DEF Write, Sync
<1>2. Shape(request)
    BY DEF IndInv, RequestInv
<1>3. /\ Shape(request') /\ request'.steady = FALSE /\ listed' = {}
      /\ request'.pc = request.pc /\ request'.kind = request.kind
      /\ request'.method = request.method /\ request'.name = request.name
      /\ request'.proxyTenants = request.proxyTenants /\ request'.decision = request.decision
    BY <1>1, <1>2, ChangedFields
<1>4. World'
    <2>1. CASE Write
        <3>1. writes' \in 0..MaxWrites
            BY <2>1, LegacyAssumption DEF Write, IndInv, World
        <3>2. objects' \in [Names -> Objects \cup {NoObject}] /\ cache' = cache
            BY <2>1 DEF Write, IndInv, World
        <3>3. QED
            BY <1>1, <1>3, <3>1, <3>2 DEF IndInv, World
    <2>2. CASE Sync
        <3>1. cache' \in [Names -> Objects \cup {NoObject}] /\ objects' = objects /\ writes' = writes
            BY <2>2 DEF Sync, IndInv, World
        <3>2. QED
            BY <1>1, <1>3, <3>1 DEF IndInv, World
    <2>3. QED
        BY <2>1, <2>2
<1>5. RequestInv'
    BY <1>1, <1>3 DEF IndInv, RequestInv
<1>6. SyncInv'
    BY <1>3 DEF SyncInv
<1>7. FoundInv'
    BY <1>3 DEF FoundInv, ListedIsFound
<1>8. QED
    BY <1>4, <1>5, <1>6, <1>7 DEF IndInv

LEMMA BeginKeeps ==
    ASSUME IndInv, NEW method \in Methods, NEW name \in Names \cup {NoObject}, NEW version,
           Begin(method, name, version)
    PROVE  IndInv'
<1>1. UNCHANGED <<caller, objects, cache, listed, writes>>
    BY DEF Begin
<1>2. /\ Shape(request') /\ request'.pc = "handle"
      /\ request'.kind = caller.kind /\ request'.proxyTenants = caller.proxyTenants
      /\ request'.method = method /\ request'.name = name
      /\ request'.synced => cache = objects
    BY BegunFields
<1>3. World'
    BY <1>1 DEF IndInv, World
<1>4. RequestInv'
    BY <1>1, <1>2 DEF RequestInv
<1>5. SyncInv'
    BY <1>1, <1>2 DEF IndInv, SyncInv
<1>6. FoundInv'
    BY <1>1, <1>2 DEF IndInv, FoundInv, ListedIsFound, Finds
<1>7. QED
    BY <1>3, <1>4, <1>5, <1>6 DEF IndInv

\* The decision of a request that is handled.
Decision == IF Named THEN GetDecision(request) ELSE ListDecision(request)

LEMMA HandledFields ==
    ASSUME Shape(request), Handle
    PROVE  /\ Shape(request') /\ request'.decision = Decision
           /\ request'.pc \in {"send", "impersonated", "refused"}
           /\ request'.pc = "send" => Decision.outcome = "filter"
           /\ request'.kind = request.kind /\ request'.method = request.method
           /\ request'.name = request.name /\ request'.proxyTenants = request.proxyTenants
           /\ request'.steady = request.steady /\ request'.synced = request.synced
<1> DEFINE next == CASE Decision.outcome = "filter" -> "send"
                     [] Decision.outcome = "impersonate" -> "impersonated"
                     [] OTHER -> "refused"
<1>1. request' = [request EXCEPT !.pc = next, !.decision = Decision]
    BY DEF Handle, Decision
<1>2. next \in {"send", "impersonated", "refused"} /\ (next = "send" => Decision.outcome = "filter")
    OBVIOUS
<1> HIDE DEF next
<1>3. QED
    BY <1>1, <1>2, DecidedFields

\* A request is sent with a selector that matches what the module selects; a
\* name that it does not select is not found.
LEMMA DecisionSelects ==
    ASSUME IndInv, request.pc = "handle", NEW n \in Names, NEW obj
    PROVE  LET d == Decision
               selects(o, read) == Selects(caller.kind, caller.proxyTenants, request.method, n, o, read)
           IN  /\ d.outcome = "filter" => d.selector # {}
               /\ /\ d.outcome = "filter" /\ request.name = NoObject
                  /\ SelectorMatches(d.selector, Labels(n, obj))
                  => selects(obj, cache[n]) /\ (caller.kind \in NodeKinds => n \in Cached)
               /\ d.outcome = "filter" /\ request.name = n => n \in Cached /\ selects(cache[n], cache[n])
               /\ d.outcome = "notFound" /\ request.name = n /\ n \in Cached => ~selects(cache[n], cache[n])
<1> DEFINE selects(o, read) == Selects(caller.kind, caller.proxyTenants, request.method, n, o, read)
<1>1. /\ request.kind = caller.kind /\ request.proxyTenants = caller.proxyTenants
      /\ request.method \in Methods /\ request.name \in Names \cup {NoObject}
      /\ caller.kind \in Kinds /\ caller.proxyTenants \in ProxyTenants
    BY DEF IndInv, RequestInv, World
<1>2. Asked(request) /\ NoObject \notin Names
    BY <1>1, LegacyAssumption DEF Asked
<1>3. CASE request.name = NoObject
    <2>1. Decision = ListDecision(request)
        BY <1>3 DEF Decision, Named
    <2>2. Decision.outcome = "filter" =>
              /\ Decision.selector # {}
              /\ SelectorMatches(Decision.selector, Labels(n, obj))
                     => /\ Selects(request.kind, request.proxyTenants, request.method, n, obj, cache[n])
                        /\ request.kind \in NodeKinds => n \in Cached
        BY <1>2, <2>1, ListSelects
    <2>3. QED
        BY <1>1, <1>2, <1>3, <2>2
<1>4. CASE request.name # NoObject
    <2>1. Decision = GetDecision(request) /\ request.name \in Names
        BY <1>1, <1>4 DEF Decision, Named
    <2> DEFINE name == request.name
    <2> DEFINE found == Selects(request.kind, request.proxyTenants, request.method, name,
                                cache[name], cache[name])
    <2>2. /\ Decision.outcome = "filter" => Decision.selector # {} /\ name \in Cached /\ found
          /\ Decision.outcome = "notFound" /\ name \in Cached => ~found
        BY <1>2, <2>1, GetDecides
    <2>3. QED
        BY <1>1, <1>4, <2>2
<1>5. QED
    BY <1>3, <1>4

LEMMA HandleKeeps ==
    ASSUME IndInv, Handle
    PROVE  IndInv'
<1>1. request.pc = "handle" /\ UNCHANGED <<caller, objects, cache, listed, writes>>
    BY DEF Handle
<1>2. Shape(request)
    BY DEF IndInv, RequestInv
<1>3. /\ Shape(request') /\ request'.decision = Decision
      /\ request'.pc \in {"send", "impersonated", "refused"}
      /\ request'.pc = "send" => Decision.outcome = "filter"
      /\ request'.kind = request.kind /\ request'.method = request.method
      /\ request'.name = request.name /\ request'.proxyTenants = request.proxyTenants
      /\ request'.steady = request.steady /\ request'.synced = request.synced
    BY <1>2, HandledFields
<1>4. World'
    BY <1>1 DEF IndInv, World
<1>5. RequestInv'
    <2>1. Decision.outcome = "filter" => Decision.selector # {}
        <3>1. CASE request.name = NoObject
            <4>1. Asked(request)
                BY <1>1 DEF IndInv, RequestInv, World, Asked
            <4>2. Decision = ListDecision(request)
                BY <3>1 DEF Decision, Named
            <4>3. QED
                BY <4>1, <4>2, ListSelects
        <3>2. CASE request.name # NoObject
            <4>1. request.name \in Names
                BY <3>2 DEF IndInv, RequestInv
            <4>2. QED
                BY <1>1, <4>1, DecisionSelects
        <3>3. QED
            BY <3>1, <3>2
    <2>2. QED
        BY <1>1, <1>3, <2>1 DEF IndInv, RequestInv
<1>6. SyncInv'
    BY <1>1, <1>3 DEF IndInv, SyncInv
<1>7. FoundInv'
    <2>1. \A n \in listed' : Finds(n, objects[n])'
        BY <1>1 DEF IndInv, FoundInv, Finds
    <2>2. ASSUME request'.pc = "send", request'.name = NoObject, request'.method = "GET",
                 request'.steady, request'.synced,
                 NEW n \in Names, objects[n] # NoObject,
                 SelectorMatches(Decision.selector, Labels(n, objects[n]))
          PROVE  Finds(n, objects[n])
        <3>1. cache = objects
            BY <1>1, <1>3, <2>2 DEF IndInv, SyncInv
        <3>2. Selects(caller.kind, caller.proxyTenants, "GET", n, objects[n], cache[n])
            BY <1>1, <1>3, <2>2, DecisionSelects
        <3>3. QED
            BY <2>2, <3>1, <3>2 DEF Finds
    <2>3. ASSUME Decision.outcome = "notFound", request.method = "GET", request.name \in listed
          PROVE  FALSE
        <3>1. PICK n \in Names : n = request.name
            BY <2>3 DEF IndInv, World
        <3>2. cache = objects /\ Finds(n, objects[n])
            BY <2>3, <3>1 DEF IndInv, SyncInv, FoundInv
        <3>3. n \in Cached /\ Selects(caller.kind, caller.proxyTenants, "GET", n, cache[n], cache[n])
            BY <3>1, <3>2 DEF Cached, Finds
        <3>4. QED
            BY <1>1, <2>3, <3>1, <3>3, DecisionSelects
    <2>4. ListedIsFound'
        BY <1>1, <1>3, <2>3 DEF ListedIsFound
    <2>5. QED
        BY <1>1, <1>3, <2>1, <2>2, <2>4 DEF FoundInv, Finds
<1>8. QED
    BY <1>4, <1>5, <1>6, <1>7 DEF IndInv

LEMMA ReadFailsKeeps ==
    ASSUME IndInv, ReadFails
    PROVE  IndInv'
<1>1. /\ request.pc = "handle" /\ UNCHANGED <<caller, objects, cache, listed, writes>>
      /\ request' = [request EXCEPT !.pc = "refused", !.decision = Refuse("error")]
    BY DEF ReadFails
<1>2. /\ Shape(request') /\ request'.pc = "refused" /\ request'.decision = Refuse("error")
      /\ request'.kind = request.kind /\ request'.method = request.method
      /\ request'.name = request.name /\ request'.proxyTenants = request.proxyTenants
    BY <1>1, DecidedFields DEF IndInv, RequestInv
<1>3. World'
    BY <1>1 DEF IndInv, World
<1>4. RequestInv'
    BY <1>1, <1>2 DEF IndInv, RequestInv
<1>5. SyncInv'
    BY <1>1, <1>2 DEF IndInv, SyncInv
<1>6. FoundInv'
    <2>1. request'.decision.outcome # "notFound"
        BY <1>2 DEF Refuse
    <2>2. QED
        BY <1>1, <1>2, <2>1 DEF IndInv, FoundInv, ListedIsFound, Finds
<1>7. QED
    BY <1>3, <1>4, <1>5, <1>6 DEF IndInv

\* The objects that the API server shows.
Matched == {n \in Names : objects[n] # NoObject /\ Shows(request, n, objects[n])}

LEMMA SentFields ==
    ASSUME Shape(request), Send
    PROVE  /\ request.pc = "send" /\ UNCHANGED <<caller, objects, cache, writes>>
           /\ Shape(request') /\ request'.pc = "answered"
           /\ request'.shown = {<<n, Labels(n, objects[n])>> : n \in Matched}
           /\ request'.kind = request.kind /\ request'.method = request.method
           /\ request'.name = request.name /\ request'.proxyTenants = request.proxyTenants
           /\ request'.steady = request.steady /\ request'.synced = request.synced
           /\ \/ listed' = listed
              \/ /\ request.name = NoObject /\ request.method = "GET"
                 /\ request.steady /\ request.synced
                 /\ listed' = Matched
<1> DEFINE shown == {<<n, Labels(n, objects[n])>> : n \in Matched}
<1>1. Matched = {n \in Names :
                   /\ objects[n] # NoObject
                   /\ IF Named THEN n = request.name
                      ELSE SelectorMatches(request.decision.selector, Labels(n, objects[n]))}
    BY DEF Matched, Shows, Named
<1>2. request' = [request EXCEPT !.pc = "answered", !.shown = shown]
    BY <1>1 DEF Send
<1>3. listed' = IF ~Named /\ request.method = "GET" /\ request.steady /\ request.synced
                THEN Matched ELSE listed
    BY <1>1 DEF Send
<1>4. request.pc = "send" /\ UNCHANGED <<caller, objects, cache, writes>>
    BY DEF Send
<1> HIDE DEF shown
<1>5. /\ Shape(request') /\ request'.pc = "answered" /\ request'.shown = shown
      /\ request'.kind = request.kind /\ request'.method = request.method
      /\ request'.name = request.name /\ request'.proxyTenants = request.proxyTenants
      /\ request'.steady = request.steady /\ request'.synced = request.synced
    BY <1>2, AnsweredFields
<1>6. QED
    BY <1>3, <1>4, <1>5 DEF Named, shown

LEMMA SendKeeps ==
    ASSUME IndInv, Send
    PROVE  IndInv'
<1>1. Shape(request)
    BY DEF IndInv, RequestInv
<1>2. /\ request.pc = "send" /\ UNCHANGED <<caller, objects, cache, writes>>
      /\ Shape(request') /\ request'.pc = "answered"
      /\ request'.kind = request.kind /\ request'.method = request.method
      /\ request'.name = request.name /\ request'.proxyTenants = request.proxyTenants
      /\ request'.steady = request.steady /\ request'.synced = request.synced
      /\ \/ listed' = listed
         \/ /\ request.name = NoObject /\ request.method = "GET"
            /\ request.steady /\ request.synced
            /\ listed' = Matched
    BY <1>1, SentFields
<1>3. World'
    <2>1. Matched \in SUBSET Names
        BY DEF Matched
    <2>2. QED
        BY <1>2, <2>1 DEF IndInv, World
<1>4. RequestInv'
    BY <1>2 DEF IndInv, RequestInv
<1>5. SyncInv'
    BY <1>2 DEF IndInv, SyncInv
<1>6. FoundInv'
    <2>1. \A n \in listed' : Finds(n, objects[n])
        BY <1>2 DEF IndInv, FoundInv, Matched, Shows
    <2>2. \A n \in listed' : Finds(n, objects[n])'
        BY <1>2, <2>1 DEF Finds
    <2>3. QED
        BY <1>2, <2>2 DEF FoundInv, ListedIsFound
<1>7. QED
    BY <1>3, <1>4, <1>5, <1>6 DEF IndInv

LEMMA CreatedFields ==
    ASSUME Shape(request), SendCreate
    PROVE  /\ request.pc = "send" /\ UNCHANGED <<caller, cache, writes>>
           /\ Shape(request') /\ request'.pc = "answered" /\ request'.shown = {}
           /\ request'.kind = request.kind /\ request'.method = request.method
           /\ request'.name = request.name /\ request'.proxyTenants = request.proxyTenants
<1>1. request.pc = "send" /\ UNCHANGED <<caller, cache, writes>>
    BY DEF SendCreate
<1>2. \/ request' = [request EXCEPT !.pc = "answered", !.shown = {}, !.steady = FALSE]
      \/ request' = [request EXCEPT !.pc = "answered", !.shown = {}]
    BY DEF SendCreate
<1>3. QED
    BY <1>1, <1>2 DEF Shape

\* The object that is created ends what was listed.
LEMMA SendCreateKeeps ==
    ASSUME IndInv, SendCreate
    PROVE  IndInv'
<1>1. Shape(request)
    BY DEF IndInv, RequestInv
<1>2. /\ request.pc = "send" /\ UNCHANGED <<caller, cache, writes>>
      /\ Shape(request') /\ request'.pc = "answered"
      /\ request'.kind = request.kind /\ request'.method = request.method
      /\ request'.name = request.name /\ request'.proxyTenants = request.proxyTenants
    BY <1>1, CreatedFields
<1>3. \/ listed' = {} /\ objects' \in [Names -> Objects \cup {NoObject}]
      \/ UNCHANGED <<objects, listed>>
    BY DEF SendCreate, IndInv, World
<1>4. World'
    BY <1>2, <1>3 DEF IndInv, World
<1>5. RequestInv'
    BY <1>2 DEF IndInv, RequestInv
<1>6. SyncInv'
    BY <1>2, <1>3 DEF IndInv, SyncInv
<1>7. FoundInv'
    <2>1. \A n \in listed' : Finds(n, objects[n])'
        BY <1>2, <1>3 DEF IndInv, FoundInv, Finds
    <2>2. QED
        BY <1>2, <2>1 DEF FoundInv, ListedIsFound
<1>8. QED
    BY <1>4, <1>5, <1>6, <1>7 DEF IndInv

LEMMA NextKeeps ==
    ASSUME IndInv, [Next]_vars
    PROVE  IndInv'
<1>1. CASE Write \/ Sync
    BY <1>1, ChangeKeeps
<1>2. ASSUME NEW method \in Methods, NEW name \in Names \cup {NoObject},
             NEW version \in {"v1", "other"}, Begin(method, name, version)
      PROVE  IndInv'
    BY <1>2, BeginKeeps
<1>3. CASE Handle
    BY <1>3, HandleKeeps
<1>4. CASE ReadFails
    BY <1>4, ReadFailsKeeps
<1>5. CASE Send
    BY <1>5, SendKeeps
<1>6. CASE SendCreate
    BY <1>6, SendCreateKeeps
<1>7. CASE UNCHANGED vars
    <2>1. World' /\ RequestInv' /\ SyncInv'
        BY <1>7 DEF vars, IndInv, World, RequestInv, SyncInv
    <2>2. FoundInv'
        BY <1>7 DEF vars, IndInv, FoundInv, ListedIsFound, Finds
    <2>3. QED
        BY <2>1, <2>2 DEF IndInv
<1>8. QED
    BY <1>1, <1>2, <1>3, <1>4, <1>5, <1>6, <1>7 DEF Next

LEMMA Invariance == Spec => []IndInv
<1>1. Init => IndInv
    BY InitHolds
<1>2. IndInv /\ [Next]_vars => IndInv'
    BY NextKeeps
<1>3. QED
    BY <1>1, <1>2, PTL DEF Spec

\* Every value keeps its type, and no request is sent without a selector: the
\* proxy's token would reach every object (Handle of the legacy modules).
THEOREM TypeCorrect == Spec => []TypeOK
<1>1. IndInv => TypeOK
    BY DEF IndInv, World, RequestInv, TypeOK
<1>2. QED
    BY <1>1, Invariance, PTL

\* For all tenants, objects and names: what a LIST has shown is found by a
\* GET, if nothing changed in between (HandleListSelector, HandleGetSelector,
\* GetNodeSelector and the selectors of the class modules).
THEOREM ListedFound == Spec => []ListedIsFound
<1>1. IndInv => ListedIsFound
    BY DEF IndInv, FoundInv
<1>2. QED
    BY <1>1, Invariance, PTL

-----------------------------------------------------------------------------
(* What a filtered request reaches. *)

LEMMA SelectedIsGranted ==
    ASSUME PlainSelectors,
           NEW kind \in Kinds, NEW pts \in ProxyTenants, NEW method \in Methods, NEW n,
           NEW obj, NEW read, kind \in NodeKinds => read = obj,
           Selects(kind, pts, method, n, obj, read)
    PROVE  Grants(pts, kind, method, n, Labels(n, obj))
<1>1. CASE kind \in ClassKinds /\ Admitted(Collect(kind, pts, method), n, obj)
    <2>1. kind \in Kinds \cap ClassKinds
        BY <1>1
    <2>2. CASE MatchesOne(Collect(kind, pts, method).requirements, Labels(n, obj))
        BY <2>1, <2>2, RequirementIsGranted
    <2>3. CASE Chosen(Collect(kind, pts, method), n)
        BY <2>1, <2>3, ChosenIsGranted
    <2>4. QED
        BY <1>1, <2>2, <2>3 DEF Admitted
<1>2. CASE kind = "PersistentVolumes" /\ OfTenant(pts, method, Labels(n, obj))
    BY <1>2, VolumeIsGranted
<1>3. CASE kind \in NodeKinds /\ OnNode(pts, Labels(n, read))
    BY <1>3, NodeIsGranted
<1>4. QED
    BY <1>1, <1>2, <1>3 DEF Selects

\* A request that is handled will reach what is allowed.
LEMMA HandledIsAllowed ==
    ASSUME PlainSelectors, IndInv, request.pc = "handle", Decision.outcome = "filter",
           NEW n \in Names
    PROVE  /\ request.name = NoObject /\ request.kind \notin NodeKinds
              => \A obj \in Objects : SelectorMatches(Decision.selector, Labels(n, obj))
                                          => Allowed(request, n, Labels(n, obj))
           /\ /\ cache = objects
              /\ IF request.name # NoObject THEN n = request.name
                 ELSE SelectorMatches(Decision.selector, Labels(n, objects[n]))
              => Allowed(request, n, Labels(n, objects[n]))
<1>1. /\ request.kind = caller.kind /\ request.proxyTenants = caller.proxyTenants
      /\ request.method \in Methods
      /\ caller.kind \in Kinds /\ caller.proxyTenants \in ProxyTenants
    BY DEF IndInv, RequestInv, World
<1>2. ASSUME NEW labels, Grants(caller.proxyTenants, caller.kind, request.method, n, labels)
      PROVE  Allowed(request, n, labels)
    BY <1>1, <1>2 DEF Grants, Allowed
<1>3. ASSUME request.name = NoObject, request.kind \notin NodeKinds, NEW obj \in Objects,
             SelectorMatches(Decision.selector, Labels(n, obj))
      PROVE  Allowed(request, n, Labels(n, obj))
    <2>1. Selects(caller.kind, caller.proxyTenants, request.method, n, obj, cache[n])
        BY <1>3, DecisionSelects
    <2>2. Grants(caller.proxyTenants, caller.kind, request.method, n, Labels(n, obj))
        BY <1>1, <1>3, <2>1, SelectedIsGranted
    <2>3. QED
        BY <1>2, <2>2
<1>4. ASSUME cache = objects,
             IF request.name # NoObject THEN n = request.name
             ELSE SelectorMatches(Decision.selector, Labels(n, objects[n]))
      PROVE  Allowed(request, n, Labels(n, objects[n]))
    <2>1. Selects(caller.kind, caller.proxyTenants, request.method, n, objects[n], objects[n])
        <3>1. CASE request.name = NoObject
            BY <1>4, <3>1, DecisionSelects
        <3>2. CASE request.name # NoObject
            BY <1>4, <3>2, DecisionSelects
        <3>3. QED
            BY <3>1, <3>2
    <2>2. Grants(caller.proxyTenants, caller.kind, request.method, n, Labels(n, objects[n]))
        BY <1>1, <2>1, SelectedIsGranted
    <2>3. QED
        BY <1>2, <2>2
<1>5. QED
    BY <1>3, <1>4

LEMMA AllowedStays ==
    ASSUME request'.kind = request.kind, request'.method = request.method,
           request'.proxyTenants = request.proxyTenants, NEW n, NEW labels
    PROVE  Allowed(request', n, labels) <=> Allowed(request, n, labels)
    BY DEF Allowed

LEMMA ChangeKeepsAllowed ==
    ASSUME IndInv, AllowedInv, Write \/ Sync
    PROVE  AllowedInv'
<1>1. Changed /\ Shape(request)
    BY DEF Write, Sync, IndInv, RequestInv
<1>2. /\ request'.steady = FALSE
      /\ request'.pc = request.pc /\ request'.kind = request.kind
      /\ request'.method = request.method /\ request'.name = request.name
      /\ request'.proxyTenants = request.proxyTenants /\ request'.shown = request.shown
      /\ request'.decision = request.decision
    BY <1>1, ChangedFields
<1>3. ASSUME NEW n, NEW labels
      PROVE  Allowed(request', n, labels) <=> Allowed(request, n, labels)
    BY <1>2, AllowedStays
<1>4. ASSUME request'.pc = "send", request'.name = NoObject, request'.kind \notin NodeKinds,
             NEW n \in Names, NEW obj \in Objects,
             SelectorMatches(request'.decision.selector, Labels(n, obj))
      PROVE  Allowed(request', n, Labels(n, obj))
    BY <1>2, <1>3, <1>4 DEF AllowedInv
<1>5. CollectionIsAllowed'
    <2>1. ASSUME request'.pc = "answered", request'.name = NoObject,
                 request'.kind \notin {"Nodes", "NodeMetrics"}, NEW s \in request'.shown
          PROVE  Allowed(request', s[1], s[2])
        <3>1. Allowed(request, s[1], s[2])
            BY <1>2, <2>1 DEF AllowedInv, CollectionIsAllowed, ShownIsAllowed, Named
        <3>2. QED
            BY <1>3, <3>1
    <2>2. QED
        BY <2>1 DEF CollectionIsAllowed, ShownIsAllowed, Named
<1>6. ReachedIsAllowed'
    BY <1>2 DEF ReachedIsAllowed
<1>7. QED
    BY <1>2, <1>4, <1>5, <1>6 DEF AllowedInv

LEMMA HandleKeepsAllowed ==
    ASSUME PlainSelectors, IndInv, Handle
    PROVE  AllowedInv'
<1>1. request.pc = "handle" /\ UNCHANGED <<caller, objects, cache, listed, writes>>
    BY DEF Handle
<1>2. Shape(request)
    BY DEF IndInv, RequestInv
<1>3. /\ request'.decision = Decision
      /\ request'.pc \in {"send", "impersonated", "refused"}
      /\ request'.pc = "send" => Decision.outcome = "filter"
      /\ request'.kind = request.kind /\ request'.method = request.method
      /\ request'.name = request.name /\ request'.proxyTenants = request.proxyTenants
      /\ request'.steady = request.steady /\ request'.synced = request.synced
    BY <1>2, HandledFields
<1>4. ASSUME NEW n, NEW labels
      PROVE  Allowed(request', n, labels) <=> Allowed(request, n, labels)
    BY <1>3, AllowedStays
<1>5. ASSUME request'.pc = "send", request'.name = NoObject, request'.kind \notin NodeKinds,
             NEW n \in Names, NEW obj \in Objects,
             SelectorMatches(Decision.selector, Labels(n, obj))
      PROVE  Allowed(request', n, Labels(n, obj))
    <2>1. Allowed(request, n, Labels(n, obj))
        BY <1>1, <1>3, <1>5, HandledIsAllowed
    <2>2. QED
        BY <1>4, <2>1
<1>6. ASSUME request'.pc = "send", request'.steady, request'.synced, NEW n \in Names,
             IF request'.name # NoObject THEN n = request'.name
             ELSE SelectorMatches(Decision.selector, Labels(n, objects[n]))
      PROVE  Allowed(request', n, Labels(n, objects[n]))
    <2>1. cache = objects
        BY <1>1, <1>3, <1>6 DEF IndInv, SyncInv
    <2>2. Allowed(request, n, Labels(n, objects[n]))
        BY <1>1, <1>3, <1>6, <2>1, HandledIsAllowed
    <2>3. QED
        BY <1>4, <2>2
<1>7. CollectionIsAllowed' /\ ReachedIsAllowed'
    BY <1>3 DEF CollectionIsAllowed, ReachedIsAllowed
<1>8. QED
    BY <1>1, <1>3, <1>5, <1>6, <1>7 DEF AllowedInv, Shows

LEMMA SendKeepsAllowed ==
    ASSUME IndInv, AllowedInv, Send
    PROVE  AllowedInv'
<1>1. Shape(request)
    BY DEF IndInv, RequestInv
<1>2. /\ request.pc = "send" /\ UNCHANGED <<caller, objects, cache, writes>>
      /\ request'.pc = "answered"
      /\ request'.shown = {<<n, Labels(n, objects[n])>> : n \in Matched}
      /\ request'.kind = request.kind /\ request'.method = request.method
      /\ request'.name = request.name /\ request'.proxyTenants = request.proxyTenants
      /\ request'.steady = request.steady /\ request'.synced = request.synced
    BY <1>1, SentFields
<1>3. ASSUME NEW n, NEW labels
      PROVE  Allowed(request', n, labels) <=> Allowed(request, n, labels)
    BY <1>2, AllowedStays
<1>4. ASSUME \A n \in Matched : Allowed(request, n, Labels(n, objects[n]))
      PROVE  ShownIsAllowed'
    <2>1. ASSUME NEW s \in request'.shown
          PROVE  Allowed(request', s[1], s[2])
        <3>1. PICK n \in Matched : s = <<n, Labels(n, objects[n])>>
            BY <1>2
        <3>2. s[1] = n /\ s[2] = Labels(n, objects[n])
            BY <3>1
        <3>3. QED
            BY <1>3, <1>4, <3>2
    <2>2. QED
        BY <2>1 DEF ShownIsAllowed
<1>5. \A n \in Matched : n \in Names /\ objects[n] \in Objects /\ Shows(request, n, objects[n])
    BY DEF Matched, IndInv, World
<1>6. CollectionIsAllowed'
    <2>1. ASSUME request'.name = NoObject, request'.kind \notin {"Nodes", "NodeMetrics"}
          PROVE  ShownIsAllowed'
        <3>1. \A n \in Matched : Allowed(request, n, Labels(n, objects[n]))
            BY <1>2, <1>5, <2>1 DEF AllowedInv, Shows, NodeKinds
        <3>2. QED
            BY <1>4, <3>1
    <2>2. QED
        BY <2>1 DEF CollectionIsAllowed, Named
<1>7. ReachedIsAllowed'
    <2>1. ASSUME request'.steady, request'.synced
          PROVE  ShownIsAllowed'
        <3>1. \A n \in Matched : Allowed(request, n, Labels(n, objects[n]))
            BY <1>2, <2>1 DEF AllowedInv, Matched
        <3>2. QED
            BY <1>4, <3>1
    <2>2. QED
        BY <2>1 DEF ReachedIsAllowed
<1>8. QED
    BY <1>2, <1>6, <1>7 DEF AllowedInv

LEMMA NextKeepsAllowed ==
    ASSUME PlainSelectors, IndInv, AllowedInv, [Next]_vars
    PROVE  AllowedInv'
<1>1. CASE Write \/ Sync
    BY <1>1, ChangeKeepsAllowed
<1>2. ASSUME NEW method \in Methods, NEW name \in Names \cup {NoObject},
             NEW version \in {"v1", "other"}, Begin(method, name, version)
      PROVE  AllowedInv'
    <2>1. request'.pc = "handle"
        BY <1>2, BegunFields
    <2>2. QED
        BY <2>1 DEF AllowedInv, CollectionIsAllowed, ReachedIsAllowed
<1>3. CASE Handle
    BY <1>3, HandleKeepsAllowed
<1>4. CASE ReadFails
    <2>1. request'.pc = "refused"
        BY <1>4, DecidedFields DEF ReadFails, IndInv, RequestInv
    <2>2. QED
        BY <2>1 DEF AllowedInv, CollectionIsAllowed, ReachedIsAllowed
<1>5. CASE Send
    BY <1>5, SendKeepsAllowed
<1>6. CASE SendCreate
    <2>1. request'.pc = "answered" /\ request'.shown = {}
        BY <1>6, CreatedFields DEF IndInv, RequestInv
    <2>2. QED
        BY <2>1 DEF AllowedInv, CollectionIsAllowed, ReachedIsAllowed, ShownIsAllowed
<1>7. CASE UNCHANGED vars
    <2>1. request' = request /\ objects' = objects
        BY <1>7 DEF vars
    <2>2. QED
        BY <2>1 DEF AllowedInv, CollectionIsAllowed, ReachedIsAllowed, ShownIsAllowed, Named
<1>8. QED
    BY <1>1, <1>2, <1>3, <1>4, <1>5, <1>6, <1>7 DEF Next

\* However stale the cache is, a filtered request for a collection reaches
\* only what a tenant of the caller allows for the method, if no selector of a
\* tenant has two requirements (list.go of the class modules and of the
\* persistent volumes).
THEOREM CollectionAllowed ==
    ASSUME PlainSelectors
    PROVE  Spec => []CollectionIsAllowed
<1>1. Init => AllowedInv
    BY InitHolds
<1>2. IndInv /\ AllowedInv /\ [Next]_vars => AllowedInv'
    BY NextKeepsAllowed
<1>3. AllowedInv => CollectionIsAllowed
    BY DEF AllowedInv
<1>4. QED
    BY <1>1, <1>2, <1>3, Invariance, PTL DEF Spec

\* With an up to date cache, the same holds for every filtered request of the
\* seven resources, by name too (get.go and list.go of the legacy modules).
THEOREM ReachedAllowed ==
    ASSUME PlainSelectors
    PROVE  Spec => []ReachedIsAllowed
<1>1. Init => AllowedInv
    BY InitHolds
<1>2. IndInv /\ AllowedInv /\ [Next]_vars => AllowedInv'
    BY NextKeepsAllowed
<1>3. AllowedInv => ReachedIsAllowed
    BY DEF AllowedInv
<1>4. QED
    BY <1>1, <1>2, <1>3, Invariance, PTL DEF Spec

=============================================================================
