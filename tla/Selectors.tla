----------------------------- MODULE Selectors -----------------------------
(***************************************************************************)
(* Label selectors and the ClusterResources rules of ProxySettings and     *)
(* GlobalProxySettings: which requirements a set of rules yields for a     *)
(* resource, and what HandleListSelector makes of them.                    *)
(*                                                                         *)
(* A requirement is [key, operator, values]; labels are a function from    *)
(* keys to values, or NoLabel.  A rule is [resources, apiGroups,           *)
(* operations, selector] with a set of requirements as its selector, or    *)
(* NoSelector where the selector is nil or invalid.                        *)
(*                                                                         *)
(* API groups, versions and patterns are sequences of elements, where an   *)
(* element is a run of characters, "/", or in patterns the wildcard "*".   *)
(***************************************************************************)
EXTENDS Integers, Sequences, SequencesExt, FiniteSetsExt

CONSTANTS NoLabel, NoSelector

Operators == {"In", "NotIn", "Exists", "DoesNotExist"}

\* labels.Requirement.Matches
Matches(req, labels) ==
    IF req.operator = "In" THEN labels[req.key] \in req.values
    ELSE IF req.operator = "NotIn" THEN labels[req.key] \notin req.values
    ELSE IF req.operator = "Exists" THEN labels[req.key] # NoLabel
    ELSE labels[req.key] = NoLabel

\* labels.Selector.Matches
SelectorMatches(selector, labels) == \A req \in selector : Matches(req, labels)

\* strings.Split(pattern, "*")
Parts(pattern) ==
    LET parts[i \in 0..Len(pattern)] ==
            IF i = 0 THEN << << >> >>
            ELSE IF pattern[i] = "*" THEN Append(parts[i - 1], << >>)
            ELSE [parts[i - 1] EXCEPT ![Len(parts[i - 1])] = Append(@, pattern[i])]
    IN  parts[Len(pattern)]

\* Where a part occurs in the value, from idx on.
Starts(value, part, idx) ==
    {i \in idx..(Len(value) - Len(part)) : SubSeq(value, i + 1, i + Len(part)) = part}

\* The parts occur one after the other; -1 where the next one is missing.
SearchParts(parts, value) ==
    LET search[k \in 0..Len(parts)] ==
            IF k = 0 THEN 0
            ELSE IF search[k - 1] < 0 \/ Starts(value, parts[k], search[k - 1]) = {} THEN -1
            ELSE Min(Starts(value, parts[k], search[k - 1])) + Len(parts[k])
    IN  search[Len(parts)]

\* One wildcard at the start or at the end is anchored at the other side; all
\* other patterns are looked for anywhere in the value.
matchPattern(pattern, value) ==
    LET parts == Parts(pattern)
    IN  IF pattern = <<"*">> THEN TRUE
        ELSE IF ~Contains(pattern, "*") THEN pattern = value
        ELSE IF Len(parts) = 2 /\ parts[1] = << >> THEN IsSuffix(parts[2], value)
        ELSE IF Len(parts) = 2 /\ parts[2] = << >> THEN IsPrefix(parts[1], value)
        ELSE SearchParts(parts, value) >= 0

\* What a pattern is meant to match: any run of elements for each "*".  match[i]
\* is how much of the value its first i elements may stand for.
Glob(pattern, value) ==
    LET match[i \in 0..Len(pattern)] ==
            IF i = 0 THEN {0}
            ELSE IF pattern[i] = "*" THEN {j \in 0..Len(value) : \E h \in match[i - 1] : h <= j}
            ELSE {j \in 1..Len(value) : pattern[i] = value[j] /\ j - 1 \in match[i - 1]}
    IN  Len(value) \in match[Len(pattern)]

\* A pattern with a slash is compared with the group and version.
matchResource(gvk, rule) ==
    /\ rule.resources \cap {"*", gvk.resource} # {}
    /\ \E pattern \in rule.apiGroups :
          matchPattern(pattern, IF Contains(pattern, "/") THEN gvk.group \o <<"/">> \o gvk.version
                                ELSE gvk.group)

\* Mutant: LIST does not include GET.
AllowsOperationExact(rule, operation) ==
    rule.operations = {} \/ operation \in rule.operations

\* LIST includes GET; no operations are all of them.
AllowsOperation(rule, operation) ==
    \/ rule.operations = {}
    \/ operation \in rule.operations
    \/ operation = "Get" /\ "List" \in rule.operations

\* The requirements of all rules that apply, in one set.
GetClusterScopeRequirements(gvk, operation, rules) ==
    UNION {rule.selector :
             rule \in {r \in rules : /\ r.selector # NoSelector
                                     /\ matchResource(gvk, r)
                                     /\ AllowsOperation(r, operation)}}

\* HandleListSelector: the values of requirements with the same key and
\* operator are merged, the merged requirements must all match.
HandleListSelector(requirements) ==
    {[key |-> req.key, operator |-> req.operator,
      values |-> UNION {other.values :
                          other \in {o \in requirements :
                                       o.key = req.key /\ o.operator = req.operator}}] :
        req \in requirements}

\* HandleGetSelector and matchesClusterScopedNamespace: one match is enough.
MatchesOne(requirements, labels) == \E req \in requirements : Matches(req, labels)

\* A rule's selector selects an object with these labels.
Selected(rules, gvk, operation, labels) ==
    \E rule \in rules :
        /\ rule.selector # NoSelector /\ rule.selector # {}
        /\ matchResource(gvk, rule)
        /\ AllowsOperation(rule, operation)
        /\ SelectorMatches(rule.selector, labels)

=============================================================================
