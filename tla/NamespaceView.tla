--------------------------- MODULE NamespaceView ---------------------------
(***************************************************************************)
(* What a Capsule user sees of namespaces: the namespace modules' LIST and *)
(* GET (internal/modules/namespace), on top of getTenantsForOwner, which   *)
(* collects the user's tenants, ProxySettings and GlobalProxySettings.     *)
(*                                                                         *)
(* A request reads one informer cache after the other, and is then sent to *)
(* the API server with the proxy's own token, so that what the handler     *)
(* concluded from the caches decides what the user is shown.  The caches   *)
(* lag behind the API server, and the Tenants' status behind the           *)
(* namespaces, which Capsule reconciles.                                   *)
(*                                                                         *)
(* A request for an object in a namespace is sent as the caller; if the    *)
(* API server forbids it, the namespace gate (webserver/namespacegate)     *)
(* tells the caller of a GET whether the namespace is missing.             *)
(***************************************************************************)
EXTENDS Selectors

CONSTANTS
    Names,             \* namespaces
    NamespaceObjects,  \* [owner, labels]
    Tenants,
    Subjects,          \* of the caller: its user and its groups, a sequence
    OwnerSets,         \* sets of subjects that Tenants may have as owners
    ProxySettingIds,
    ProxySettingObjects,   \* [namespace, subjects: sequence of [subject, clusterResources]]
    GlobalIds,
    GlobalObjects,     \* sets of [subjects, clusterResources]
    ClusterScoped,     \* the feature gate ProxyClusterScoped
    Cached,            \* whether n.reader is the cached client
    CallsFail,         \* whether reads may fail
    MaxWrites,         \* bound: changes of objects
    NoObject, NoTenant

ASSUME ViewAssumption ==
    /\ Subjects \in Seq(UNION OwnerSets)
    /\ NoObject \notin NamespaceObjects
    /\ NoObject \notin ProxySettingObjects
    /\ NoObject \notin GlobalObjects
    /\ ClusterScoped \in BOOLEAN /\ Cached \in BOOLEAN /\ CallsFail \in BOOLEAN
    /\ MaxWrites \in Nat
    /\ NoTenant \notin Tenants

VARIABLES
    apiNamespaces,         \* the namespaces in the API server
    namespaces,            \* in the informer cache
    tenants,               \* the informer caches: tenant -> status [owners, namespaces]
    proxySettings, globalProxySettings,
    bound,                 \* namespaces where the reflector finds the caller
    request,               \* the request being served
    listed,                \* what the last LIST showed, if nothing changed since
    writes

world == <<apiNamespaces, namespaces, tenants, proxySettings, globalProxySettings, bound, writes>>
vars == <<apiNamespaces, namespaces, tenants, proxySettings, globalProxySettings, bound,
          request, listed, writes>>

namespacesGVK == [group |-> << >>, version |-> <<"v1">>, resource |-> "namespaces"]
GlobalTenant == "global"

-----------------------------------------------------------------------------
(***************************************************************************)
(* The objects.  A request is synced if the caches and statuses were up to *)
(* date when it began, and steady as long as nothing changes.              *)
(***************************************************************************)
OwnedBy(t) == {n \in Names : apiNamespaces[n] # NoObject /\ apiNamespaces[n].owner = t}

InSync ==
    /\ namespaces = apiNamespaces
    /\ \A t \in Tenants : tenants[t].namespaces = OwnedBy(t)

Changed ==
    /\ request' = [request EXCEPT !.steady = FALSE]
    /\ listed' = {}

Write ==
    /\ writes < MaxWrites
    /\ writes' = writes + 1
    /\ Changed

WriteNamespace ==
    \E n \in Names, ns \in NamespaceObjects \cup {NoObject} :
        /\ ns # apiNamespaces[n]
        /\ apiNamespaces' = [apiNamespaces EXCEPT ![n] = ns]
        /\ Write
        /\ UNCHANGED <<namespaces, tenants, proxySettings, globalProxySettings, bound>>

WriteTenantOwners ==
    \E t \in Tenants, owners \in OwnerSets :
        /\ tenants' = [tenants EXCEPT ![t].owners = owners]
        /\ Write
        /\ UNCHANGED <<apiNamespaces, namespaces, proxySettings, globalProxySettings, bound>>

WriteSettings ==
    /\ \/ /\ \E p \in ProxySettingIds, obj \in ProxySettingObjects \cup {NoObject} :
                proxySettings' = [proxySettings EXCEPT ![p] = obj]
          /\ UNCHANGED globalProxySettings
       \/ /\ \E g \in GlobalIds, obj \in GlobalObjects \cup {NoObject} :
                globalProxySettings' = [globalProxySettings EXCEPT ![g] = obj]
          /\ UNCHANGED proxySettings
    /\ Write
    /\ UNCHANGED <<apiNamespaces, namespaces, tenants, bound>>

WriteRoleBindings ==
    /\ bound' \in SUBSET Names
    /\ Write
    /\ UNCHANGED <<apiNamespaces, namespaces, tenants, proxySettings, globalProxySettings>>

\* The informer catches up with a namespace.
SyncNamespace ==
    /\ \E n \in Names :
          /\ namespaces[n] # apiNamespaces[n]
          /\ namespaces' = [namespaces EXCEPT ![n] = apiNamespaces[n]]
    /\ Changed
    /\ UNCHANGED <<apiNamespaces, tenants, proxySettings, globalProxySettings, bound, writes>>

\* Capsule reconciles a Tenant's status.
ReconcileTenant ==
    /\ \E t \in Tenants :
          /\ tenants[t].namespaces # OwnedBy(t)
          /\ tenants' = [tenants EXCEPT ![t].namespaces = OwnedBy(t)]
    /\ Changed
    /\ UNCHANGED <<apiNamespaces, namespaces, proxySettings, globalProxySettings, bound, writes>>

-----------------------------------------------------------------------------
(***************************************************************************)
(* ProxyTenants: [tenant, namespaces, clusterResources].                   *)
(***************************************************************************)

\* NewProxyTenant: the last entry of the owner counts.
NewProxyTenant(t, subject, owners) ==
    LET mine == {i \in DOMAIN owners : owners[i].subject = subject}
        last == {i \in mine : \A j \in mine : j <= i}
    IN  [tenant |-> t, namespaces |-> tenants[t].namespaces,
         clusterResources |-> UNION {owners[i].clusterResources : i \in last}]

NewClusterProxy(subject, rules) ==
    [tenant |-> GlobalTenant, namespaces |-> {},
     clusterResources |-> UNION {r.clusterResources : r \in {s \in rules : subject \in s.subjects}}]

HasSubject(setting, subject) ==
    \E i \in DOMAIN setting.subjects : setting.subjects[i].subject = subject

ClusterResources(proxyTenants) == UNION {pt.clusterResources : pt \in proxyTenants}

-----------------------------------------------------------------------------
(* getTenantsForOwner, one read after the other. *)

\* Operations on an object in the namespace: GET by its name, and all others.
ObjectOperations == {"GetObject", "OtherObject"}

NoRequest ==
    [pc |-> "idle", operation |-> "List", name |-> NoObject, subjects |-> << >>, settings |-> {},
     proxyTenants |-> {}, namespace |-> NoObject, reflected |-> {}, shown |-> {},
     steady |-> FALSE, synced |-> FALSE, failed |-> FALSE]

Begin(operation, name) ==
    /\ request.pc \in {"idle", "shown", "refused", "notFound", "error"}
    /\ request' = [NoRequest EXCEPT !.pc = IF operation \in ObjectOperations THEN "sendObject"
                                          ELSE "tenants",
                                    !.operation = operation, !.name = name,
                                    !.subjects = Subjects, !.steady = TRUE,
                                    !.synced = InSync]
    /\ UNCHANGED <<world, listed>>

Advance(r) ==
    /\ request' = r
    /\ UNCHANGED <<world, listed>>

\* The request ends, with nothing shown or with some namespaces.
Answer(pc, shown) ==
    [NoRequest EXCEPT !.pc = pc, !.operation = request.operation, !.name = request.name,
                      !.shown = shown, !.steady = request.steady, !.synced = request.synced,
                      !.failed = request.failed]

\* A read fails, and the request with it.
ReadFails(pc) ==
    /\ CallsFail
    /\ request.pc = pc
    /\ Advance(Answer("error", {}))

\* The Tenants that have the subject as an owner.
ListTenants ==
    /\ request.subjects # << >>
    /\ \/ /\ request.pc = "tenants"
          /\ LET subject == Head(request.subjects)
                 owned == {t \in Tenants : subject \in tenants[t].owners}
             IN  Advance([request EXCEPT !.pc = "settings",
                     !.proxyTenants = @ \cup {NewProxyTenant(t, subject, << >>) : t \in owned}])
       \/ ReadFails("tenants")

\* The ProxySettings that name the subject; an error is only logged.
ListProxySettings ==
    /\ request.pc = "settings"
    /\ \/ LET subject == Head(request.subjects)
          IN  Advance([request EXCEPT !.pc = "settingTenants",
                  !.settings = {proxySettings[p] :
                      p \in {q \in ProxySettingIds : /\ proxySettings[q] # NoObject
                                                     /\ HasSubject(proxySettings[q], subject)}}])
       \/ CallsFail /\ Advance([request EXCEPT !.pc = "global", !.failed = TRUE])

\* The Tenant of a ProxySetting's namespace; a ProxySetting elsewhere, or for
\* which the read fails, is skipped.
ListSettingTenants ==
    /\ request.pc = "settingTenants"
    /\ \/ request.settings = {} /\ Advance([request EXCEPT !.pc = "global"])
       \/ \E setting \in request.settings :
             LET owning == {t \in Tenants : setting.namespace \in tenants[t].namespaces}
                 rest == [request EXCEPT !.settings = @ \ {setting}]
             IN  \/ \E t \in owning :
                       Advance([rest EXCEPT !.proxyTenants = @ \cup
                           {NewProxyTenant(t, Head(request.subjects), setting.subjects)}])
                 \/ owning = {} /\ Advance(rest)
                 \/ CallsFail /\ Advance([rest EXCEPT !.failed = TRUE])

\* The GlobalProxySettings that name the subject; an error is only logged.
ListGlobalProxySettings ==
    /\ request.pc = "global"
    /\ LET subject == Head(request.subjects)
           found == IF ~ClusterScoped THEN {}
                    ELSE {g \in GlobalIds :
                            /\ globalProxySettings[g] # NoObject
                            /\ \E r \in globalProxySettings[g] : subject \in r.subjects}
           next == [request EXCEPT !.pc = "tenants", !.subjects = Tail(@)]
       IN  \/ Advance([next EXCEPT !.proxyTenants = @ \cup
                  {NewClusterProxy(subject, globalProxySettings[g]) : g \in found}])
           \/ CallsFail /\ ClusterScoped /\ Advance([next EXCEPT !.failed = TRUE])

-----------------------------------------------------------------------------
(* The modules, and what the API server then shows. *)

Collected == request.pc = "tenants" /\ request.subjects = << >>

TenantNames == {pt.tenant : pt \in request.proxyTenants}

\* n.reader: the informer cache, or the API server.
ReaderNamespaces == IF Cached THEN namespaces ELSE apiNamespaces

\* GetUserNamespacesFromRequest; an error ends the request.
ReadRoleBindings(next) ==
    \/ Advance([request EXCEPT !.pc = next, !.reflected = bound])
    \/ ReadFails(request.pc)

\* namespace.List: the reflector is read, then the namespaces that the rules
\* select.  The request is sent with a selector on the names.
ListReflected == Collected /\ request.operation = "List" /\ ReadRoleBindings("select")

\* Mutant: the names of the tenants instead of their namespaces.
ListHandleTenantNames ==
    /\ request.pc = "select"
    /\ Advance([request EXCEPT !.pc = "send", !.shown = TenantNames \cup request.reflected])

ListHandle ==
    \/ /\ request.pc = "select"
       /\ LET reqs == GetClusterScopeRequirements(namespacesGVK, "List",
                          ClusterResources(request.proxyTenants))
              selected == IF reqs = {} THEN {}
                          ELSE {n \in Names :
                                  /\ ReaderNamespaces[n] # NoObject
                                  /\ SelectorMatches(HandleListSelector(reqs),
                                                     ReaderNamespaces[n].labels)}
              owned == UNION {pt.namespaces : pt \in request.proxyTenants}
          IN  Advance([request EXCEPT !.pc = "send",
                                      !.shown = owned \cup request.reflected \cup selected])
    \/ ReadFails("select")

\* namespace.Get: the namespace is read, then the reflector.  A namespace that
\* is not found is left to the API server; another error looks like a
\* namespace without an owner.
GetRead ==
    /\ Collected
    /\ request.operation = "Get"
    /\ LET ns == ReaderNamespaces[request.name]
       IN  Advance(IF ns = NoObject
                   THEN [request EXCEPT !.pc = "send", !.shown = {request.name}]
                   ELSE IF ns.owner = NoTenant THEN Answer("refused", {})
                   ELSE [request EXCEPT !.pc = "reflect", !.namespace = ns])

GetReadFails ==
    /\ CallsFail
    /\ Collected
    /\ request.operation = "Get"
    /\ Advance([Answer("refused", {}) EXCEPT !.failed = TRUE])

GetReflected == request.pc = "reflect" /\ ReadRoleBindings("decide")

\* Mutant: the tenant's name is not checked.
GetHandleAnyTenant ==
    /\ request.pc = "decide"
    /\ Advance([request EXCEPT !.pc = "send", !.shown = {request.name}])

GetHandle ==
    /\ request.pc = "decide"
    /\ LET reqs == GetClusterScopeRequirements(namespacesGVK, "Get",
                       ClusterResources(request.proxyTenants))
           allowed == \/ request.namespace.owner \in TenantNames
                      \/ request.name \in request.reflected
                      \/ MatchesOne(reqs, request.namespace.labels)
       IN  Advance(IF allowed THEN [request EXCEPT !.pc = "send", !.shown = {request.name}]
                   ELSE Answer("refused", {}))

\* The API server answers: namespaces that do not exist are not shown.
Send ==
    /\ request.pc = "send"
    /\ LET shown == {n \in request.shown : apiNamespaces[n] # NoObject}
       IN  /\ request' = Answer("shown", shown)
           /\ listed' = IF request.operation = "List" /\ request.steady /\ request.synced
                        THEN shown ELSE listed
    /\ UNCHANGED world

-----------------------------------------------------------------------------
(***************************************************************************)
(* The namespace gate.  Every namespace has an object of the requested     *)
(* name, and the caller may access it where it has a RoleBinding.          *)
(***************************************************************************)
SendObject ==
    /\ request.pc = "sendObject"
    /\ Advance(IF request.name \notin bound THEN [request EXCEPT !.pc = "forbidden"]
               ELSE IF apiNamespaces[request.name] = NoObject THEN Answer("notFound", {})
               ELSE Answer("shown", {}))

\* Mutant: the gate reads the informer cache.
ModifyResponseCached ==
    /\ request.pc = "forbidden"
    /\ Advance(IF request.operation = "GetObject" /\ namespaces[request.name] = NoObject
               THEN Answer("notFound", {}) ELSE Answer("refused", {}))

\* The namespace is read from the API server, after its answer.
ModifyResponse ==
    /\ request.pc = "forbidden"
    /\ \/ Advance(IF request.operation = "GetObject" /\ apiNamespaces[request.name] = NoObject
                  THEN Answer("notFound", {}) ELSE Answer("refused", {}))
       \/ /\ CallsFail /\ request.operation = "GetObject"
          /\ Advance([Answer("refused", {}) EXCEPT !.failed = TRUE])

-----------------------------------------------------------------------------
Init ==
    /\ apiNamespaces \in [Names -> NamespaceObjects \cup {NoObject}]
    /\ namespaces = apiNamespaces
    /\ \E owners \in [Tenants -> OwnerSets] :
          tenants = [t \in Tenants |-> [owners |-> owners[t], namespaces |-> OwnedBy(t)]]
    /\ proxySettings \in [ProxySettingIds -> ProxySettingObjects \cup {NoObject}]
    /\ globalProxySettings \in [GlobalIds -> GlobalObjects \cup {NoObject}]
    /\ bound \in SUBSET Names
    /\ request = NoRequest
    /\ listed = {}
    /\ writes = 0

World ==
    \/ WriteNamespace \/ WriteTenantOwners \/ WriteSettings \/ WriteRoleBindings
    \/ SyncNamespace \/ ReconcileTenant

Serve ==
    \/ ListTenants \/ ListProxySettings \/ ListSettingTenants \/ ListGlobalProxySettings
    \/ ListReflected \/ ListHandle
    \/ GetRead \/ GetReadFails \/ GetReflected \/ GetHandle
    \/ Send
    \/ SendObject \/ ModifyResponse

Next ==
    \/ World
    \/ \E n \in Names, operation \in {"Get"} \cup ObjectOperations : Begin(operation, n)
    \/ Begin("List", NoObject)
    \/ Serve

Spec == Init /\ [][Next]_vars

-----------------------------------------------------------------------------
(* Properties. *)

ProxyTenantType ==
    [tenant : Tenants \cup {GlobalTenant}, namespaces : SUBSET Names]

\* The type invariant of the caches and of the request.
TypeOK ==
    /\ apiNamespaces \in [Names -> NamespaceObjects \cup {NoObject}]
    /\ namespaces \in [Names -> NamespaceObjects \cup {NoObject}]
    /\ tenants \in [Tenants -> [owners : OwnerSets, namespaces : SUBSET Names]]
    /\ bound \subseteq Names
    /\ listed \subseteq Names
    /\ request.pc \in {"idle", "tenants", "settings", "settingTenants", "global", "select",
                       "reflect", "decide", "send", "sendObject", "forbidden",
                       "shown", "refused", "notFound", "error"}
    /\ request.shown \subseteq Names
    /\ \A pt \in request.proxyTenants :
          [tenant |-> pt.tenant, namespaces |-> pt.namespaces] \in ProxyTenantType
    /\ writes \in 0..MaxWrites

\* The ProxySettings in force for a subject, and the tenants they lie in.
SettingsOf(subject) ==
    {proxySettings[p] : p \in {q \in ProxySettingIds : /\ proxySettings[q] # NoObject
                                                       /\ HasSubject(proxySettings[q], subject)}}

CallerSubjects == {Subjects[i] : i \in DOMAIN Subjects}

\* The tenants that the caller owns or has a ProxySetting in.
CallerTenants ==
    {t \in Tenants : \E s \in CallerSubjects :
        \/ s \in tenants[t].owners
        \/ \E setting \in SettingsOf(s) : setting.namespace \in OwnedBy(t)}

\* The rules that name the caller, in its GlobalProxySettings and in its
\* ProxySettings that lie in a tenant.
SettingRules(setting) ==
    UNION {setting.subjects[i].clusterResources :
             i \in {j \in DOMAIN setting.subjects : setting.subjects[j].subject \in CallerSubjects}}

GlobalRules(rules) ==
    UNION {r.clusterResources : r \in {q \in rules : q.subjects \cap CallerSubjects # {}}}

CallerRules ==
    (UNION {SettingRules(setting) :
              setting \in {st \in UNION {SettingsOf(s) : s \in CallerSubjects} :
                             \E t \in Tenants : st.namespace \in OwnedBy(t)}})
    \cup
    (UNION {GlobalRules(globalProxySettings[g]) :
              g \in {h \in GlobalIds : globalProxySettings[h] # NoObject}})

\* The rules that ProxySettings and GlobalProxySettings may have.
EntryRules(setting) == UNION {setting.subjects[i].clusterResources : i \in DOMAIN setting.subjects}
GlobalEntryRules(rules) == UNION {r.clusterResources : r \in rules}
PossibleRules ==
    (UNION {EntryRules(setting) : setting \in ProxySettingObjects})
    \cup (UNION {GlobalEntryRules(rules) : rules \in GlobalObjects})

\* Where the proxy keeps to the rules: every rule has at most one requirement,
\* for of several a GET asks for one (MatchesOne), and no Tenant has the name
\* that NewClusterProxy gives to GlobalProxySettings.
PlainRules ==
    /\ \A rule \in PossibleRules :
          rule.selector # NoSelector => \A req, other \in rule.selector : req = other
    /\ \A ns \in NamespaceObjects : ns.owner # GlobalTenant

\* A namespace of the caller's tenants, one with a RoleBinding for it, or one
\* that a rule for it selects.
Entitled(n) ==
    /\ apiNamespaces[n] # NoObject
    /\ \/ apiNamespaces[n].owner \in CallerTenants
       \/ n \in bound
       \/ Selected(CallerRules, namespacesGVK, request.operation, apiNamespaces[n].labels)

\* With caches and statuses up to date, a request shows only namespaces that
\* the caller is entitled to see, also when some of the reads behind it failed
\* (namespace.List, namespace.Get, getProxyTenantsForOwnerKind), for PlainRules.
ShownIsEntitled ==
    request.pc = "shown" /\ request.steady /\ request.synced =>
        \A n \in request.shown : Entitled(n)

\* A namespace of a Tenant that a LIST has shown is found by a GET, if nothing
\* changed in between and no read failed: the two modules decide by different
\* means (the Tenants' status and merged selectors, the owner reference and
\* single requirements).
ListedIsFound ==
    request.pc = "refused" /\ request.operation = "Get"
    /\ ~request.failed /\ request.name \in listed
        => apiNamespaces[request.name].owner = NoTenant

\* A client that creates what is missing can rely on the answer for a named
\* object: it is told that the object is not found only if the namespace is
\* missing, and a refusal means that the namespace exists, unless that could
\* not be read.  The informer cache may be behind all the time
\* (maskForbiddenForMissingNamespace).
MissingNamespaceTold ==
    request.operation = "GetObject" /\ request.steady /\ ~request.failed =>
        /\ request.pc = "notFound" => apiNamespaces[request.name] = NoObject
        /\ request.pc = "refused" => apiNamespaces[request.name] # NoObject

=============================================================================
