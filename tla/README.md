# capsule-proxy in TLA+

capsule-proxy stands between the users of a multi-tenant Kubernetes cluster and
its API server. A Capsule user may not list cluster-scoped resources; the proxy
asks in its place, under its own service account, with a label selector that
leaves only what belongs to the user's tenants. Every other request is passed on
impersonating the caller. The proxy is therefore correct if two things hold: what
it sends under its own token is always either impersonated or narrowed, and what
it narrows by agrees with what the tenants say, although it is read from caches
that lag and from several objects that change independently.

This directory models those parts in TLA+, checks them with TLC on small
instances and proves the central results with TLAPS. `PROJECT.json` relates every
definition to the lines it models.

    tlc -workers 2 -config reflector.cfg MCRoleBindingReflector
    tlapm RoleBindingReflectorProofs.tla

Contents: [inventory](#inventory), [modules](#modules), [runs](#runs),
[bounds](#bounds), [fairness](#fairness), [proofs](#proofs),
[findings](#findings), [other observations](#other-observations),
[not modelled](#what-is-not-modelled), [plan](#plan).

## Inventory

| component | state | operations | talks to | hard behaviour |
|---|---|---|---|---|
| RoleBinding reflector `controllers/role_bindings.go` | four informer caches, `results`, `resultsGeneration` | `Start`, `GetUserTenantNamesForResource`, `invalidateResults` | namespace modules and the catch-all module call it; informers call its handlers | concurrent lookups without a snapshot, handlers that run late or are not yet registered |
| Web server `webserver/webserver.go`, `webserver/middleware/` | per request: headers, context, recorder; globally: token and its expiration, the routes | the middleware chain, `handleRequest`, `impersonateHandler`, `reverseProxyMiddleware`, `recoveryMiddleware`, `BearerToken`, `Start` | resolves identities, calls modules, sends to the API server | handlers share the header map; error paths fall through to the reverse proxy; panics; an unlocked token; a shutdown that waits for nothing |
| Identity resolution `request/` | none | `GetUserAndGroups`, `authenticate`, `processBearerToken`, `processXFCC`, impersonation reviews | TokenReview, SubjectAccessReview | several authentication types, deferred overrides, failing calls; a header format with quotes and escapes |
| Tenants of an owner `getTenantsForOwner`, `tenant/`, `indexer/` | informer caches of Tenants, ProxySettings, GlobalProxySettings | `getProxyTenantsForOwnerKind`, `NewProxyTenant`, `RequestAllowed` | called by every module route | four reads, some of whose errors are only logged |
| Namespace modules `modules/namespace/` | none (informer cache of namespaces) | `list.Handle`, `get.Handle` | reflector, tenants of an owner | LIST and GET decide by different means |
| ClusterResources rules `modules/clusterscoped/utils.go`, `modules/utils/selector.go`, `api/v1beta1/clusterresoure.go` | none | `matchPattern`, `GetClusterScopeRequirements`, `HandleListSelector`, `HandleGetSelector` | used by all modules | requirements of several rules merged into one selector; patterns |
| Legacy resource modules `modules/{storage,priority,ingress,runtime}class`, `persistentvolume`, `node`, `metric` | none | list and get `Handle` of each | tenants of an owner | per-method operations; filtering by a stale cache |
| Cluster-scoped, tenant and namespaced modules `modules/{clusterscoped,tenants,namespaced}` | none (informer cache of tenants) | `Handle` | rules, tenants of an owner, reflector, SubjectAccessReview | LIST and GET decide by different means, partly from caches; one review per tenant |
| ProxySetting and GlobalProxySettings reconcilers | informer cache, queue, object status | `Reconcile`, `updateStatus` | the API server; the other replicas | no leader election: replicas write the same status; bounded retries |
| CapsuleConfiguration reconciler | two global sets | `SetupWithManager`, `Reconcile` | read by `CheckUserInCapsuleGroupMiddleware` | unsynchronised globals, panics on errors, a process that does not start without the object |
| Self review mutation `authorization/middleware.go` | the recorded response | `MutateAuthorization` | `authorizationMiddleware`, rules | second resolution of the caller after the headers were rewritten; must agree with the modules |
| Namespace gate `webserver/namespacegate` | the recorded response | mask a 403 as 404 | namespace cache | a read after the answer it depends on |
| API discovery `webserver/utils.go` and rule validation `runtime/validation/` | the routes, fixed at start | `discoverAPI`, `serverPreferredResources`, `ValidateClusterResourceBlock` | the API server's discovery documents | routes go stale; two notions of what is served |
| Options and start `main.go`, `options/` | fixed after start | - | - | - |

What makes each correct, and where the question is asked:

- Reflector: a cached answer is the answer that a lookup would compute now, once
  the handlers have run (`CacheCoherent`); it is not served stale for ever
  (`StaleResultDropped`); a lookup finds the caller's bindings only
  (`FoundIsBound`).
- Web server and identities: the proxy's token never leaves without
  impersonation or a selector (`ProxyTokenGuarded`, with the exception of one kind of
  certificate); only reviewed or own names are impersonated (`ImpersonationReviewed`);
  what is sent on after an error carries no more than the caller's credentials
  (`RejectedSentAsCaller`); only
  Capsule users are filtered (`FilteredIsCapsuleUser`); every request is answered
  (`Answered`); text inside a forwarded certificate's header is not taken for
  another certificate (`ForwardedIdentity`); the proxy's token is renewed whatever
  races (`TokenRenewed`, `RefreshConsistent`).
- Capsule users: a caller is let through to the modules by a configuration that was
  in force (`DecisionJustified`), and the last one is taken over (`ConfigurationApplied`).
- Views: nothing is shown that the caller has no claim to (`ShownIsEntitled`,
  `CollectionIsAllowed`, `ReachedIsAllowed`), and LIST and GET agree
  (`ListedIsFound` in three modules); nothing a rule means is missed
  (`SelectedIsServed`), a valid rule takes effect (`ValidIsServed`), and self reviews
  tell what the modules do (`ReviewAgrees`).
- Namespace gate: a client is told that an object is not found if and only if its
  namespace is missing (`MissingNamespaceTold`).
- Reconcilers: the status never runs ahead or back (`ObservedIsPast`,
  `ObservedNeverDecreases`), is always that of the spec next to it, and catches up
  (`ImplementsObservedGeneration`, `CatchesUp`).

The hazards, each at its line, are in `PROJECT.json`.

## Modules

**RoleBindingReflector** models `role_bindings.go`. The informer caches are
`roleBindings`, `roles` and `namespaces`; an update of a cache (`WriteRoleBinding`,
`WriteRole`, `WriteNamespace`) counts a `pending` notification if the handler of
that informer is registered. `Start` registers the handler on one informer after
the other, in the code's order, and registration replays one event per cached
object. `invalidateResults` handles one notification: it bumps the generation and
clears the map. A lookup is a sequence of steps of its thread: `cachedResult`,
`resultGeneration`, then one `ListRoleBindings` per index key, one `GetRole` per
binding, one `GetNamespace` per namespace, in any order the maps and slices may
yield, and `storeResult`, which stores only if the generation is unchanged;
`LookupError` abandons it. A name is the sequence of its parts between dashes, so
that the join of `subjectKey` is concatenation and collisions of keys are
possible, as in the code. `FreshTenants` is the reference: what a lookup would
compute if it read everything at once.

**RequestPipeline** models one request through `Start`'s and
`registerModules`'s chain: trusted source, `authorizationMiddleware` (records and
later mutates self reviews), allowed paths, JWT check, ignored identities, Capsule
users, the module's handler, `impersonateHandler` or `handleRequest`, and
`reverseProxy`, which is reached on error paths too because
`reverseProxyMiddleware` calls the proxy after `next` returned. `header` is shared
by all copies of the request and `identity` is the value cached in its context.
`ResolveUserAndGroups` is a set of outcomes, since the API server's answers are
open. A certificate's subject may lack the name, the organisations or both: a
forwarded one is then refused, that of a TLS connection is not (`Subject`, `Yields`).
`Recover` is `recoveryMiddleware`; `Abort` is the panic it raises again, after which the
server closes the connection. What a module decides is open here
(`moduleHandler`); the view modules say what it is.

**ForwardedClientCert** (extended by RequestPipeline) is the parser of the
X-Forwarded-Client-Cert header in `xfcc.go` as operators: a header is a sequence of
lexical elements, the characters with a meaning and words. The code's loops are
recursive functions whose values are the loops' states, with their flags for quotes and
escapes (`splitRune`, `unescapeRune`); an error is the empty set. `WrittenEntry` is the
other side, the proxy in front (Envoy), which is external: it writes each field in
quotes with escapes, or as one word without quotes.

**ProxyToken** models `BearerToken` as steps of concurrent goroutines: the check of
the expiration, the read of the file, the assignment of the token in two stores (a Go
string is a pointer and a length, and nothing orders them) and that of the time.
`Rotate`, `Expire` and `ChangeReadable` are the kubelet, the clock and the file
system. Tokens that nothing refers to are used again, so that time is unbounded. Its
definitions are called `TokenInit`, `TokenNext` and so on, since SharedStateProofs extends
this module and the next.

**CapsuleConfiguration** models the process as a whole (`Start`, `Listen`, `Exit`),
the reconciler of the CapsuleConfiguration with its informer and queue, the two
assignments `SetGroups` and `SetUsers`, and the requests that read the two sets, one
group after the other. A panic in `Reconcile` is turned into an error by
controller-runtime and the key is tried again. `origin` and `inForce` are history:
from which configurations the sets come and which a request may have seen.

**StatusController** models the two status reconcilers. `object` is the API
server's copy with uid, generation and resource version; each replica has a watch
(`WatchEvent`, or `Relist` after a broken one), a cache, a queue and a
reconciliation: `Reconcile`, `ReadLatest`, `StatusUpdate`, `StatusConflict` with
`retry.DefaultBackoff.Steps` tries, `ReconcileError`; `Restart` is a crash and the
start of a new process. `GenerationChanged` is the predicate on informer updates.
Users create, change and delete the object. `RelistSpans` says whether a relist may
span a deletion and a new creation.

**ObservedGeneration** is the abstract specification of the same controllers: one
variable, the generation and the observed generation that users see, and four steps.
`ImplementsObservedGeneration` maps `object` to it by `Visible`.

**Selectors** holds label requirements, `matchPattern`, `GetClusterScopeRequirements`
and `HandleListSelector`, as operators shared by the view modules. API groups and
patterns are sequences of elements, so that prefixes, suffixes and searches are those
of sequences. `Glob` is the reference for `matchPattern`: what a wildcard usually means.

**NamespaceView** (extends Selectors) models `getTenantsForOwner` (`ListTenants`,
`ListProxySettings`, `ListSettingTenants`, `ListGlobalProxySettings`, one read at
a time, each of which may fail), the namespace LIST (`ListReflected`,
`ListHandle`) and GET (`GetRead`, `GetReflected`, `GetHandle`), and the API
server's answer (`Send`), while namespaces, tenants, settings and bindings change,
caches lag (`SyncNamespace`) and Capsule reconciles the Tenants' status
(`ReconcileTenant`). The reflector's answer is the variable `bound`: its own
correctness is RoleBindingReflector's subject. A request for an object in a namespace
passes the namespace gate (`SendObject`, `ModifyResponse`). Errors of the reads end the
request (Tenants of an owner, the reflector, the namespaces of a LIST), are only logged
(settings), or look like a namespace without an owner (`GetReadFails`).

**RuleView** (extends Selectors) models the rest of what rules and tenants give: the
generic modules (`genericList`, `genericGet`), the tenant modules (`tenantsList`,
`tenantsGet`), the catch-all module for namespaced resources (one `ReviewTenant` per
tenant, then `ReflectTenants`), and self access and rules reviews
(`MutateAuthorization`, `MutateRules`). `routes` is computed from `served` by
`registerModules` at `Start` and is stale after a `WriteDiscovery`. The validation of
rules is an operator on `served`. A resource may be served in several versions, of which
only the one that the API server prefers is registered and validated (`ServerPreferred`,
by the `rank` of a version); an object is there in all of them. A review has the version
that the client told (`Told`), or none. The caller's rules and tenants are read in one
step (`Collect`): that the reads are several is NamespaceView's subject. Reads of settings
that fail are only logged, so `Collect` may go on with any part of the caller's rules and
of the tenants that it does not own; `request.failed` remembers it. A POST on a generic
collection that no rule for LIST names goes out under the proxy's token and may create an
object (`SendCreate`). `LongNames` are tenants whose names are no label values: LIST of
tenants answers with an error, and the catch-all module panics, which is answered.

**LegacyModules** (extends Selectors) models the seven resources that are served
without the feature gate `ProxyClusterScoped`, for collections and named objects
and every method. `ListDecision` and `GetDecision` dispatch to the modules' own
`Handle`s; a decision is a selector, impersonation, or an error. `SliceStable` and
`SearchStrings` are the sort with the code's comparison function and the
bisection over its result. Names are natural numbers, ordered as the strings are.
`ReadFails` is also the panic of a regular expression that does not compile. The node
modules limit no methods: a POST on their collection goes out under the proxy's token
(`SendCreate`).
The name label is assumed to be the object's name where it is set (`Labels`): the modules
decide by the name and select by the label (`storageclass/get.go:73-79`,
`storageclass/utils.go:96`, `utils/node.go:25-37`), and nothing in the proxy or in
Kubernetes makes the two agree for these resources. `CollectionIsAllowed`,
`ReachedIsAllowed` and `ListedIsFound`, and their theorems, rest on it: who may set that
label on an object to the name of another decides who sees it.
`LegacyAssumption` and `ProxyTenantsAssumption` say no more than what the constants are
and that the label key of the selector for nothing is not in use.

The `MC` modules extend these with the data of the small instances; the `Proofs`
modules hold the theorems. `Selectors` is composed with the three views; the pipeline,
the reflector and the views meet at three interfaces, each open on one side
and defined on the other: the module's decision, the reflector's answer, and the
tenants of the caller.

## Runs

Runs that pass:

| run | module | properties | what it shows |
|---|---|---|---|
| `reflector` | MCRoleBindingReflector | `TypeOK`, `CacheCoherent`, `LookupCoherent`, `StaleResultDropped`, `LookupReturns` | two concurrent lookups, changes and late handlers: neither a cached answer nor one about to be stored is out of date once all notifications are handled; a stale answer is dropped, lookups return |
| `pipeline_safety` | MCRequestPipeline | `TypeOK`, `ProxyTokenGuarded`, `ImpersonationReviewed`, `RejectedSentAsCaller`, `FilteredIsCapsuleUser`, `ForwardedIdentity`, `Answered` | every combination of path, credentials, impersonation and Connection headers, forwarded certificates next to any short text, with failing calls |
| `status` | MCStatusController | `TypeOK`, `ObservedIsPast`, `ObservedNeverDecreases`, `ImplementsObservedGeneration` | two replicas, conflicts, deletion and re-creation, crashes; the refinement, with its liveness |
| `namespace_view` | MCNamespaceView | `TypeOK`, `ShownIsEntitled`, `ListedIsFound`, `MissingNamespaceTold` | LIST and GET of namespaces and the namespace gate while everything they read changes, reads fail and caches lag |
| `legacy_view` | MCLegacyModules | `TypeOK`, `CollectionIsAllowed`, `ReachedIsAllowed`, `ListedIsFound` | all seven resources, all methods, stale caches, failing reads |
| `rule_view` | MCRuleView | `TypeOK`, `ShownIsEntitled`, `ListedIsFound`, `SelectedIsServed`, `ValidIsServed`, `ReviewAgrees` | rules with patterns on cluster-scoped resources and tenants, permissions on namespaced ones, self reviews, resources in two versions, stale routes, restarts, reads that end a request and reads that only leave out rules |
| `capsule_configuration` | MCCapsuleConfiguration | `TypeOK`, `DecisionJustified`, `ConfigurationApplied` | a request between the assignments of the two sets, deletion of the configuration, panics, crashes |
| `proxy_token` | MCProxyToken | `TokenTypeOK`, `RefreshConsistent`, `TokenRenewed` | concurrent refreshes that tear the token, an unreadable file, tokens that expire for ever |

Runs in which TLC refutes what the repository says of the code (see
[findings](#findings)): `reflector_index`, `pipeline_self_review`, `status_relist`,
`legacy_exact`.

Deadlock is checked except for the pipeline (a request ends), the status controller
(all writes done, every status written) and the CapsuleConfiguration (the object was
deleted, and the process does not come up).

For each property of a passing run `PROJECT.json` names a plausible bug of the code, an
operator next to the definition it replaces and marked as a mutant, with which
TLC finds the property violated.

### Reading the properties

`CacheCoherent` and `LookupCoherent` speak of *quiet* states: all four handlers
registered, nothing pending. Outside them a cached answer may be stale, which
the code accepts; `StaleResultDropped` says that it does not stay so.

`ShownIsEntitled` and `ReachedIsAllowed` speak of requests that began with up to
date caches and during which nothing changed; `CollectionIsAllowed` needs neither,
because the API server compares the selector with the objects as they are.
`ListedIsFound` compares a GET with an earlier LIST if nothing changed since.

`ShownIsEntitled`, `CollectionIsAllowed` and `ReachedIsAllowed` are checked with
selectors of one requirement (`PlainRules` for rules, `PlainSelectors` for the tenants
of LegacyModules). Of two, one is enough for a GET, so that it shows more than the
selector selects; and the legacy modules put the requirements of all tenants into one
selector, which takes those of one tenant apart.

Reads that fail without ending the request are covered where they matter.
`ShownIsEntitled` and `ListedIsFound` hold with any part of the settings missing (for
`ListedIsFound`, in the LIST; the GET must have read all). `SelectedIsServed`,
`ValidIsServed` and the first half of `ReviewAgrees` are about requests whose settings
could be read: with a swallowed error a selected object is asked for as the caller, and a
LIST that was granted is empty, which is what the code does and no bound can avoid.

`ValidIsServed` speaks of the preferred version of a resource: the others have no route
by design. `ReviewAgrees` speaks of reviews that name the resource's version, or of rules
that ask for no version; the other case is one of the [observations](#other-observations).

`ProxyTokenGuarded` compares what is sent with the identity that was resolved, and allows
an empty user for one caller only, a TLS certificate without a name.
`UnauthenticatedNotSent` does not allow it; the code does not have this property, and the
theorem `NamedNotSentAsProxy` shows that such certificates are the only reason.
`ImpersonationReviewed` is stated for a proxy without ignored groups, the default.

`Answered` allows a connection to be closed instead of an answer only after the request
was sent to the API server, whose response then breaks off.

`ForwardedIdentity` does not speak of self reviews: `MutateAuthorization` resolves their
caller a second time, from headers that were rewritten meanwhile (finding 2).

`ShownIsEntitled` and `SelectedIsServed` of RuleView are the two directions of one
question. The first measures by `matchResource`, which finds the parts of a pattern
anywhere in a group and so accepts more than a glob would; the second by `Glob`, the
usual meaning of a wildcard. `ValidIsServed` compares two pieces of code that do not
call each other, the validation and the registration of routes.

`DecisionJustified` allows a request that overlaps a reconciliation to be decided
either way, but not for a caller that is a Capsule user under none of the
configurations it may have seen; a decision that overlaps none is exact.

`TokenRenewed` is of the form "again and again", since the token in use expires before
the file is read again: the proxy notices an expiration only when it has passed.

## Bounds

- Reflector: two threads suffice for a lookup to be overtaken by another and by
  events. One change at any step of either lookup, next to the registration in four
  steps and its replays, which happen at every point; a RoleBinding that comes or
  goes, a role, and a namespace that changes its tenant. The proofs need none of
  these bounds.
- Pipeline: one request, since requests share nothing but the token and the sets of
  Capsule users, which have modules of their own. All subsets of the three headers in
  `Connection`, all paths, impersonation of a user whom the caller may not impersonate
  (`bob`), of a service account that it may (`sa`), and of groups, for token and
  certificate. The websocket token, the forwarded certificate and an untrusted source
  each have requests of their own, and so have certificates without a name.
  `MaxText = 4` elements of text within a quoted field are enough to close the quotes,
  open a field and name another certificate.
- Status: two replicas, three writes, two incarnations: create, change, delete or
  create again with conflicting reads in between; crashes at any point, unboundedly
  many. `Steps = 2` is one retry and the end of the retries; the code's number differs
  only in how often a retry repeats. The work queue holds a key at most once, as the
  code's does. `status_relist` has one replica and four writes.
- NamespaceView: two namespaces, two tenants, a user and a group, one ProxySetting
  and one GlobalProxySettings object with three rules (nil selector, `In`, `NotIn`),
  one change at any step. Names play no part in any comparison but equality.
- LegacyModules: two objects, with and without the name label, one of which has a
  name too long for a label value, six sets of tenants that allow by name, default,
  regular expression or label, for some operations or none. `legacy_exact` needs
  three names, the fewest for which the sort is wrong.
- RuleView: four resources, one of each kind (generic, without the verb get, tenants,
  namespaced), the generic one in two versions, with one object each and two tenants;
  seven rules, alone or next to another, whose patterns have wildcards at the start, at
  the end, alone and with a version; one tenant whose name is no label value; one change
  of an object, of the caller or of the served resources at any step, and any number of
  requests before and after.
- CapsuleConfiguration: one request at a time (requests do not write anything that
  others read), with two groups; three configurations that make its caller a Capsule
  user by group, by name or not at all; three writes, two crashes.
- ProxyToken: two goroutines, four tokens, which are one valid token, one each in the
  fields, and one to renew; no bound on time.

## Fairness

- Pipeline: `WF(Next)`. A handler chain is one goroutine of `net/http` that runs to
  its end; calls to the API server return or fail.
- CapsuleConfiguration: weak fairness of `Start` and `Listen` (the kubelet starts a
  process that has ended; ends are bounded), of the informer, the queue's timer and
  the assignments, strong fairness of `Reconcile`, whose Get may fail but is repeated.
  None for writers, crashes, failures or new requests.
- ProxyToken: weak fairness of the goroutines, with requests that keep coming; strong
  fairness of `Rotate` and `Expire` (the kubelet renews, time passes). `Expire` assumes
  that no token expires within the moments that a refresh takes.
- Reflector: weak fairness of `Start`, of each informer's `invalidateResults`
  (client-go's processor delivers every notification) and of the steps of a lookup
  that has begun. None for new requests, errors or writers.
- Status: weak fairness of `WatchEvent` and `Reconcile` (informer and worker
  goroutines run), strong fairness of `ReadLatest` and of the status update or
  its conflict: a call that is repeated for ever, and it is, since an error queues
  the key again, succeeds in the end, also by a process that is restarted over and
  over. None for users, errors or crashes.

The view modules state no liveness: a view is one request, and `Answered` covers it.

## Proofs

For every value of the constants that satisfies the named assumptions:

| theorem | module | statement |
|---|---|---|
| `TypeCorrect`, `Coherent`, `LookupsCoherent` | RoleBindingReflectorProofs | `[]TypeOK`, `[]CacheCoherent`, `[]LookupCoherent` |
| `TypeCorrect`, `ProxyTokenSafe` | RequestPipelineProofs | `[]TypeOK`, `[]ProxyTokenGuarded` |
| `NamedNotSentAsProxy` | RequestPipelineProofs | `[]UnauthenticatedNotSent`, if every TLS certificate has a user name |
| `ImpersonationsReviewed` | RequestPipelineProofs | `[]ImpersonationReviewed`, with `DefaultReviews` |
| `OnlyCapsuleUsersFiltered`, `RejectedKeepsCaller` | RequestPipelineProofs | `[]FilteredIsCapsuleUser`, `[]RejectedSentAsCaller` |
| `EntryParsed` | RequestPipelineProofs | for every non-empty sequence of fields, what `ForwardedCerts` finds in the header that `WrittenEntry` makes of them are the certificates that the fields name |
| `ForwardedCallerIdentified`, `WrittenCallerIdentified` | RequestPipelineProofs | `[](HeaderParsed => ForwardedIdentity)`, `[](FrontWrote => ForwardedIdentity)` |
| `TypeCorrect`, `ObservedPast`, `ObservedForward` | StatusControllerProofs | `[]TypeOK`, `[]ObservedIsPast`, the action property `ObservedNeverDecreases` |
| `Refinement` | StatusControllerProofs | `Spec => ImplementsSafe`: every step is a step of ObservedGeneration or a stutter |
| `TypeCorrect`, `DecisionsJustified` | SharedStateProofs | `[]TypeOK`, `[]DecisionJustified` of CapsuleConfiguration |
| `TokenTypeCorrect`, `RefreshesConsistent` | SharedStateProofs | `TokenSpec => []TokenTypeOK`, `TokenSpec => []RefreshConsistent` of ProxyToken |
| `TypeCorrect`, `ListedFound`, `MissingTold` | NamespaceViewProofs | `[]TypeOK`, `[]ListedIsFound`, `[]MissingNamespaceTold` |
| `ShownEntitled` | NamespaceViewProofs | `[]ShownIsEntitled`, with `PlainRules` |
| `TypeCorrect`, `ListedFound`, `ReviewsAgree`, `ValidServed` | RuleViewProofs | `[]TypeOK`, `[]ListedIsFound`, `[]ReviewAgrees`, `[]ValidIsServed` |
| `ShownEntitled` | RuleViewProofs | `[]ShownIsEntitled`, with `PlainRules` |
| `SelectedServed` | RuleViewProofs | `[]SelectedIsServed` |
| `TypeCorrect`, `ListedFound` | LegacyModulesProofs | `[]TypeOK`, `[]ListedIsFound` |
| `CollectionAllowed`, `ReachedAllowed` | LegacyModulesProofs | `[]CollectionIsAllowed`, `[]ReachedIsAllowed`, with `PlainSelectors` |
| `ListImpliesGet` | SelectorsProofs | an object matched by the selector of a LIST is matched by one of the requirements of a GET, if there are any |
| `GlobMatches` | SelectorsProofs | every value that a pattern means (`Glob`) is matched by `matchPattern`; the converse is false |

Where a box is shown the statement is `Spec => []...`. The inductive invariants of the
views were checked by TLC on the instances of their runs before they were proved. With
these every invariant of every passing run is proved for all values of the constants,
under the conditions that the table names (`DefaultReviews`, `PlainRules`,
`PlainSelectors`), and `ForwardedIdentity` for the headers that the proxy in front writes.

*Reflector* (`ConstantsAssumption`). `CacheCoherent` is not inductive: the store of
an answer depends on what the lookup read. `IndInv` adds `LookupCoherent` (a lookup
whose generation is current, in a quiet state, has read nothing that has changed
since), `GenerationsPast` (no lookup and no result has a generation ahead of the
current one) and `KubeNamespaceExists`. The argument: a write makes the state not
quiet if the handler is registered, and if it is not then not all four are. The
state becomes quiet again only when a notification is handled, which bumps the
generation and so makes what was read before worthless. The one gap is the last
registration: it must replay an event, or the state would become quiet without a
bump. It does because the namespaces informer is registered last and some namespace
always exists (`kube-system` cannot be deleted): hence `KubeNamespaceExists`. The
order of registration in `Start` is thus essential, and with the namespaces
informer first TLC finds a stale cached answer.

*Pipeline* (`ClientsAssumption`, `IdentityAssumption`, `ConfigAssumption`).
`IndInv` is `TypeOK` with `Untouched` (before the last handler the headers are the
caller's), `Identified` (behind the identity check there is an identity) and
`ForwardGuarded` (headers with the proxy's token that wait for `reverseProxy` are
already guarded, and the Connection header no longer names what was added). Certificates
without a name are among the clients. One lemma per handler. Four more invariants rest on it. `ReviewInv` says that the identity
is justified for the groups that the caller asked for, from its resolution to the end;
it needs `DefaultReviews` (no ignored groups, no skipped reviews), without which the
property is false. `FilterInv` says that behind the middlewares of a module's route the
identity is that of a Capsule user who is not ignored. `WrittenOnce` says that nothing
was written before the last handlers, and that whatever wrote an error left the
caller's own authorization in the header that the reverse proxy goes on to send.
`ForwardedInv` says of a caller with a forwarded certificate and nothing else that its
identity, where there is one, is the subject of the certificate in front, that it was not
denied and that no response is recorded for a mutation.

The header (`CertAssumption`: words of certificates are no other words, fingerprints
differ). `HeaderParsed` is the condition that the parser finds the certificate that was
written; `EntryParsed` discharges it. `Runs` relates the state of a loop before and after
it read a part of its input, so that what a loop does with a header is composed from what
it does with the parts of a field. `Keeps` says that a written field leaves the loop
outside quotes with nothing split off: inside quotes no separator counts, and an escaped
quote or backslash does not end them. The entry is thus one entry (`EntryKept`), its parts
at `;` are the written fields (`EntrySplit`), and each is read back with the name and the
text that went in (`EntryFields`); of several fields with one name the last counts, on
both sides. A field in the name of a certificate therefore has to be one that the proxy in
front wrote as such, whatever the subject's text is.

*Status* (`BoundsAssumption`, `NoObjectAssumption`). `IndInv` is `TypeOK`,
`LatestIsCurrent` (an object that a replica has read and whose version is still
current is the current object) and `ObservedIsPast`. The action property follows
from the same invariant: an update that the API server accepts has the current
version, so it was computed from the current object. So does the refinement: an
accepted `StatusUpdate` is the abstract `Observe`, or a stutter if the status was there
already; users' writes are the abstract ones; all else, crashes and relists included,
leaves `Visible(object)` alone. That holds for both values of `RelistSpans`; only the
liveness of the abstract specification needs `RelistSpans = FALSE`.

*CapsuleConfiguration* (in SharedStateProofs; `BoundsAssumption`, `NoConfigurationAssumption`). `IndInv` adds
`SetsHaveOrigin` (the groups come from one configuration and the users from another,
which differ only between the two assignments) and `RequestSees`: a request that is
being decided has seen at least the present origins, and if it has seen one
configuration only then none of the groups it has looked up is in it. So a decision
against the caller that overlaps no reconciliation is exact.

*ProxyToken* (in SharedStateProofs; `EmptyAssumption`). `Alone` says that a refresh that did not begin within
another is the only one, `AloneStores` that it has found the time expired and stored
what it holds so far. `overlapped` is the history variable that tells these cases from
the races, for which nothing but `TokenRenewed` is claimed.

*Selectors*: no assumption. Rules that apply to LIST apply to GET
(`AllowsOperation`), and a merged requirement is matched only if one of its parts
is, negative operators included. A pattern without wildcards matches only itself.
`GlobMatches`: a value that a pattern means has a place for each of its parts, in order;
the search of `matchPattern` takes the first place of each, which is never later, so it
loses no match; the anchored cases follow from the first and the last place.

Such a proof is an induction over a sequence, for which the library's induction theorems
cannot be used, since they have an operator as parameter. `SetInduction` replaces them: a
set with 0 and all successors below n has n, by the pigeonhole principle of
FiniteSetTheorems. `Recursion` and `RecursionAgrees`, which follow from it, say that
functions can be defined by recursion up to n and in one way only. The sort, the
flattening of sequences, the patterns and the parser are treated with them.

*NamespaceView* (`ViewAssumption`). The collection of tenants and rules is the hard
part: four kinds of reads for one subject after the other, some of which may fail. For a
request that nothing disturbs, `Justified` says that all that was collected is due to
some subject of the caller, and `Complete` that for the subjects that are done, and the
reads of the present one that are done, all that is due was collected, unless a read
failed. A LIST whose reads failed therefore has less than a GET whose reads did not, and
what it shows is found (`ListFound`, `ListedCurrent`, with `ListImpliesGet`).
`ShownIsEntitled` needs `PlainRules`: rules of one requirement, because a GET asks for
one of several, and no Tenant called `global`, because its namespaces would be
taken for the caller's (see [other observations](#other-observations)). Both exclude what
the code really does; the run's instance satisfies them, which TLC evaluates.

*RuleView* (`RuleViewAssumption`, `ResourcesAssumption`, `LabelsAssumption`). The
assumptions say that names of API groups have no wildcards and slashes, that of the
versions of a resource one is preferred and all share the scope, that tenants are served
in the version that the proxy reads, and that users do not set the labels that Kubernetes,
Capsule and the proxy's selectors reserve. `Snapshot` says that an undisturbed request
works on a part of the caller's present rules and tenants, and on all of them unless a
read failed; `SelectorKnown`,
`ListReaches` and `LeftToCaller` what it then sends or leaves to the caller; `LastCurrent`
that the last answer is one that the present state would give. Reviews, LIST and GET are
then compared through the present state: requirements of fewer rules are fewer, so that
what a LIST with a part of the rules shows is in reach of a GET with all of them.
`ValidServed` needs that a valid rule's
explicit groups are those of served resources, so they have no wildcards and match
themselves only. `SelectedServed` rests on `GlobMatches`: a resource that a rule names is
one that `matchResource` finds (`NamedMatches`). For `ShownEntitled`, `SentIsEntitled`
carries what each module asks of the API server up to its answer.

*LegacyModules* (`LegacyAssumption`, `ProxyTenantsAssumption`). `IndInv` is `World` (the
types), `RequestInv` (the request is the present caller's), `SyncInv` (an undisturbed
request that began with an up to date cache still has one) and `FoundInv` (what was
listed, and what a LIST that is under way will show, is found by a GET). `AllowedInv` adds
what a request that is under way will show. Nothing in them needs the sort to be right,
and it is not (finding 4): `SliceStable` invents no name (`SortKeeps`), and the result
of the bisection is believed only if the name is there (`FoundIsNamed`), so an unsorted
sequence hides objects from their owners and shows none to others. A LIST and a GET
collect the same names in the same order, so that whatever the bisection misses it misses
for both; and of the requirements that a LIST merges, one is enough for a GET
(`MergedSelects`, `GetSelects`).
`PlainSelectors` excludes what the code really does, see
[above](#reading-the-properties); the run's instance satisfies it, which TLC evaluates.

Only model-checked, and why:

- all liveness (`StaleResultDropped`, `LookupReturns`, `Answered`, `ConfigurationApplied`,
  `TokenRenewed`, and the liveness half of `ImplementsObservedGeneration`): TLAPS does not
  handle fairness and `ENABLED`;
- `ForwardedIdentity` for headers that no proxy wrote as `WrittenEntry` does, such as the
  several entries and the malformed ones of the run's instance: they identify nobody, for
  which `EntryParsed` has no counterpart.

A note on the prover. The SMT encoding of tlapm 1.4.5 has the axiom that `Len(s) = n` if
and only if `DOMAIN s = 1..n`, for every value `s` and not just for sequences. It is too
strong: with a function of another domain whose length is asked for it is contradictory.
All obligations of the eight modules were therefore checked a second time, with the axiom
restricted to the direction that is true (a function with domain `1..n` has length `n`),
and all are proved with it. They do not depend on the defect.

## Findings

1. `reflector_index`, `FoundIsBound` (`role_bindings.go:233,339`). Keys of the
   subject index join kind, namespace and name with `-`, which names may contain:
   service account `ci` of namespace `team-a` and `a-ci` of `team` share a key. The
   comment promises "namespaces where the request subject is bound".
2. `pipeline_self_review`, `SelfReviewGranted` (`webserver.go:388`). After the inner
   chain ran, the caller is resolved again from headers that `impersonateHandler`
   has rewritten. With certificates and the default order of authentication types
   this asks whether the caller may impersonate itself; it may not, and gets a 403
   where `authorization/middleware.go:55` says it is always allowed to list its
   namespaces.
3. `status_relist`, `CatchesUp` (`proxy_setting.go:34`). An object that was deleted
   and created again while a watch was broken reaches the handler as an update with
   the same generation, and `GenerationChangedPredicate` drops it: the status of the
   new object stays empty until its spec changes.
4. `legacy_exact`, `AllowedIsListed` (`storageclass/utils.go:63` and its copies). The
   comparison of the sort looks at the first element only; the names may not be in
   order, and the bisection then misses one.

## Other observations

Met while modelling; the models behave so, but no run is about them.

- The subject of a TLS certificate is taken as it is (`request/http.go:281`), whereas a
  forwarded certificate without a user name is refused (`xfcc.go:57`). With neither a common
  name nor organisations, which a trusted authority has to have signed, the request goes
  out under the proxy's token with an empty `Impersonate-User`; `http.go:290` says that
  unauthenticated users are not supported.
- `impersonateHandler` adds its headers to the caller's own (`webserver.go:508`): a group
  that is not to be used for impersonation is left out of the reviews, and still sent if
  the caller's header names it.
- A GET of a namespace that the informer cache does not have yet is passed on
  (`namespace/get.go:74`): for the time of the lag a namespace outside every Tenant is
  shown, where the next comment says that it is not found.
- Of a selector with two requirements a GET asks for one only (`namespace/utils.go:71`,
  `clusterscoped/get.go:101`).
- A self review is answered with the version that the client told
  (`authorization/middleware.go:82`). Clients such as `kubectl auth can-i` may leave it
  out; a rule on group and version then grants nothing, although the LIST is served by it.
- A namespace outside every Tenant that a rule selects is listed but not found
  by a GET (`ListedIsFound` of NamespaceView excludes it).
- The node modules ignore the tenants' operations, for updates and deletions too.
- With no tenant that allows persistent volumes, their module dereferences a nil
  requirement and panics; `recoveryMiddleware` answers.
- A class whose name is no valid label value empties the LIST of all classes that
  are allowed by name.
- `main.go:155` binds the flag `allowed-paths` to the variable of the user groups, so
  that the list of allowed paths is always empty.
- The routes are those of the resources at start: a resource that is installed later
  has no module until a restart. Discovery of one failing API group makes the start
  panic, whereas the validation of rules tolerates it; nothing but its test calls the
  validation.
- `clusterscoped/list.go:70`: without requirements every method on a collection gets
  the selector that matches nothing, and is sent under the proxy's token rather than
  as the caller. A POST ignores the selector and creates; one on the nodes does too.
- Versions of a cluster-scoped resource that the API server does not prefer have no
  module: a rule that matches them has no effect there.
- Settings that cannot be read are left out of a decision without a word to the client.
- A tenant whose name is no label value makes the LIST of tenants fail, and the catch-all
  module dereference a nil requirement (`namespaced/catchall.go:105`).
- `matchPattern` anchors a pattern with one wildcard at its start or end only; `a*b`
  matches anything that contains `a` and then `b`.
- A rule with an empty selector yields no requirements, so it has no effect.
- The catch-all module reviews the first namespace of each tenant only.
- The ProxyTenant of GlobalProxySettings carries a tenant named `global`; a Tenant of
  that name is shown to every caller to whom such settings apply.
- A self review grants the list of namespaces to every caller, and that of tenants
  only by rules, although owners may list theirs.
- After the CapsuleConfiguration is deleted, the proxy goes on with the last one until
  it is restarted, and does not start again without it. A new process takes every
  caller for a foreign one until the first reconciliation.

## What is not modelled

- Contents of objects other than labels, owner references and subjects; TLS,
  certificates and sockets; metrics, logs, wording of errors; generated code and
  charts.
- Options and flags: read once, they are constants. The deprecated list of user groups,
  which `main.go` never passes on.
- The readiness probe and the certificate watcher, which share no state with requests.
- Discovery that fails for some API groups.
- In RequestPipeline regular expressions and the list of trusted networks are inputs;
  the headers `Impersonate-Uid` and `Impersonate-Extra-*` are left out, of which
  `SanitizeImpersonationHeaders` removes the second. In ForwardedClientCert the PEM and URL encodings:
  a certificate is one word, at the beginning of a line of its field.
- In ProxyToken a token that expires while it is being refreshed, and the outcome of
  reading a torn string beyond the token being one that the API server refuses.

## Plan

The system is modelled as far as its code has control of its own, and the safety
properties of the runs are proved. What is left:

1. Liveness for every value of the constants, with a prover that handles fairness.
2. The parser's errors: that a header of several entries, or with quotes that do not
   close, yields no certificate at all, for every header.
3. Should the repository mend one of the [findings](#findings), its run becomes a passing
   one and its property a candidate for a theorem.
