----------------------- MODULE RequestPipelineProofs -----------------------
(***************************************************************************)
(* Proofs about the request pipeline, for every set of users, groups and   *)
(* tokens, every request and every configuration of the proxy, and about   *)
(* its parser of the X-Forwarded-Client-Cert header.                       *)
(***************************************************************************)
EXTENDS RequestPipeline, TLAPS

\* The headers that the request came with.
ClientHeader ==
    [authorization |-> client.authorization, user |-> client.user,
     groups |-> client.groups, connection |-> client.connection,
     certs |-> ForwardedCerts(client.xfcc)]

\* The identity has the user that the headers ask for, and a name, unless it is
\* the subject of a TLS certificate without one.
AsksFor(i) ==
    /\ client.user # NoUser => i.user = client.user
    /\ i.user = NoUser => i.by = client.cert /\ i.by.user = NoUser

\* No handler before the last ones changes the headers or the query, and the
\* identity in the context, once resolved, is the one the headers ask for.
Untouched ==
    pc \notin {"forward", "review", "done", "aborted"} =>
        /\ header = ClientHeader
        /\ ~filtered
        /\ upstream = {}
        /\ identity # NoIdentity => AsksFor(identity)

\* The module handlers run with the identity in the context.
Identified == pc \in {"handle", "filter"} => identity # NoIdentity

\* What the handlers leave for the reverse proxy to send.
ForwardGuarded ==
    /\ pc = "forward" => upstream = {}
    /\ pc = "forward" /\ header.authorization = ProxyToken =>
          /\ identity # NoIdentity
          /\ \/ /\ ~filtered /\ header.connection = {}
                /\ header.user = identity.user /\ identity.groups \subseteq header.groups
                /\ header.user = NoUser => identity.by = client.cert /\ identity.by.user = NoUser
             \/ filtered /\ header.user = NoUser /\ header.groups = {}

\* The inductive invariant.
IndInv == TypeOK /\ Untouched /\ Identified /\ ForwardGuarded /\ ProxyTokenGuarded

-----------------------------------------------------------------------------
(* Resolving the caller. *)

\* Each authentication type yields a subject; only the TLS certificate's may be
\* without a name.
LEMMA YieldsSubject ==
    ASSUME client \in ClientType, NEW h \in Header, NEW type
    PROVE  /\ Yields(type, h) \subseteq Subject
           /\ \A p \in Yields(type, h) : p.user = NoUser => p = client.cert
<1>1. bearerToken(h) \in Tokens \cup {ProxyToken, NoToken}
    BY DEF bearerToken, Header, ClientType
<1>2. client.cert \in Subject \cup {NoIdentity}
    BY DEF ClientType
<1>3. \A t \in {bearerToken(h)} \ {NoToken} :
          TokenIdentity[t] \in Subject /\ TokenIdentity[t].user # NoUser
    <2>1. \A t \in {bearerToken(h)} \ {NoToken} : TokenIdentity[t] \in Person
        BY <1>1, IdentityAssumption
    <2>2. NoUser \notin Users
        BY IdentityAssumption
    <2>3. QED
        BY <2>1, <2>2 DEF Person, Subject
<1>4. /\ processXFCC(h) \subseteq Subject
      /\ \A p \in processXFCC(h) : p.user # NoUser
    <2>1. h.certs \subseteq Certs
        BY DEF Header
    <2>2. \A d \in Certs : CertIdentity[d] \in Subject
        BY IdentityAssumption
    <2>3. QED
        BY <2>1, <2>2 DEF processXFCC
<1>5. QED
    BY <1>2, <1>3, <1>4 DEF Yields

\* And so does authenticate.
LEMMA AuthenticateSubject ==
    ASSUME client \in ClientType, NEW h \in Header
    PROVE  /\ authenticate(h) \subseteq Subject
           /\ \A p \in authenticate(h) : p.user = NoUser => p = client.cert
<1>1. \A i \in DOMAIN AuthTypes :
          /\ Yields(AuthTypes[i], h) \subseteq Subject
          /\ \A p \in Yields(AuthTypes[i], h) : p.user = NoUser => p = client.cert
    BY YieldsSubject
<1>2. QED
    BY <1>1 DEF authenticate

\* The identity is the impersonated user if the headers name one.
LEMMA ImpersonatedIdentity ==
    ASSUME NEW h \in Header, NEW p \in Subject
    PROVE  /\ Impersonated(p, h) \in Identity
           /\ Impersonated(p, h).by = p
           /\ Impersonated(p, h).user = IF h.user # NoUser THEN h.user ELSE p.user
<1>1. /\ h.user \in Users \cup {NoUser} /\ h.groups \subseteq Groups
      /\ p.user \in Users \cup {NoUser} /\ p.groups \subseteq Groups
    BY DEF Header, Subject
<1>2. h.user # NoUser => ImpliedGroups[h.user] \subseteq Groups
    BY <1>1, IdentityAssumption
<1>3. GetImpersonatingGroups(h) \subseteq Groups
    BY <1>1 DEF GetImpersonatingGroups
<1>4. QED
    BY <1>1, <1>2, <1>3 DEF Impersonated, Identity

\* The outcomes of ResolveUserAndGroups.
LEMMA ResolveOutcome ==
    ASSUME client \in ClientType, NEW h \in Header, NEW cached \in Identity \cup {NoIdentity},
           NEW o \in ResolveUserAndGroups(h, cached)
    PROVE  /\ o.status \in {"ok", "403", "500"}
           /\ o.status = "ok" =>
                 /\ o.identity \in Identity
                 /\ cached # NoIdentity => o.identity = cached
                 /\ cached = NoIdentity /\ h.user # NoUser => o.identity.user = h.user
                 /\ cached = NoIdentity /\ o.identity.user = NoUser =>
                       o.identity.by = client.cert /\ o.identity.by.user = NoUser
<1>1. CASE cached # NoIdentity
    BY <1>1 DEF ResolveUserAndGroups, Resolved
<1>2. CASE cached = NoIdentity
    <2>1. o \in GetUserAndGroups(h)
        BY <1>2 DEF ResolveUserAndGroups
    <2>2. \/ \E p \in authenticate(h) : o = Resolved(Impersonated(p, h))
          \/ o = Unauthorized
          \/ o = Failed
        BY <2>1 DEF GetUserAndGroups
    <2>3. ASSUME NEW p \in authenticate(h), o = Resolved(Impersonated(p, h))
          PROVE  /\ o.status = "ok" /\ o.identity \in Identity
                 /\ h.user # NoUser => o.identity.user = h.user
                 /\ o.identity.user = NoUser =>
                       o.identity.by = client.cert /\ o.identity.by.user = NoUser
        <3>1. p \in Subject /\ (p.user = NoUser => p = client.cert)
            BY <2>3, AuthenticateSubject
        <3>2. /\ Impersonated(p, h) \in Identity
              /\ Impersonated(p, h).by = p
              /\ Impersonated(p, h).user = IF h.user # NoUser THEN h.user ELSE p.user
            BY <3>1, ImpersonatedIdentity
        <3>3. o.status = "ok" /\ o.identity = Impersonated(p, h)
            BY <2>3 DEF Resolved
        <3>4. QED
            BY <3>1, <3>2, <3>3
    <2>4. Unauthorized.status = "403" /\ Failed.status = "500"
        BY DEF Unauthorized, Failed
    <2>5. QED
        BY <1>2, <2>2, <2>3, <2>4
<1>3. QED
    BY <1>1, <1>2

-----------------------------------------------------------------------------
(* Headers. *)

\* Removing the hop-by-hop headers keeps a header well formed.
LEMMA StripHeader ==
    ASSUME NEW h \in Header
    PROVE  /\ WithoutHopByHop(h) \in Header
           /\ WithoutHopByHop(h).connection = {}
           /\ WithoutHopByHop(h).user \in {h.user, NoUser}
           /\ WithoutHopByHop(h).authorization \in {h.authorization, NoToken}
           /\ WithoutHopByHop(h).groups \in {h.groups, {}}
           /\ h.connection = {} => WithoutHopByHop(h).user = h.user
                                   /\ WithoutHopByHop(h).groups = h.groups
    BY DEF WithoutHopByHop, Header

\* Setting the proxy's token keeps a header well formed.
LEMMA TokenHeader ==
    ASSUME NEW h \in Header, NEW token \in {ProxyToken, NoToken}
    PROVE  /\ WithToken(h, token) \in Header
           /\ WithToken(h, token).user = h.user /\ WithToken(h, token).groups = h.groups
    BY DEF WithToken, Header

\* Adding the impersonation headers of a resolved identity keeps a header
\* well formed.
LEMMA ImpersonationHeader ==
    ASSUME NEW h \in Header, NEW i \in Identity
    PROVE  /\ WithImpersonation(h, i) \in Header
           /\ WithImpersonation(h, i).connection = h.connection
           /\ WithImpersonation(h, i).user = IF h.user = NoUser THEN i.user ELSE h.user
           /\ i.groups \subseteq WithImpersonation(h, i).groups
    BY DEF WithImpersonation, Header, Identity

\* Removing the impersonation headers keeps a header well formed.
LEMMA SanitizedHeader ==
    ASSUME NEW h \in Header
    PROVE  /\ SanitizeImpersonationHeaders(h) \in Header
           /\ SanitizeImpersonationHeaders(h).user = NoUser
           /\ SanitizeImpersonationHeaders(h).groups = {}
    BY DEF SanitizeImpersonationHeaders, Header

-----------------------------------------------------------------------------
(* Steps. *)

Pcs == {"trusted", "authorization", "paths", "jwt", "modulePaths", "moduleJwt", "ignored",
        "capsule", "handle", "filter", "impersonate", "forward", "review", "done", "aborted"}

\* The client's own headers never hold the proxy's token.
LEMMA ClientHeaderType ==
    ASSUME client \in Clients
    PROVE  /\ client \in ClientType
           /\ ClientHeader \in Header
           /\ ClientHeader.authorization # ProxyToken
           /\ ClientHeader.user = client.user
<1>1. client \in ClientType
    BY ClientsAssumption
<1>2. ForwardedCerts(client.xfcc) \subseteq Certs
    BY DEF ForwardedCerts
<1>3. QED
    BY <1>1, <1>2, IdentityAssumption DEF ClientHeader, ClientType, Header

\* A request that has just arrived satisfies the inductive invariant.
LEMMA InitIndInv == Init => IndInv
<1> SUFFICES ASSUME Init PROVE IndInv
    OBVIOUS
<1>1. header = ClientHeader /\ client \in Clients
    BY DEF Init, ClientHeader
<1>2. TypeOK
    <2>1. header \in Header
        BY <1>1, ClientHeaderType
    <2>2. << >> \in Seq(Statuses)
        OBVIOUS
    <2>3. QED
        BY <1>1, <2>1, <2>2 DEF Init, TypeOK
<1>3. QED
    BY <1>1, <1>2
    DEF Init, IndInv, Untouched, Identified, ForwardGuarded, ProxyTokenGuarded, SentByProxy

\* Responses are written to the client or to the recorder.
LEMMA WriteType ==
    ASSUME TypeOK, NEW status \in Statuses, Write(status)
    PROVE  answer' \in Seq(Statuses) /\ recorded' \in Seq(Statuses)
<1>1. answer \in Seq(Statuses) /\ recorded \in Seq(Statuses)
    BY DEF TypeOK
<1>2. Append(answer, status) \in Seq(Statuses) /\ Append(recorded, status) \in Seq(Statuses)
    BY <1>1
<1>3. QED
    BY <1>1, <1>2 DEF Write

\* A step among the handlers before the last ones, or to the reverse proxy,
\* that changes neither headers nor query.
LEMMA HandlerStep ==
    ASSUME IndInv, pc \notin {"forward", "review", "done", "aborted"}, pc' \in Pcs \ {"review"},
           UNCHANGED <<client, header, filtered, upstream>>,
           inner' \in BOOLEAN, answer' \in Seq(Statuses), recorded' \in Seq(Statuses),
           identity' \in Identity \cup {NoIdentity},
           identity' # NoIdentity => AsksFor(identity'),
           pc' \in {"handle", "filter"} => identity' # NoIdentity
    PROVE  IndInv'
<1>1. TypeOK'
    BY DEF IndInv, TypeOK, Pcs
<1>2. header = ClientHeader /\ ~filtered /\ upstream = {} /\ client \in Clients
    BY DEF IndInv, TypeOK, Untouched
<1>3. header' = ClientHeader' /\ upstream' = {} /\ ~filtered'
    BY <1>2 DEF ClientHeader
<1>4. header'.authorization # ProxyToken
    BY <1>2, ClientHeaderType
<1>5. Untouched' /\ Identified'
    BY <1>3 DEF Untouched, Identified, AsksFor
<1>6. ForwardGuarded' /\ ProxyTokenGuarded'
    BY <1>3, <1>4 DEF ForwardGuarded, ProxyTokenGuarded, SentByProxy
<1>7. QED
    BY <1>1, <1>5, <1>6 DEF IndInv

\* The same, with the identity unchanged.
LEMMA ContinueStep ==
    ASSUME IndInv, pc \notin {"forward", "review", "done", "aborted"}, pc' \in Pcs \ {"review"},
           UNCHANGED <<client, header, filtered, identity, upstream>>,
           inner' \in BOOLEAN, answer' \in Seq(Statuses), recorded' \in Seq(Statuses),
           pc' \in {"handle", "filter"} => identity # NoIdentity
    PROVE  IndInv'
<1>1. identity' \in Identity \cup {NoIdentity}
    BY DEF IndInv, TypeOK
<1>2. identity' # NoIdentity => AsksFor(identity')
    BY DEF IndInv, Untouched
<1>3. QED
    BY <1>1, <1>2, HandlerStep

\* An error that a handler before the last ones writes.
LEMMA RejectStep ==
    ASSUME IndInv, pc \notin {"forward", "review", "done", "aborted"}, NEW status \in Statuses,
           Reject(status)
    PROVE  IndInv'
<1>1. answer' \in Seq(Statuses) /\ recorded' \in Seq(Statuses)
    BY WriteType DEF Reject, IndInv
<1>2. inner' \in BOOLEAN
    BY DEF Reject, IndInv, TypeOK
<1>3. QED
    BY <1>1, <1>2, ContinueStep DEF Reject, Pcs

\* recoveryMiddleware sends nothing, so it preserves the inductive invariant.
LEMMA RecoverStep ==
    ASSUME IndInv, pc \notin {"forward", "review", "done", "aborted"}, Recover
    PROVE  IndInv'
<1>1. answer' \in Seq(Statuses) /\ recorded' \in Seq(Statuses)
    BY DEF Recover, IndInv, TypeOK, Statuses
<1>2. QED
    BY <1>1, ContinueStep DEF Recover, Pcs

\* The outcome of resolving the caller, before the headers are changed.
LEMMA CallerResolved ==
    ASSUME IndInv, pc \notin {"forward", "review", "done", "aborted"},
           NEW o \in ResolveUserAndGroups(header, identity)
    PROVE  /\ o.status \in {"ok"} \cup Statuses
           /\ o.status = "ok" =>
                 /\ o.identity \in Identity
                 /\ AsksFor(o.identity)
<1>1. /\ client \in ClientType /\ header \in Header /\ header.user = client.user
      /\ identity \in Identity \cup {NoIdentity}
      /\ identity # NoIdentity => AsksFor(identity)
    BY ClientHeaderType DEF IndInv, TypeOK, Untouched
<1>2. QED
    BY <1>1, ResolveOutcome DEF Statuses, AsksFor

\* The middlewares of the root router preserve the inductive invariant: they
\* change neither the headers nor what was sent.
LEMMA MiddlewareStep ==
    ASSUME IndInv,
           \/ RequireTrustedSourceMiddleware \/ authorizationMiddleware
           \/ CheckPaths \/ CheckJWTMiddleware
    PROVE  IndInv'
<1>0. answer \in Seq(Statuses) /\ recorded \in Seq(Statuses) /\ inner \in BOOLEAN
    BY DEF IndInv, TypeOK
<1>1. CASE RequireTrustedSourceMiddleware
    <2>1. answer' \in Seq(Statuses)
        BY <1>0, <1>1 DEF RequireTrustedSourceMiddleware, Continue, Statuses
    <2>2. QED
        BY <1>0, <1>1, <2>1, ContinueStep DEF RequireTrustedSourceMiddleware, Continue, Pcs
<1>2. CASE authorizationMiddleware
    BY <1>0, <1>2, ContinueStep DEF authorizationMiddleware, Pcs
<1>3. CASE CheckPaths
    BY <1>0, <1>3, ContinueStep DEF CheckPaths, Continue, Pcs
<1>4. CASE CheckJWTMiddleware
    <2>1. ASSUME NEW status \in {"403", "500"}, Reject(status)
          PROVE  IndInv'
        BY <1>4, <2>1, RejectStep DEF CheckJWTMiddleware, Statuses
    <2>2. ASSUME NEW next \in {"ignored", "modulePaths", "impersonate"}, Continue(next)
          PROVE  IndInv'
        BY <1>0, <1>4, <2>2, ContinueStep DEF CheckJWTMiddleware, Continue, Pcs
    <2>3. QED
        BY <1>4, <2>1, <2>2 DEF CheckJWTMiddleware
<1>5. QED
    BY <1>1, <1>2, <1>3, <1>4

\* The middlewares and the handler of a module's route preserve the inductive
\* invariant: the identity they put into the context is a resolved one.
LEMMA ModuleStep ==
    ASSUME IndInv,
           \/ CheckUserInIgnoredIdentityMiddleware
           \/ CheckUserInCapsuleGroupMiddleware
           \/ moduleHandler
    PROVE  IndInv'
<1>0. answer \in Seq(Statuses) /\ recorded \in Seq(Statuses) /\ inner \in BOOLEAN
    BY DEF IndInv, TypeOK
<1>1. ASSUME pc \in {"ignored", "capsule"}, NEW o \in ResolveUserAndGroups(header, identity),
             o.status # "ok", Reject(o.status)
      PROVE  IndInv'
    BY <1>1, CallerResolved, RejectStep
<1>2. ASSUME pc \in {"ignored", "capsule"}, NEW o \in ResolveUserAndGroups(header, identity),
             o.status = "ok",
             NEW next \in {"capsule", "handle", "impersonate"}, ContinueAs(o.identity, next)
      PROVE  IndInv'
    <2>1. /\ o.identity \in Identity
          /\ AsksFor(o.identity)
        BY <1>2, CallerResolved
    <2>2. NoIdentity \notin Identity
        BY IdentityAssumption
    <2>3. QED
        BY <1>0, <1>2, <2>1, <2>2, HandlerStep DEF ContinueAs, Pcs
<1>3. CASE CheckUserInIgnoredIdentityMiddleware
    <2>1. CASE IgnoredUsers \cup IgnoredGroups = {}
        BY <1>0, <1>3, <2>1, ContinueStep DEF CheckUserInIgnoredIdentityMiddleware, Continue, Pcs
    <2>2. CASE IgnoredUsers \cup IgnoredGroups # {}
        BY <1>1, <1>2, <1>3, <2>2 DEF CheckUserInIgnoredIdentityMiddleware
    <2>3. QED
        BY <2>1, <2>2
<1>4. CASE CheckUserInCapsuleGroupMiddleware
    BY <1>1, <1>2, <1>4 DEF CheckUserInCapsuleGroupMiddleware
<1>5. CASE moduleHandler
    <2>0. CASE Recover
        BY <1>5, <2>0, RecoverStep DEF moduleHandler
    <2>1. ASSUME NEW status \in {"404", "500"}, Reject(status)
          PROVE  IndInv'
        BY <1>5, <2>1, RejectStep DEF moduleHandler, Statuses
    <2>2. ASSUME NEW next \in {"impersonate", "filter"}, Continue(next)
          PROVE  IndInv'
        <3>1. identity # NoIdentity
            BY <1>5 DEF moduleHandler, IndInv, Identified
        <3>2. QED
            BY <1>0, <1>5, <2>2, <3>1, ContinueStep DEF moduleHandler, Continue, Pcs
    <2>3. QED
        BY <1>5, <2>0, <2>1, <2>2 DEF moduleHandler
<1>6. QED
    BY <1>3, <1>4, <1>5

\* impersonateHandler: the headers carry the proxy's token and impersonate the
\* caller, or an error or a panic leaves them as they were.
LEMMA ImpersonateStep ==
    ASSUME IndInv, impersonateHandler
    PROVE  IndInv'
<1>1. PICK o \in ResolveUserAndGroups(header, identity) :
          \/ o.status # "ok" /\ Reject(o.status)
          \/ o.status = "ok" /\ CallsFail /\ Recover
          \/ \E token \in {ProxyToken, NoToken} :
                /\ o.status = "ok"
                /\ header' = WithImpersonation(WithoutHopByHop(WithToken(header, token)), o.identity)
                /\ identity' = o.identity
                /\ pc' = "forward"
                /\ UNCHANGED <<client, filtered, inner, answer, recorded, upstream>>
    BY DEF impersonateHandler
<1>2. pc = "impersonate"
    BY DEF impersonateHandler
<1>3. CASE o.status # "ok" /\ Reject(o.status)
    BY <1>2, <1>3, CallerResolved, RejectStep
<1>4. CASE o.status = "ok" /\ Recover
    BY <1>2, <1>4, RecoverStep
<1>5. ASSUME NEW token \in {ProxyToken, NoToken}, o.status = "ok",
             header' = WithImpersonation(WithoutHopByHop(WithToken(header, token)), o.identity),
             identity' = o.identity, pc' = "forward",
             UNCHANGED <<client, filtered, inner, answer, recorded, upstream>>
      PROVE  IndInv'
    <2> DEFINE sent == WithToken(header, token)
    <2> DEFINE clean == WithoutHopByHop(sent)
    <2>1. /\ o.identity \in Identity /\ o.identity # NoIdentity
          /\ AsksFor(o.identity)
        BY <1>2, <1>5, CallerResolved, IdentityAssumption
    <2>2. header = ClientHeader /\ header \in Header /\ header.user = client.user
          /\ ~filtered /\ upstream = {}
        BY <1>2, ClientHeaderType DEF IndInv, TypeOK, Untouched
    <2>3. sent \in Header /\ sent.user = client.user
        BY <2>2, TokenHeader
    <2> HIDE DEF sent
    <2>4. clean \in Header /\ clean.connection = {} /\ clean.user \in {client.user, NoUser}
        BY <2>3, StripHeader
    <2>5. header' = WithImpersonation(clean, o.identity)
        BY <1>5 DEF sent
    <2> HIDE DEF clean
    <2>6. /\ header' \in Header /\ header'.connection = {}
          /\ header'.user = o.identity.user
          /\ o.identity.groups \subseteq header'.groups
        BY <2>1, <2>4, <2>5, ImpersonationHeader DEF AsksFor
    <2>7. TypeOK'
        BY <1>5, <2>1, <2>6 DEF IndInv, TypeOK
    <2>8. Untouched' /\ Identified' /\ ForwardGuarded' /\ ProxyTokenGuarded'
        BY <1>5, <2>1, <2>2, <2>6
        DEF Untouched, Identified, ForwardGuarded, ProxyTokenGuarded, SentByProxy, AsksFor
    <2>9. QED
        BY <2>7, <2>8 DEF IndInv
<1>6. QED
    BY <1>1, <1>3, <1>4, <1>5

\* handleRequest: the caller's impersonation headers are gone.
LEMMA HandleRequestStep ==
    ASSUME IndInv, handleRequest
    PROVE  IndInv'
<1>1. pc = "filter" /\ identity # NoIdentity /\ upstream = {} /\ header \in Header
    BY DEF handleRequest, IndInv, TypeOK, Untouched, Identified
<1>2. CASE Recover
    BY <1>1, <1>2, RecoverStep
<1>3. ASSUME NEW token \in {ProxyToken, NoToken},
             header' = WithToken(SanitizeImpersonationHeaders(header), token),
             filtered' = TRUE, pc' = "forward",
             UNCHANGED <<client, identity, inner, answer, recorded, upstream>>
      PROVE  IndInv'
    <2>1. header' \in Header /\ header'.user = NoUser /\ header'.groups = {}
        BY <1>1, <1>3, SanitizedHeader, TokenHeader
    <2>2. TypeOK'
        BY <1>3, <2>1 DEF IndInv, TypeOK
    <2>3. Untouched' /\ Identified' /\ ForwardGuarded' /\ ProxyTokenGuarded'
        BY <1>1, <1>3, <2>1
        DEF Untouched, Identified, ForwardGuarded, ProxyTokenGuarded, SentByProxy
    <2>4. QED
        BY <2>2, <2>3 DEF IndInv
<1>4. QED
    BY <1>2, <1>3 DEF handleRequest

\* The reverse proxy removes what the Connection header lists once more.
LEMMA ReverseProxyStep ==
    ASSUME IndInv, reverseProxy
    PROVE  IndInv'
<1> DEFINE h == WithoutHopByHop(header)
<1> DEFINE s == [authorization |-> h.authorization, user |-> h.user, groups |-> h.groups,
                 filtered |-> filtered, identity |-> identity]
<1>1. /\ pc = "forward" /\ upstream = {} /\ header \in Header /\ filtered \in BOOLEAN
      /\ identity \in Identity \cup {NoIdentity}
    BY DEF reverseProxy, IndInv, TypeOK, ForwardGuarded
<1>2. /\ h \in Header
      /\ h.user \in {header.user, NoUser}
      /\ h.authorization \in {header.authorization, NoToken}
      /\ h.groups \in {header.groups, {}}
      /\ header.connection = {} => h.user = header.user /\ h.groups = header.groups
    BY <1>1, StripHeader
<1>3. upstream' = {s}
    BY <1>1 DEF reverseProxy
<1> HIDE DEF h
<1>4. s \in SentType
    BY <1>1, <1>2 DEF Header, SentType
<1>5. answer' \in Seq(Statuses) /\ recorded' \in Seq(Statuses)
    BY WriteType DEF reverseProxy, IndInv, Statuses
<1>6. /\ pc' \in {"review", "done", "aborted"}
      /\ UNCHANGED <<client, header, filtered, identity, inner>>
    BY DEF reverseProxy, Abort
<1>7. TypeOK'
    BY <1>3, <1>4, <1>5, <1>6 DEF IndInv, TypeOK
<1>8. s.authorization = ProxyToken =>
          /\ identity # NoIdentity
          /\ \/ /\ ~filtered /\ h.user = identity.user /\ identity.groups \subseteq h.groups
                /\ h.user = NoUser => identity.by = client.cert /\ identity.by.user = NoUser
             \/ filtered /\ h.user = NoUser /\ h.groups = {}
    BY <1>1, <1>2, IdentityAssumption DEF IndInv, ForwardGuarded
<1>9. ProxyTokenGuarded'
    BY <1>3, <1>6, <1>8 DEF ProxyTokenGuarded, SentByProxy
<1>10. QED
    BY <1>6, <1>7, <1>9 DEF IndInv, Untouched, Identified, ForwardGuarded

\* Nothing is sent after the answer to a self review is mutated.
LEMMA MutateStep ==
    ASSUME IndInv, MutateAuthorization
    PROVE  IndInv'
<1>1. /\ pc' = "done" /\ inner' = FALSE
      /\ UNCHANGED <<client, header, filtered, recorded, upstream>>
    BY DEF MutateAuthorization
<1>2. PICK o \in ResolveUserAndGroups(header, NoIdentity) :
          /\ identity' = IF o.status = "ok" THEN o.identity ELSE identity
          /\ \E status \in
                IF o.status # "ok" THEN {o.status}
                ELSE (IF recorded = <<"upstream">> THEN {"granted"} ELSE {"500"})
                     \cup (IF CallsFail THEN {"500"} ELSE {}) :
                answer' = Append(answer, status)
    BY DEF MutateAuthorization
<1>3. /\ o.status \in {"ok", "403", "500"}
      /\ o.status = "ok" => o.identity \in Identity
    <2>1. client \in ClientType /\ header \in Header
        BY ClientHeaderType DEF IndInv, TypeOK
    <2>2. QED
        BY <2>1, ResolveOutcome
<1>4. PICK status \in Statuses : answer' = Append(answer, status)
    BY <1>2, <1>3 DEF Statuses
<1>5. answer' \in Seq(Statuses)
    BY <1>4 DEF IndInv, TypeOK
<1>6. identity' \in Identity \cup {NoIdentity}
    BY <1>2, <1>3 DEF IndInv, TypeOK
<1>7. TypeOK'
    BY <1>1, <1>5, <1>6 DEF IndInv, TypeOK
<1>8. QED
    BY <1>1, <1>7
    DEF IndInv, Untouched, Identified, ForwardGuarded, ProxyTokenGuarded, SentByProxy

\* Every step preserves the inductive invariant.
LEMMA StepIndInv == IndInv /\ [Next]_vars => IndInv'
<1> SUFFICES ASSUME IndInv, [Next]_vars PROVE IndInv'
    OBVIOUS
<1>1. CASE UNCHANGED vars
    BY <1>1
    DEF vars, IndInv, TypeOK, Untouched, Identified, ForwardGuarded, ProxyTokenGuarded,
        SentByProxy, ClientHeader, AsksFor
<1>2. QED
    BY <1>1, MiddlewareStep, ModuleStep, ImpersonateStep, HandleRequestStep,
       ReverseProxyStep, MutateStep
    DEF Next

\* The state of a request keeps its type.
THEOREM TypeCorrect == Spec => []TypeOK
<1>1. IndInv => TypeOK
    BY DEF IndInv
<1>2. QED
    BY <1>1, InitIndInv, StepIndInv, PTL DEF Spec

\* Whatever headers the caller sends, a request with the proxy's own token
\* impersonates the resolved caller or carries a module's selector, and names a
\* user unless the caller's TLS certificate does not.
THEOREM ProxyTokenSafe == Spec => []ProxyTokenGuarded
<1>1. IndInv => ProxyTokenGuarded
    BY DEF IndInv
<1>2. QED
    BY <1>1, InitIndInv, StepIndInv, PTL DEF Spec

\* With certificates that all have a common name, no request goes to the API
\* server as the proxy itself without a selector.
THEOREM NamedNotSentAsProxy ==
    ASSUME \A c \in Clients : c.cert = NoIdentity \/ c.cert.user # NoUser
    PROVE  Spec => []UnauthenticatedNotSent
<1>1. IndInv => UnauthenticatedNotSent
    <2> SUFFICES ASSUME IndInv, NEW s \in SentByProxy, ~s.filtered, s.user = NoUser
                 PROVE  FALSE
        BY DEF UnauthenticatedNotSent
    <2>1. s.identity.by = client.cert /\ client.cert.user = NoUser /\ client \in Clients
        BY DEF IndInv, TypeOK, ProxyTokenGuarded
    <2>2. s.identity \in Identity /\ client.cert # NoIdentity
        <3>1. s \in SentType /\ s.identity # NoIdentity
            BY DEF IndInv, TypeOK, ProxyTokenGuarded, SentByProxy
        <3>2. s.identity \in Identity
            BY <3>1 DEF SentType
        <3>3. s.identity.by \in Subject
            BY <3>2 DEF Identity
        <3>4. QED
            BY <2>1, <3>2, <3>3, IdentityAssumption
    <2>3. QED
        BY <2>1, <2>2
<1>2. QED
    BY <1>1, InitIndInv, StepIndInv, PTL DEF Spec

-----------------------------------------------------------------------------
(* Who is impersonated. *)

\* The default configuration: impersonations are reviewed, and no group is left
\* out of the reviews.
DefaultReviews == IgnoredImpersonation = {} /\ SkipReview = FALSE

\* What a person may impersonate.
Allowed(by) == {name \in Users \cup Groups : <<by.user, name>> \in MayImpersonate}

\* The identity, and the groups that the caller asked for, are the person's own,
\* reviewed, or implied.
Justified(i, groups) ==
    /\ groups \subseteq Allowed(i.by)
    /\ i.user \in {i.by.user} \cup Allowed(i.by)
    /\ i.groups \subseteq i.by.groups \cup Allowed(i.by)
                          \cup (IF i.user = NoUser THEN {} ELSE ImpliedGroups[i.user])

\* The identity in the context is justified, and the headers that the handlers
\* leave hold no other groups than the caller's and that identity's.
IdentityJustified ==
    /\ pc # "done" /\ identity # NoIdentity => Justified(identity, client.groups)
    /\ pc = "forward" =>
          header.groups \subseteq
              client.groups \cup (IF identity = NoIdentity THEN {} ELSE identity.groups)

ReviewInv == IdentityJustified /\ ImpersonationReviewed

\* An identity that is resolved from the headers has passed the reviews.
LEMMA ResolvedJustified ==
    ASSUME DefaultReviews, client \in ClientType, NEW h \in Header,
           NEW cached \in Identity \cup {NoIdentity},
           cached # NoIdentity => Justified(cached, h.groups),
           NEW o \in ResolveUserAndGroups(h, cached), o.status = "ok"
    PROVE  Justified(o.identity, h.groups)
<1>1. CASE cached # NoIdentity
    BY <1>1 DEF ResolveUserAndGroups, Resolved
<1>2. CASE cached = NoIdentity
    <2>1. PICK p \in authenticate(h) : ~Denied(p, h) /\ o = Resolved(Impersonated(p, h))
        BY <1>2 DEF ResolveUserAndGroups, GetUserAndGroups, Unauthorized, Failed
    <2>2. h.user \in Users \cup {NoUser} /\ h.groups \subseteq Groups
        BY DEF Header
    <2>3. GetImpersonatingGroups(h) = h.groups
        BY DEF DefaultReviews, GetImpersonatingGroups
    <2>4. Reviewed(h) = h.groups \cup ({h.user} \ {NoUser})
        BY <2>3 DEF DefaultReviews, Reviewed
    <2>5. \A name \in h.groups \cup ({h.user} \ {NoUser}) : name \in Allowed(p)
        BY <2>1, <2>2, <2>4 DEF Denied, Allowed
    <2>6. /\ o.identity.by = p
          /\ o.identity.user = IF h.user # NoUser THEN h.user ELSE p.user
          /\ o.identity.groups = IF h.groups # {} THEN h.groups
                                 ELSE IF h.user # NoUser THEN ImpliedGroups[h.user]
                                 ELSE p.groups
        BY <2>1, <2>3 DEF Resolved, Impersonated
    <2>7. QED
        BY <2>5, <2>6 DEF Justified
<1>3. QED
    BY <1>1, <1>2

\* The impersonation headers are added to those that are there.
LEMMA ImpersonationGroups ==
    ASSUME NEW h \in Header, NEW i \in Identity, NEW token \in {ProxyToken, NoToken}
    PROVE  WithImpersonation(WithoutHopByHop(WithToken(h, token)), i).groups
               \subseteq h.groups \cup i.groups
<1>1. WithToken(h, token) \in Header /\ WithToken(h, token).groups = h.groups
    BY TokenHeader
<1> DEFINE clean == WithoutHopByHop(WithToken(h, token))
<1>2. clean \in Header /\ clean.groups \subseteq h.groups
    BY <1>1, StripHeader
<1> HIDE DEF clean
<1>3. WithImpersonation(clean, i).groups \subseteq h.groups \cup i.groups
    BY <1>2 DEF WithImpersonation, Header
<1>4. QED
    BY <1>3 DEF clean

\* A handler before the last ones that leaves the headers alone, with the
\* identity that was there or one that was resolved.
LEMMA HandlerReviewed ==
    ASSUME DefaultReviews, IndInv, ReviewInv, pc \notin {"forward", "review", "done", "aborted"},
           UNCHANGED <<client, header, upstream>>,
           \/ identity' = identity
           \/ \E o \in ResolveUserAndGroups(header, identity) :
                 o.status = "ok" /\ identity' = o.identity
    PROVE  ReviewInv'
<1>1. /\ client \in ClientType /\ header \in Header /\ header.groups = client.groups
      /\ identity \in Identity \cup {NoIdentity} /\ upstream = {}
    BY ClientHeaderType DEF IndInv, TypeOK, Untouched, ClientHeader
<1>2. identity' # NoIdentity => Justified(identity', client.groups)
    BY <1>1, ResolvedJustified DEF ReviewInv, IdentityJustified
<1>3. IdentityJustified'
    BY <1>1, <1>2 DEF IdentityJustified, Justified, Allowed
<1>4. ImpersonationReviewed'
    BY <1>1 DEF ImpersonationReviewed, SentByProxy
<1>5. QED
    BY <1>3, <1>4 DEF ReviewInv

Middlewares ==
    \/ RequireTrustedSourceMiddleware \/ authorizationMiddleware
    \/ CheckPaths \/ CheckJWTMiddleware
    \/ CheckUserInIgnoredIdentityMiddleware
    \/ CheckUserInCapsuleGroupMiddleware
    \/ moduleHandler

\* What all handlers before the last ones have in common: they leave the headers
\* and the query alone, and take the identity from ResolveUserAndGroups.
LEMMA MiddlewareLeaves ==
    ASSUME Middlewares
    PROVE  /\ pc \notin {"forward", "review", "done", "aborted"}
           /\ UNCHANGED <<client, header, filtered, upstream>>
           /\ \/ identity' = identity
              \/ \E o \in ResolveUserAndGroups(header, identity) :
                    o.status = "ok" /\ identity' = o.identity
<1> USE DEF Continue, ContinueAs, Reject, Recover
<1>1. CASE RequireTrustedSourceMiddleware
    BY <1>1 DEF RequireTrustedSourceMiddleware
<1>2. CASE authorizationMiddleware
    BY <1>2 DEF authorizationMiddleware
<1>3. CASE CheckPaths
    BY <1>3 DEF CheckPaths
<1>4. CASE CheckJWTMiddleware
    BY <1>4 DEF CheckJWTMiddleware
<1>5. CASE CheckUserInIgnoredIdentityMiddleware
    BY <1>5 DEF CheckUserInIgnoredIdentityMiddleware
<1>6. CASE CheckUserInCapsuleGroupMiddleware
    BY <1>6 DEF CheckUserInCapsuleGroupMiddleware
<1>7. CASE moduleHandler
    BY <1>7 DEF moduleHandler
<1>8. QED
    BY <1>1, <1>2, <1>3, <1>4, <1>5, <1>6, <1>7 DEF Middlewares

\* impersonateHandler adds a justified identity to the headers.
LEMMA ImpersonateReviewed ==
    ASSUME DefaultReviews, IndInv, ReviewInv, impersonateHandler
    PROVE  ReviewInv'
<1>1. PICK o \in ResolveUserAndGroups(header, identity) :
          \/ o.status # "ok" /\ Reject(o.status)
          \/ o.status = "ok" /\ CallsFail /\ Recover
          \/ \E token \in {ProxyToken, NoToken} :
                /\ o.status = "ok"
                /\ header' = WithImpersonation(WithoutHopByHop(WithToken(header, token)), o.identity)
                /\ identity' = o.identity
                /\ pc' = "forward"
                /\ UNCHANGED <<client, filtered, inner, answer, recorded, upstream>>
    BY DEF impersonateHandler
<1>2. pc = "impersonate"
    BY DEF impersonateHandler
<1>3. CASE Reject(o.status) \/ Recover
    BY <1>2, <1>3, HandlerReviewed DEF Reject, Recover
<1>4. ASSUME NEW token \in {ProxyToken, NoToken}, o.status = "ok",
             header' = WithImpersonation(WithoutHopByHop(WithToken(header, token)), o.identity),
             identity' = o.identity, UNCHANGED <<client, upstream>>
      PROVE  ReviewInv'
    <2>1. /\ client \in ClientType /\ header \in Header /\ header.groups = client.groups
          /\ identity \in Identity \cup {NoIdentity} /\ upstream = {}
        BY <1>2, ClientHeaderType DEF IndInv, TypeOK, Untouched, ClientHeader
    <2>2. o.identity \in Identity /\ o.identity # NoIdentity
        BY <1>2, <1>4, CallerResolved, IdentityAssumption
    <2>3. Justified(o.identity, client.groups)
        BY <1>2, <1>4, <2>1, ResolvedJustified DEF ReviewInv, IdentityJustified
    <2>4. header'.groups \subseteq client.groups \cup o.identity.groups
        BY <1>4, <2>1, <2>2, ImpersonationGroups
    <2>5. IdentityJustified'
        BY <1>4, <2>2, <2>3, <2>4 DEF IdentityJustified, Justified, Allowed
    <2>6. ImpersonationReviewed'
        BY <1>4, <2>1 DEF ImpersonationReviewed, SentByProxy
    <2>7. QED
        BY <2>5, <2>6 DEF ReviewInv
<1>5. QED
    BY <1>1, <1>3, <1>4

\* handleRequest removes the groups.
LEMMA HandleRequestReviewed ==
    ASSUME DefaultReviews, IndInv, ReviewInv, handleRequest
    PROVE  ReviewInv'
<1>1. pc = "filter" /\ upstream = {} /\ header \in Header
    BY DEF handleRequest, IndInv, TypeOK, Untouched
<1>2. CASE Recover
    BY <1>1, <1>2, HandlerReviewed DEF Recover
<1>3. ASSUME NEW token \in {ProxyToken, NoToken},
             header' = WithToken(SanitizeImpersonationHeaders(header), token),
             UNCHANGED <<client, identity, upstream>>
      PROVE  ReviewInv'
    <2>1. header'.groups = {}
        BY <1>1, <1>3, SanitizedHeader, TokenHeader
    <2>2. IdentityJustified'
        BY <1>1, <1>3, <2>1 DEF ReviewInv, IdentityJustified, Justified, Allowed
    <2>3. ImpersonationReviewed'
        BY <1>1, <1>3 DEF ImpersonationReviewed, SentByProxy
    <2>4. QED
        BY <2>2, <2>3 DEF ReviewInv
<1>4. QED
    BY <1>2, <1>3 DEF handleRequest

\* What the reverse proxy sends with the proxy's token is what was justified.
LEMMA ReverseProxyReviewed ==
    ASSUME DefaultReviews, IndInv, ReviewInv, reverseProxy
    PROVE  ReviewInv'
<1> DEFINE h == WithoutHopByHop(header)
<1> DEFINE s == [authorization |-> h.authorization, user |-> h.user, groups |-> h.groups,
                 filtered |-> filtered, identity |-> identity]
<1>1. /\ pc = "forward" /\ upstream = {} /\ header \in Header
      /\ identity \in Identity \cup {NoIdentity}
    BY DEF reverseProxy, IndInv, TypeOK, ForwardGuarded
<1>2. /\ h.user \in {header.user, NoUser} /\ h.groups \subseteq header.groups
      /\ h.authorization \in {header.authorization, NoToken}
      /\ header.connection = {} => h.user = header.user
    BY <1>1, StripHeader
<1>3. upstream' = {s} /\ UNCHANGED <<client, header, identity>>
      /\ pc' \in {"review", "done", "aborted"}
    BY <1>1 DEF reverseProxy, Abort
<1> HIDE DEF h
<1>4. IdentityJustified'
    BY <1>1, <1>3 DEF ReviewInv, IdentityJustified, Justified, Allowed
<1>5. ASSUME h.authorization = ProxyToken
      PROVE  /\ h.user \in {identity.by.user, NoUser} \cup Allowed(identity.by)
             /\ h.groups \subseteq identity.by.groups \cup Allowed(identity.by)
                            \cup (IF h.user = NoUser THEN {} ELSE ImpliedGroups[h.user])
    <2>1. /\ identity # NoIdentity
          /\ \/ /\ header.connection = {} /\ header.user = identity.user
             \/ header.user = NoUser /\ header.groups = {}
        BY <1>1, <1>2, <1>5, IdentityAssumption DEF IndInv, ForwardGuarded
    <2>2. Justified(identity, client.groups)
        BY <1>1, <2>1 DEF ReviewInv, IdentityJustified
    <2>3. header.groups \subseteq client.groups \cup identity.groups
        BY <1>1, <2>1 DEF ReviewInv, IdentityJustified
    <2>5. CASE header.connection = {} /\ header.user = identity.user
        <3>1. h.user = identity.user
            BY <1>2, <2>5
        <3>2. QED
            BY <1>2, <2>2, <2>3, <3>1 DEF Justified
    <2>6. CASE header.user = NoUser /\ header.groups = {}
        BY <1>2, <2>6
    <2>7. QED
        BY <2>1, <2>5, <2>6
<1>6. ImpersonationReviewed'
    BY <1>3, <1>5 DEF ImpersonationReviewed, SentByProxy, Allowed
<1>7. QED
    BY <1>4, <1>6 DEF ReviewInv

\* Every step keeps impersonations reviewed.
LEMMA StepReviewed ==
    ASSUME DefaultReviews, IndInv, ReviewInv, [Next]_vars
    PROVE  ReviewInv'
<1>1. CASE UNCHANGED vars
    BY <1>1 DEF vars, ReviewInv, IdentityJustified, Justified, Allowed,
                ImpersonationReviewed, SentByProxy
<1>2. CASE Middlewares
    BY <1>2, MiddlewareLeaves, HandlerReviewed
<1>3. CASE MutateAuthorization
    <2>1. pc' = "done" /\ UNCHANGED upstream
        BY <1>3 DEF MutateAuthorization
    <2>2. QED
        BY <2>1 DEF ReviewInv, IdentityJustified, ImpersonationReviewed, SentByProxy
<1>4. QED
    BY <1>1, <1>2, <1>3, ImpersonateReviewed, HandleRequestReviewed, ReverseProxyReviewed
    DEF Next, Middlewares

\* With the default configuration of the reviews, whoever is impersonated with
\* the proxy's token is the caller, or was reviewed for the caller, or is implied
\* by the service account that was.
THEOREM ImpersonationsReviewed ==
    ASSUME DefaultReviews
    PROVE  Spec => []ImpersonationReviewed
<1>1. Init => ReviewInv
    BY DEF Init, ReviewInv, IdentityJustified, ImpersonationReviewed, SentByProxy
<1>2. IndInv /\ ReviewInv /\ [Next]_vars => ReviewInv'
    BY StepReviewed
<1>3. ReviewInv => ImpersonationReviewed
    BY DEF ReviewInv
<1>4. QED
    BY <1>1, <1>2, <1>3, InitIndInv, StepIndInv, PTL DEF Spec

-----------------------------------------------------------------------------
(* Whose requests are filtered. *)

NotIgnored == identity # NoIdentity /\ ~identityIsIgnored(identity)

\* What each middleware has established for the handlers behind it.
Checked ==
    /\ pc = "capsule" => IgnoredUsers \cup IgnoredGroups = {} \/ NotIgnored
    /\ pc \in {"handle", "filter"} => NotIgnored /\ isCapsuleUser(identity)
    /\ pc = "forward" /\ filtered => NotIgnored /\ isCapsuleUser(identity)

FilterInv == Checked /\ FilteredIsCapsuleUser

\* Without ignored users and groups nobody is ignored.
LEMMA NobodyIgnored ==
    ASSUME IgnoredUsers \cup IgnoredGroups = {}, NEW i
    PROVE  ~identityIsIgnored(i)
    BY DEF identityIsIgnored

\* The middlewares of a module's route let only Capsule users that are not
\* ignored through to the handler.
LEMMA ModuleChecked ==
    ASSUME IndInv, FilterInv,
           CheckUserInIgnoredIdentityMiddleware \/ CheckUserInCapsuleGroupMiddleware
    PROVE  Checked'
<1>1. ~filtered
    BY DEF IndInv, Untouched, CheckUserInIgnoredIdentityMiddleware,
           CheckUserInCapsuleGroupMiddleware
<1>2. \A o \in ResolveUserAndGroups(header, identity) : o.status = "ok" =>
          /\ o.identity # NoIdentity
          /\ identity # NoIdentity => o.identity = identity
    <2>1. pc \in {"ignored", "capsule"}
        BY DEF CheckUserInIgnoredIdentityMiddleware, CheckUserInCapsuleGroupMiddleware
    <2>2. client \in ClientType /\ header \in Header /\ identity \in Identity \cup {NoIdentity}
        BY ClientHeaderType DEF IndInv, TypeOK
    <2>3. QED
        BY <2>2, ResolveOutcome, IdentityAssumption
<1>3. CASE CheckUserInIgnoredIdentityMiddleware
    <2>1. CASE IgnoredUsers \cup IgnoredGroups = {}
        BY <1>3, <2>1 DEF CheckUserInIgnoredIdentityMiddleware, Continue, Checked
    <2>2. CASE IgnoredUsers \cup IgnoredGroups # {}
        <3>1. PICK o \in ResolveUserAndGroups(header, identity) :
                  IF o.status # "ok" THEN Reject(o.status)
                  ELSE ContinueAs(o.identity,
                         IF identityIsIgnored(o.identity) THEN "impersonate" ELSE "capsule")
            BY <1>3, <2>2 DEF CheckUserInIgnoredIdentityMiddleware
        <3>2. QED
            BY <1>1, <1>2, <3>1 DEF Reject, ContinueAs, Checked, NotIgnored
    <2>3. QED
        BY <2>1, <2>2
<1>4. CASE CheckUserInCapsuleGroupMiddleware
    <2>1. PICK o \in ResolveUserAndGroups(header, identity) :
              IF o.status # "ok" THEN Reject(o.status)
              ELSE ContinueAs(o.identity,
                     IF isCapsuleUser(o.identity) THEN "handle" ELSE "impersonate")
        BY <1>4 DEF CheckUserInCapsuleGroupMiddleware
    <2>2. o.status = "ok" => ~identityIsIgnored(o.identity)
        BY <1>2, <1>4, NobodyIgnored
        DEF CheckUserInCapsuleGroupMiddleware, FilterInv, Checked, NotIgnored
    <2>3. QED
        BY <1>1, <1>2, <2>1, <2>2 DEF Reject, ContinueAs, Checked, NotIgnored
<1>5. QED
    BY <1>3, <1>4

\* Every step filters only requests of Capsule users.
LEMMA StepFiltered == IndInv /\ FilterInv /\ [Next]_vars => FilterInv'
<1> SUFFICES ASSUME IndInv, FilterInv, [Next]_vars PROVE FilterInv'
    OBVIOUS
<1> USE DEF FilterInv
<1>1. CASE UNCHANGED vars
    BY <1>1 DEF vars, Checked, NotIgnored, FilteredIsCapsuleUser
<1>2. CASE CheckUserInIgnoredIdentityMiddleware \/ CheckUserInCapsuleGroupMiddleware
    <2>1. upstream' = upstream
        BY <1>2, MiddlewareLeaves DEF Middlewares
    <2>2. QED
        BY <1>2, <2>1, ModuleChecked DEF FilteredIsCapsuleUser
<1>3. CASE \/ RequireTrustedSourceMiddleware \/ authorizationMiddleware
           \/ CheckPaths \/ CheckJWTMiddleware
    <2>1. /\ UNCHANGED <<filtered, upstream>> /\ ~filtered
          /\ pc' \notin {"capsule", "handle", "filter"}
        BY <1>3 DEF RequireTrustedSourceMiddleware, authorizationMiddleware, CheckPaths,
                    CheckJWTMiddleware, Continue, Reject, IndInv, Untouched
    <2>2. QED
        BY <2>1 DEF Checked, FilteredIsCapsuleUser
<1>4. CASE moduleHandler
    <2>1. /\ UNCHANGED <<filtered, upstream, identity>> /\ ~filtered /\ pc = "handle"
          /\ pc' \in {"filter", "impersonate", "forward", "done"}
        BY <1>4 DEF moduleHandler, Continue, Reject, Recover, IndInv, Untouched
    <2>2. QED
        BY <2>1 DEF Checked, NotIgnored, FilteredIsCapsuleUser
<1>5. CASE impersonateHandler
    <2>1. UNCHANGED <<filtered, upstream>> /\ ~filtered /\ pc' \in {"forward", "done"}
        BY <1>5 DEF impersonateHandler, Reject, Recover, IndInv, Untouched
    <2>2. QED
        BY <2>1 DEF Checked, FilteredIsCapsuleUser
<1>6. CASE handleRequest
    <2>1. UNCHANGED <<identity, upstream>> /\ pc = "filter" /\ pc' \in {"forward", "done"}
        BY <1>6 DEF handleRequest, Recover
    <2>2. QED
        BY <2>1 DEF Checked, NotIgnored, FilteredIsCapsuleUser
<1>7. CASE reverseProxy
    <2>1. pc = "forward" /\ pc' \in {"review", "done", "aborted"} /\ upstream = {}
        BY <1>7 DEF reverseProxy, Abort, IndInv, ForwardGuarded
    <2>2. \A s \in upstream' : s.filtered = filtered /\ s.identity = identity
        BY <1>7, <2>1 DEF reverseProxy
    <2>3. filtered => NotIgnored /\ isCapsuleUser(identity)
        BY <2>1 DEF Checked
    <2>4. QED
        BY <2>1, <2>2, <2>3 DEF Checked, NotIgnored, FilteredIsCapsuleUser
<1>8. CASE MutateAuthorization
    <2>1. pc' = "done" /\ UNCHANGED upstream
        BY <1>8 DEF MutateAuthorization
    <2>2. QED
        BY <2>1 DEF Checked, FilteredIsCapsuleUser
<1>9. QED
    BY <1>1, <1>2, <1>3, <1>4, <1>5, <1>6, <1>7, <1>8 DEF Next

\* Only requests of Capsule users that are not ignored carry a module's selector.
THEOREM OnlyCapsuleUsersFiltered == Spec => []FilteredIsCapsuleUser
<1>1. Init => FilterInv
    BY DEF Init, FilterInv, Checked, FilteredIsCapsuleUser
<1>2. FilterInv => FilteredIsCapsuleUser
    BY DEF FilterInv
<1>3. QED
    BY <1>1, <1>2, InitIndInv, StepIndInv, StepFiltered, PTL DEF Spec

-----------------------------------------------------------------------------
(* What is sent after an error was written. *)

AsCaller == \A s \in upstream : s.authorization \in {client.authorization, NoToken}

\* Nothing is written before the last handlers but an error, after which the
\* headers are still the client's; two writes mean that there was one.
WrittenOnce ==
    /\ pc \notin {"forward", "review", "done", "aborted"} => answer = << >> /\ recorded = << >>
    /\ pc = "forward" =>
          /\ inner => answer = << >>
          /\ \/ answer = << >> /\ recorded = << >>
             \/ header.authorization = client.authorization
    /\ pc = "review" => answer = << >> /\ (AsCaller \/ Len(recorded) <= 1)
    /\ pc \in {"done", "aborted"} => AsCaller \/ (Len(answer) <= 1 /\ Len(recorded) <= 1)

\* A handler before the last ones writes nothing, or one error.
LEMMA HandlerWrites ==
    ASSUME IndInv, WrittenOnce, pc \notin {"forward", "review", "done", "aborted"},
           UNCHANGED <<client, header, upstream>>, pc' \notin {"review", "aborted"},
           pc' \notin {"forward", "done"} => UNCHANGED <<answer, recorded>>,
           pc' = "forward" /\ inner' => UNCHANGED answer
    PROVE  WrittenOnce'
<1>1. header.authorization = client.authorization /\ upstream = {}
    BY DEF IndInv, Untouched, ClientHeader
<1>2. QED
    BY <1>1 DEF WrittenOnce, AsCaller

\* Every step keeps the writes in order.
LEMMA StepWritten == IndInv /\ WrittenOnce /\ [Next]_vars => WrittenOnce'
<1> SUFFICES ASSUME IndInv, WrittenOnce, [Next]_vars PROVE WrittenOnce'
    OBVIOUS
<1>1. CASE UNCHANGED vars
    BY <1>1 DEF vars, WrittenOnce, AsCaller
<1>2. CASE Middlewares
    <2>1. /\ pc \notin {"forward", "review", "done", "aborted"}
          /\ UNCHANGED <<client, header, upstream>>
        BY <1>2, MiddlewareLeaves
    <2>2. /\ pc' \notin {"review", "aborted"}
          /\ pc' \notin {"forward", "done"} => UNCHANGED <<answer, recorded>>
          /\ pc' = "forward" /\ inner' => UNCHANGED answer
        BY <1>2 DEF Middlewares, RequireTrustedSourceMiddleware, authorizationMiddleware, CheckPaths,
                    CheckJWTMiddleware, CheckUserInIgnoredIdentityMiddleware,
                    CheckUserInCapsuleGroupMiddleware, moduleHandler,
                    Continue, ContinueAs, Reject, Recover, Write
    <2>3. QED
        BY <2>1, <2>2, HandlerWrites
<1>3. CASE impersonateHandler \/ handleRequest
    <2>1. pc \in {"impersonate", "filter"} /\ answer = << >> /\ recorded = << >>
        BY <1>3 DEF impersonateHandler, handleRequest, WrittenOnce
    <2>2. CASE \E status : Reject(status)
        BY <2>1, <2>2, HandlerWrites DEF Reject, Write
    <2>3. CASE Recover
        BY <2>1, <2>3, HandlerWrites DEF Recover
    <2>4. CASE pc' = "forward" /\ UNCHANGED <<answer, recorded>>
        BY <2>1, <2>4 DEF WrittenOnce
    <2>5. QED
        BY <1>3, <2>2, <2>3, <2>4 DEF impersonateHandler, handleRequest
<1>4. CASE reverseProxy
    <2>1. /\ pc = "forward" /\ upstream = {} /\ header \in Header
          /\ pc' \in {IF inner THEN "review" ELSE "done", "aborted"} /\ UNCHANGED <<client, header>>
        BY <1>4 DEF reverseProxy, Abort, IndInv, TypeOK, ForwardGuarded
    <2>2. CASE answer = << >> /\ recorded = << >>
        <3>1. \/ inner /\ answer' = << >> /\ recorded' = Append(recorded, "upstream")
              \/ ~inner /\ answer' = Append(answer, "upstream") /\ recorded' = << >>
            BY <1>4, <2>2 DEF reverseProxy, Write
        <3>2. Len(<< >>) <= 1 /\ \A w : w = << >> => Len(Append(w, "upstream")) <= 1
            OBVIOUS
        <3>3. Len(answer') <= 1 /\ Len(recorded') <= 1 /\ (inner => answer' = << >>)
            BY <2>2, <3>1, <3>2
        <3>4. QED
            BY <2>1, <3>3 DEF WrittenOnce
    <2>3. CASE header.authorization = client.authorization
        <3>1. WithoutHopByHop(header).authorization \in {client.authorization, NoToken}
            BY <2>1, <2>3, StripHeader
        <3>2. AsCaller'
            BY <1>4, <2>1, <3>1 DEF reverseProxy, AsCaller
        <3>3. inner => answer' = << >>
            BY <1>4, <2>1 DEF reverseProxy, Write, WrittenOnce
        <3>4. QED
            BY <2>1, <3>2, <3>3 DEF WrittenOnce
    <2>4. QED
        BY <2>1, <2>2, <2>3 DEF WrittenOnce
<1>5. CASE MutateAuthorization
    <2>1. /\ pc = "review" /\ pc' = "done" /\ answer = << >>
          /\ UNCHANGED <<client, recorded, upstream>>
          /\ AsCaller \/ Len(recorded) <= 1
        BY <1>5 DEF MutateAuthorization, WrittenOnce
    <2>2. PICK status : answer' = Append(answer, status)
        BY <1>5 DEF MutateAuthorization
    <2>3. Len(answer') <= 1
        BY <2>1, <2>2
    <2>4. QED
        BY <2>1, <2>3 DEF WrittenOnce, AsCaller
<1>6. QED
    BY <1>1, <1>2, <1>3, <1>4, <1>5 DEF Next, Middlewares

\* A request for which an error was written is sent on with the caller's own
\* credentials or with none.
THEOREM RejectedKeepsCaller == Spec => []RejectedSentAsCaller
<1>1. Init => WrittenOnce
    BY DEF Init, WrittenOnce
<1>2. IndInv /\ WrittenOnce => RejectedSentAsCaller
    <2> SUFFICES ASSUME IndInv, WrittenOnce,
                        NEW w \in {answer, recorded}, NEW i \in 1..(Len(w) - 1)
                 PROVE  AsCaller
        BY DEF RejectedSentAsCaller, AsCaller
    <2>1. Len(w) \in Nat /\ Len(w) > 1 /\ w # << >>
        BY DEF IndInv, TypeOK
    <2>2. CASE pc \notin {"review", "done", "aborted"}
        BY <2>2 DEF IndInv, Untouched, ForwardGuarded, AsCaller
    <2>3. CASE pc = "review"
        BY <2>1, <2>3 DEF WrittenOnce
    <2>4. CASE pc \in {"done", "aborted"}
        BY <2>1, <2>4 DEF WrittenOnce
    <2>5. QED
        BY <2>2, <2>3, <2>4
<1>3. QED
    BY <1>1, <1>2, InitIndInv, StepIndInv, StepWritten, PTL DEF Spec

-----------------------------------------------------------------------------
(***************************************************************************)
(* The loops of the X-Forwarded-Client-Cert parser: reading the sequence s *)
(* takes the loop from state a to state b.                                 *)
(***************************************************************************)
Loops == INSTANCE SelectorsProofs WITH NoLabel <- {}, NoSelector <- {}

\* One iteration of unescapeQuoted, or of splitOutsideQuotes with a separator.
Rune(loop, a, r) == IF loop = "unescape" THEN unescapeRune(a, r) ELSE splitRune(a, r, loop)

IsRun(f, loop, a, s, b) ==
    /\ f = [i \in 0..Len(s) |-> f[i]]
    /\ f[0] = a /\ f[Len(s)] = b
    /\ \A i \in 1..Len(s) : f[i] = Rune(loop, f[i - 1], s[i])

Runs(loop, a, s, b) == \E f : IsRun(f, loop, a, s, b)

LEMMA RunsEmpty ==
    ASSUME NEW loop, NEW a
    PROVE  Runs(loop, a, << >>, a)
<1> DEFINE f == [i \in 0..0 |-> a]
<1>1. f = [i \in 0..0 |-> f[i]] /\ f[0] = a /\ 1..0 = {}
    OBVIOUS
<1>2. Len(<< >>) = 0
    OBVIOUS
<1> HIDE DEF f
<1>3. IsRun(f, loop, a, << >>, a)
    BY <1>1, <1>2 DEF IsRun
<1>4. QED
    BY <1>3 DEF Runs

LEMMA RunsOne ==
    ASSUME NEW loop, NEW a, NEW r
    PROVE  Runs(loop, a, <<r>>, Rune(loop, a, r))
<1> DEFINE b == Rune(loop, a, r)
<1> DEFINE f == [i \in 0..1 |-> IF i = 0 THEN a ELSE b]
<1> HIDE DEF b
<1>1. f = [i \in 0..1 |-> f[i]] /\ f[0] = a /\ f[1] = b
    OBVIOUS
<1>2. Len(<<r>>) = 1 /\ <<r>>[1] = r
    OBVIOUS
<1> HIDE DEF f
<1>3. ASSUME NEW i \in 1..1 PROVE f[i] = Rune(loop, f[i - 1], <<r>>[i])
    <2>1. i = 1 /\ i - 1 = 0
        OBVIOUS
    <2>2. QED
        BY <1>1, <1>2, <2>1 DEF b
<1>4. IsRun(f, loop, a, <<r>>, b)
    BY <1>1, <1>2, <1>3 DEF IsRun
<1>5. QED
    BY <1>4 DEF Runs, b

LEMMA RunsConcat ==
    ASSUME NEW E, NEW loop, NEW a, NEW b, NEW c, NEW s \in Seq(E), NEW t \in Seq(E),
           Runs(loop, a, s, b), Runs(loop, b, t, c)
    PROVE  Runs(loop, a, s \o t, c)
<1> DEFINE m == Len(s)
<1> DEFINE n == Len(t)
<1> DEFINE st == s \o t
<1>1. m \in Nat /\ n \in Nat
    OBVIOUS
<1>2. Len(st) = m + n
    OBVIOUS
<1>3. \A i \in 1..m : st[i] = s[i]
    OBVIOUS
<1>4. \A i \in (m + 1)..(m + n) : st[i] = t[i - m]
    OBVIOUS
<1>5. PICK f : IsRun(f, loop, a, s, b)
    BY DEF Runs
<1>6. PICK g : IsRun(g, loop, b, t, c)
    BY DEF Runs
<1>7. f[0] = a /\ f[m] = b /\ \A i \in 1..m : f[i] = Rune(loop, f[i - 1], s[i])
    BY <1>5 DEF IsRun
<1>8. g[0] = b /\ g[n] = c /\ \A i \in 1..n : g[i] = Rune(loop, g[i - 1], t[i])
    BY <1>6 DEF IsRun
<1> DEFINE h == [i \in 0..(m + n) |-> IF i <= m THEN f[i] ELSE g[i - m]]
<1> HIDE DEF m, n, st
<1>9. h = [i \in 0..(m + n) |-> h[i]]
    OBVIOUS
<1>10. /\ \A i \in 0..m : h[i] = f[i]
       /\ \A i \in m..(m + n) : h[i] = g[i - m]
    <2>1. ASSUME NEW i \in 0..m PROVE h[i] = f[i]
        BY <1>1
    <2>2. ASSUME NEW i \in m..(m + n) PROVE h[i] = g[i - m]
        <3>1. CASE i = m
            <4>1. i - m = 0 /\ i \in 0..(m + n)
                BY <1>1, <3>1
            <4>2. QED
                BY <1>1, <1>7, <1>8, <3>1, <4>1
        <3>2. CASE i # m
            BY <1>1, <3>2
        <3>3. QED
            BY <3>1, <3>2
    <2>3. QED
        BY <2>1, <2>2
<1> HIDE DEF h
<1>11. h[0] = a /\ h[m + n] = c
    <2>1. 0 \in 0..m /\ m + n \in m..(m + n) /\ (m + n) - m = n
        BY <1>1
    <2>2. QED
        BY <1>7, <1>8, <1>10, <2>1
<1>12. ASSUME NEW i \in 1..(m + n)
       PROVE  h[i] = Rune(loop, h[i - 1], st[i])
    <2>1. CASE i <= m
        <3>1. i \in 1..m /\ i \in 0..m /\ i - 1 \in 0..m
            BY <1>1, <2>1
        <3>2. QED
            BY <1>3, <1>7, <1>10, <3>1
    <2>2. CASE ~(i <= m)
        <3>1. i \in (m + 1)..(m + n) /\ i \in m..(m + n) /\ i - 1 \in m..(m + n)
            BY <1>1, <2>2
        <3>2. i - m \in 1..n /\ (i - 1) - m = (i - m) - 1
            BY <1>1, <3>1
        <3>3. h[i] = g[i - m] /\ h[i - 1] = g[(i - m) - 1] /\ st[i] = t[i - m]
            BY <1>4, <1>10, <3>1, <3>2
        <3>4. QED
            BY <1>8, <3>2, <3>3
    <2>3. QED
        BY <2>1, <2>2
<1>13. IsRun(h, loop, a, st, c)
    BY <1>2, <1>9, <1>11, <1>12 DEF IsRun
<1>14. QED
    BY <1>13 DEF Runs, st

\* A loop that is defined by a recursion ends where the run does.
LEMMA RunsAgree ==
    ASSUME NEW loop, NEW a, NEW s, NEW b, NEW g, Len(s) \in Nat,
           Runs(loop, a, s, b),
           g[0] = a, \A i \in 1..Len(s) : g[i] = Rune(loop, g[i - 1], s[i])
    PROVE  g[Len(s)] = b
<1>1. PICK f : IsRun(f, loop, a, s, b)
    BY DEF Runs
<1> DEFINE n == Len(s)
<1>2. f[0] = g[0] /\ f[n] = b /\ \A i \in 1..n : f[i] = Rune(loop, f[i - 1], s[i])
    BY <1>1 DEF IsRun
<1> HIDE DEF n
<1>3. n \in Nat /\ \A i \in 1..n : g[i] = Rune(loop, g[i - 1], s[i])
    BY DEF n
<1>4. \A i \in 1..n : f[i - 1] = g[i - 1] => f[i] = g[i]
    BY <1>2, <1>3
<1>5. f[n] = g[n]
    BY <1>2, <1>3, <1>4, Loops!RecursionAgrees
<1>6. QED
    BY <1>2, <1>5 DEF n

SplitState(result, current, inQuotes, escaped) ==
    [result |-> result, current |-> current, inQuotes |-> inQuotes, escaped |-> escaped]

\* Outside quotes, as at the end of a header.
SplitEnd(result, current) == SplitState(result, current, FALSE, FALSE)

SplitStart == SplitState(<< >>, << >>, FALSE, FALSE)

IsSplit(f, s, sep) ==
    f = [i \in 0..Len(s) |->
            IF i = 0 THEN [result |-> << >>, current |-> << >>, inQuotes |-> FALSE, escaped |-> FALSE]
            ELSE splitRune(f[i - 1], s[i], sep)]

IsOnly(S, e) == S = {e}

LEMMA SplitRuns ==
    ASSUME NEW s, NEW sep, sep # "unescape", Len(s) \in Nat, NEW result, NEW current,
           Runs(sep, SplitStart, s, SplitEnd(result, current))
    PROVE  IsOnly(splitOutsideQuotes(s, sep), Append(result, TrimSpace(current)))
<1> DEFINE n == Len(s)
<1> DEFINE last == SplitEnd(result, current)
<1>1. PICK f : IsRun(f, sep, SplitStart, s, last)
    BY DEF Runs
<1>2. IsSplit(f, s, sep)
    <2> DEFINE h == [i \in 0..n |-> IF i = 0 THEN SplitStart ELSE splitRune(f[i - 1], s[i], sep)]
    <2>1. f = [i \in 0..n |-> f[i]]
        BY <1>1 DEF IsRun
    <2>2. ASSUME NEW i \in 0..n
          PROVE  f[i] = IF i = 0 THEN SplitStart ELSE splitRune(f[i - 1], s[i], sep)
        <3>1. i = 0 \/ i \in 1..n
            OBVIOUS
        <3>2. f[0] = SplitStart /\ \A j \in 1..n : f[j] = splitRune(f[j - 1], s[j], sep)
            BY <1>1 DEF IsRun, Rune
        <3>3. QED
            BY <3>1, <3>2
    <2>3. f = h
        BY <2>1, <2>2
    <2>4. QED
        BY <2>3, Zenon DEF IsSplit, h, SplitStart, SplitState
<1> DEFINE chosen == CHOOSE g : IsSplit(g, s, sep)
<1>3. IsSplit(chosen, s, sep)
    BY <1>2
<1>4. splitOutsideQuotes(s, sep) = IF chosen[n].escaped \/ chosen[n].inQuotes THEN {}
                                   ELSE {Append(chosen[n].result, TrimSpace(chosen[n].current))}
    BY Zenon DEF splitOutsideQuotes, IsSplit
<1> HIDE DEF chosen
<1>5. \A i \in 0..n : chosen[i] = IF i = 0 THEN SplitStart ELSE splitRune(chosen[i - 1], s[i], sep)
    BY <1>3, Zenon DEF IsSplit, SplitStart, SplitState
<1>6. chosen[0] = SplitStart
    <2>1. 0 \in 0..n
        OBVIOUS
    <2>2. QED
        BY <1>5, <2>1
<1>7. ASSUME NEW i \in 1..n PROVE chosen[i] = Rune(sep, chosen[i - 1], s[i])
    <2>1. i \in 0..n /\ i # 0
        OBVIOUS
    <2>2. QED
        BY <1>5, <2>1 DEF Rune
<1>8. chosen[n] = last
    <2>1. Runs(sep, SplitStart, s, last)
        OBVIOUS
    <2>2. \A i \in 1..Len(s) : chosen[i] = Rune(sep, chosen[i - 1], s[i])
        BY <1>7
    <2> HIDE DEF last
    <2>3. chosen[Len(s)] = last
        BY <1>6, <2>1, <2>2, RunsAgree, Zenon
    <2>4. QED
        BY <2>3
<1>9. /\ last.escaped = FALSE /\ last.inQuotes = FALSE
      /\ last.result = result /\ last.current = current
    BY DEF SplitEnd, SplitState
<1> HIDE DEF last
<1>10. QED
    BY <1>4, <1>8, <1>9 DEF IsOnly

UnescapeState(value, escaped) == [value |-> value, escaped |-> escaped]

UnescapeStart == UnescapeState(<< >>, FALSE)

IsUnescape(f, s) ==
    f = [i \in 0..Len(s) |->
            IF i = 0 THEN [value |-> << >>, escaped |-> FALSE] ELSE unescapeRune(f[i - 1], s[i])]

LEMMA UnescapeRuns ==
    ASSUME NEW s, Len(s) \in Nat, NEW value,
           Runs("unescape", UnescapeStart, s, UnescapeState(value, FALSE))
    PROVE  unescapeQuoted(s) = {value}
<1> DEFINE n == Len(s)
<1> DEFINE last == UnescapeState(value, FALSE)
<1>1. PICK f : IsRun(f, "unescape", UnescapeStart, s, last)
    BY DEF Runs
<1>2. IsUnescape(f, s)
    <2> DEFINE h == [i \in 0..n |-> IF i = 0 THEN UnescapeStart ELSE unescapeRune(f[i - 1], s[i])]
    <2>1. f = [i \in 0..n |-> f[i]]
        BY <1>1 DEF IsRun
    <2>2. ASSUME NEW i \in 0..n
          PROVE  f[i] = IF i = 0 THEN UnescapeStart ELSE unescapeRune(f[i - 1], s[i])
        <3>1. i = 0 \/ i \in 1..n
            OBVIOUS
        <3>2. f[0] = UnescapeStart /\ \A j \in 1..n : f[j] = unescapeRune(f[j - 1], s[j])
            BY <1>1 DEF IsRun, Rune
        <3>3. QED
            BY <3>1, <3>2
    <2>3. f = h
        BY <2>1, <2>2
    <2>4. QED
        BY <2>3, Zenon DEF IsUnescape, h, UnescapeStart, UnescapeState
<1> DEFINE chosen == CHOOSE g : IsUnescape(g, s)
<1>3. IsUnescape(chosen, s)
    BY <1>2
<1>4. unescapeQuoted(s) = IF chosen[n].escaped THEN {} ELSE {chosen[n].value}
    BY Zenon DEF unescapeQuoted, IsUnescape
<1> HIDE DEF chosen
<1>5. \A i \in 0..n : chosen[i] = IF i = 0 THEN UnescapeStart ELSE unescapeRune(chosen[i - 1], s[i])
    BY <1>3, Zenon DEF IsUnescape, UnescapeStart, UnescapeState
<1>6. chosen[0] = UnescapeStart
    <2>1. 0 \in 0..n
        OBVIOUS
    <2>2. QED
        BY <1>5, <2>1
<1>7. ASSUME NEW i \in 1..n PROVE chosen[i] = Rune("unescape", chosen[i - 1], s[i])
    <2>1. i \in 0..n /\ i # 0
        OBVIOUS
    <2>2. QED
        BY <1>5, <2>1 DEF Rune
<1>8. chosen[n] = last
    <2>1. Runs("unescape", UnescapeStart, s, last)
        OBVIOUS
    <2>2. \A i \in 1..Len(s) : chosen[i] = Rune("unescape", chosen[i - 1], s[i])
        BY <1>7
    <2> HIDE DEF last
    <2>3. chosen[Len(s)] = last
        BY <1>6, <2>1, <2>2, RunsAgree, Zenon
    <2>4. QED
        BY <2>3
<1>9. last.escaped = FALSE /\ last.value = value
    BY DEF UnescapeState
<1> HIDE DEF last
<1>10. QED
    BY <1>4, <1>8, <1>9

-----------------------------------------------------------------------------
(* Concatenation. *)

LEMMA ConcatType ==
    ASSUME NEW E, NEW s \in Seq(E), NEW t \in Seq(E)
    PROVE  s \o t \in Seq(E) /\ Len(s \o t) = Len(s) + Len(t)
    OBVIOUS

LEMMA ConcatEmpty ==
    ASSUME NEW E, NEW s \in Seq(E)
    PROVE  s \o << >> = s /\ << >> \o s = s
    OBVIOUS

LEMMA AppendConcat ==
    ASSUME NEW E, NEW s \in Seq(E), NEW e \in E
    PROVE  Append(s, e) = s \o <<e>>
    OBVIOUS

LEMMA ConcatElements ==
    ASSUME NEW E, NEW s \in Seq(E), NEW t \in Seq(E)
    PROVE  /\ \A i \in 1..Len(s) : (s \o t)[i] = s[i]
           /\ \A i \in 1..Len(t) : (s \o t)[Len(s) + i] = t[i]
    OBVIOUS

LEMMA AppendType ==
    ASSUME NEW E, NEW s \in Seq(E), NEW e \in E
    PROVE  /\ Append(s, e) \in Seq(E)
           /\ Len(Append(s, e)) = Len(s) + 1
           /\ \A i \in 1..Len(s) : Append(s, e)[i] = s[i]
           /\ Append(s, e)[Len(s) + 1] = e
    OBVIOUS

LEMMA OneType ==
    ASSUME NEW E, NEW e \in E
    PROVE  <<e>> \in Seq(E) /\ Len(<<e>>) = 1 /\ <<e>>[1] = e
    OBVIOUS

LEMMA PairConcat ==
    ASSUME NEW E, NEW d \in E, NEW e \in E
    PROVE  <<d>> \o <<e>> = <<d, e>>
<1> DEFINE s == <<d>>
<1> DEFINE a == Append(s, e)
<1> DEFINE u == <<d, e>>
<1>1. s \in Seq(E)
    BY OneType
<1>2. Len(s) = 1 /\ s[1] = d
    BY OneType
<1>3. u \in Seq(E)
    OBVIOUS
<1>4. Len(u) = 2 /\ u[1] = d /\ u[2] = e
    OBVIOUS
<1> HIDE DEF s, u
<1>5. a = s \o <<e>>
    BY <1>1, AppendConcat
<1>6. /\ a \in Seq(E) /\ Len(a) = Len(s) + 1 /\ a[Len(s) + 1] = e
      /\ \A i \in 1..Len(s) : a[i] = s[i]
    BY <1>1, AppendType
<1> HIDE DEF a
<1>7. Len(a) = 2 /\ a[1] = d /\ a[2] = e
    <2>1. Len(a) = 2 /\ a[2] = e
        BY <1>2, <1>6
    <2>2. 1 \in 1..1
        OBVIOUS
    <2>3. QED
        BY <1>2, <1>6, <2>1, <2>2
<1>8. ASSUME NEW i \in 1..2 PROVE a[i] = u[i]
    <2>1. i = 1 \/ i = 2
        OBVIOUS
    <2>2. QED
        BY <1>4, <1>7, <2>1
<1>9. a = u
    BY <1>3, <1>4, <1>6, <1>7, <1>8, Loops!SameSeq
<1>10. QED
    BY <1>5, <1>9 DEF s, u

LEMMA TripleConcat ==
    ASSUME NEW E, NEW d \in E, NEW e \in E, NEW f \in E
    PROVE  (<<d>> \o <<e>>) \o <<f>> = <<d, e, f>>
<1> DEFINE s == <<d, e>>
<1> DEFINE a == Append(s, f)
<1> DEFINE u == <<d, e, f>>
<1>1. s \in Seq(E)
    OBVIOUS
<1>2. Len(s) = 2 /\ s[1] = d /\ s[2] = e
    OBVIOUS
<1>3. u \in Seq(E)
    OBVIOUS
<1>4. Len(u) = 3 /\ u[1] = d /\ u[2] = e /\ u[3] = f
    OBVIOUS
<1>5. <<d>> \o <<e>> = s
    BY PairConcat
<1> HIDE DEF s, u
<1>6. a = s \o <<f>>
    BY <1>1, AppendConcat
<1>7. /\ a \in Seq(E) /\ Len(a) = Len(s) + 1 /\ a[Len(s) + 1] = f
      /\ \A i \in 1..Len(s) : a[i] = s[i]
    BY <1>1, AppendType
<1> HIDE DEF a
<1>8. Len(a) = 3 /\ a[1] = d /\ a[2] = e /\ a[3] = f
    <2>1. Len(a) = 3 /\ a[3] = f
        BY <1>2, <1>7
    <2>2. 1 \in 1..2 /\ 2 \in 1..2
        OBVIOUS
    <2>3. QED
        BY <1>2, <1>7, <2>1, <2>2
<1>9. ASSUME NEW i \in 1..3 PROVE a[i] = u[i]
    <2>1. i = 1 \/ i = 2 \/ i = 3
        OBVIOUS
    <2>2. QED
        BY <1>4, <1>8, <2>1
<1>10. a = u
    BY <1>3, <1>4, <1>7, <1>8, <1>9, Loops!SameSeq
<1>11. QED
    BY <1>5, <1>6, <1>10 DEF u

LEMMA ConcatAssoc ==
    ASSUME NEW E, NEW s \in Seq(E), NEW t \in Seq(E), NEW u \in Seq(E)
    PROVE  (s \o t) \o u = s \o (t \o u)
    OBVIOUS

-----------------------------------------------------------------------------
(* Quoted text, element by element. *)

Quote == "\""
Backslash == "\\"

EscapedElement(e) == IF e \in {Quote, Backslash} THEN <<Backslash, e>> ELSE <<e>>

LEMMA ElementType ==
    ASSUME NEW E, Backslash \in E, NEW e \in E
    PROVE  EscapedElement(e) \in Seq(E)
<1>1. <<Backslash, e>> \in Seq(E) /\ <<e>> \in Seq(E)
    OBVIOUS
<1>2. QED
    BY <1>1 DEF EscapedElement

\* In quotes an escaped element is kept as it is.
LEMMA ElementSplit ==
    ASSUME NEW E, Backslash \in E, NEW e \in E, NEW sep, sep # "unescape",
           NEW result, NEW current \in Seq(E)
    PROVE  Runs(sep, SplitState(result, current, TRUE, FALSE), EscapedElement(e),
                SplitState(result, current \o EscapedElement(e), TRUE, FALSE))
<1> DEFINE a == SplitState(result, current, TRUE, FALSE)
<1>1. CASE e \notin {Quote, Backslash}
    <2>1. Rune(sep, a, e) = SplitState(result, Append(current, e), TRUE, FALSE)
        BY <1>1 DEF Rune, splitRune, SplitState, Quote, Backslash
    <2>2. Append(current, e) = current \o <<e>>
        BY AppendConcat
    <2>3. Runs(sep, a, <<e>>, Rune(sep, a, e))
        BY RunsOne
    <2>4. QED
        BY <1>1, <2>1, <2>2, <2>3 DEF EscapedElement
<1>2. CASE e \in {Quote, Backslash}
    <2> DEFINE b == SplitState(result, Append(current, Backslash), TRUE, TRUE)
    <2> DEFINE c == SplitState(result, Append(Append(current, Backslash), e), TRUE, FALSE)
    <2>1. Rune(sep, a, Backslash) = b
        BY DEF Rune, splitRune, SplitState, Backslash
    <2>2. Rune(sep, b, e) = c
        BY DEF Rune, splitRune, SplitState
    <2> HIDE DEF a, b, c
    <2>3. Runs(sep, a, <<Backslash>>, b)
        BY <2>1, RunsOne
    <2>4. Runs(sep, b, <<e>>, c)
        BY <2>2, RunsOne
    <2>5. <<Backslash>> \in Seq(E) /\ <<e>> \in Seq(E)
        OBVIOUS
    <2>6. Runs(sep, a, <<Backslash>> \o <<e>>, c)
        BY <2>3, <2>4, <2>5, RunsConcat
    <2>7. <<Backslash>> \o <<e>> = <<Backslash, e>>
        BY PairConcat
    <2>8. Append(Append(current, Backslash), e) = current \o <<Backslash, e>>
        <3>1. Append(current, Backslash) = current \o <<Backslash>>
            BY AppendConcat
        <3>2. current \o <<Backslash>> \in Seq(E)
            BY <2>5, ConcatType
        <3>3. Append(current \o <<Backslash>>, e) = (current \o <<Backslash>>) \o <<e>>
            BY <3>2, AppendConcat
        <3>4. (current \o <<Backslash>>) \o <<e>> = current \o (<<Backslash>> \o <<e>>)
            BY <2>5, ConcatAssoc
        <3>5. QED
            BY <2>7, <3>1, <3>3, <3>4
    <2>9. QED
        BY <1>2, <2>6, <2>7, <2>8 DEF EscapedElement, a, c
<1>3. QED
    BY <1>1, <1>2

\* An escaped element is read as the element.
LEMMA ElementUnescape ==
    ASSUME NEW E, Backslash \in E, NEW e \in E, NEW value
    PROVE  Runs("unescape", UnescapeState(value, FALSE), EscapedElement(e),
                UnescapeState(Append(value, e), FALSE))
<1> DEFINE a == UnescapeState(value, FALSE)
<1> DEFINE c == UnescapeState(Append(value, e), FALSE)
<1>1. CASE e \notin {Quote, Backslash}
    <2>1. Rune("unescape", a, e) = c
        BY <1>1 DEF Rune, unescapeRune, UnescapeState, Backslash
    <2>2. Runs("unescape", a, <<e>>, Rune("unescape", a, e))
        BY RunsOne
    <2>3. QED
        BY <1>1, <2>1, <2>2 DEF EscapedElement
<1>2. CASE e \in {Quote, Backslash}
    <2> DEFINE b == UnescapeState(value, TRUE)
    <2>1. Rune("unescape", a, Backslash) = b
        BY DEF Rune, unescapeRune, UnescapeState, Backslash
    <2>2. Rune("unescape", b, e) = c
        BY DEF Rune, unescapeRune, UnescapeState
    <2> HIDE DEF a, b, c
    <2>3. Runs("unescape", a, <<Backslash>>, b)
        BY <2>1, RunsOne
    <2>4. Runs("unescape", b, <<e>>, c)
        BY <2>2, RunsOne
    <2>5. <<Backslash>> \in Seq(E) /\ <<e>> \in Seq(E)
        OBVIOUS
    <2>6. Runs("unescape", a, <<Backslash>> \o <<e>>, c)
        BY <2>3, <2>4, <2>5, RunsConcat
    <2>7. <<Backslash>> \o <<e>> = <<Backslash, e>>
        BY PairConcat
    <2>8. QED
        BY <1>2, <2>6, <2>7 DEF EscapedElement, a, c
<1>3. QED
    BY <1>1, <1>2

IsEscaped(f, text) ==
    f = [i \in 0..Len(text) |->
            IF i = 0 THEN << >>
            ELSE f[i - 1] \o (IF text[i] \in {"\"", "\\"} THEN <<"\\", text[i]>> ELSE <<text[i]>>)]

LEMMA EscapedDefined ==
    ASSUME NEW E, Backslash \in E, NEW text \in Seq(E)
    PROVE  \E f \in [0..Len(text) -> Seq(E)] :
              /\ f[0] = << >>
              /\ \A i \in 1..Len(text) : f[i] = f[i - 1] \o EscapedElement(text[i])
              /\ Escaped(text) = f[Len(text)]
<1> DEFINE n == Len(text)
<1> DEFINE V == Seq(E)
<1> DEFINE base == << >>
<1> DEFINE step == [i \in 1..n |-> [s \in V |-> s \o EscapedElement(text[i])]]
<1>1. n \in Nat /\ \A i \in 1..n : text[i] \in E
    OBVIOUS
<1>2. base \in V
    OBVIOUS
<1>3. step \in [1..n -> [V -> V]]
    <2>1. ASSUME NEW i \in 1..n, NEW s \in V PROVE s \o EscapedElement(text[i]) \in V
        <3>1. EscapedElement(text[i]) \in Seq(E)
            BY <1>1, ElementType
        <3>2. QED
            BY <3>1, ConcatType
    <2> HIDE DEF V
    <2>2. QED
        BY <2>1
<1>4. PICK f \in [0..n -> V] : Loops!Recurs(f, base, step, n)
    <2> HIDE DEF step, V, base, n
    <2>1. n \in Nat
        BY <1>1
    <2>2. QED
        BY <1>2, <1>3, <2>1, Loops!Recursion
<1>5. ASSUME NEW i \in 1..n
      PROVE  f[i] = f[i - 1] \o EscapedElement(text[i])
    <2> HIDE DEF V
    <2>1. i - 1 \in 0..n
        BY <1>1
    <2>2. f[i - 1] \in V
        BY <2>1
    <2>3. QED
        BY <1>4, <2>2 DEF Loops!Recurs
<1> HIDE DEF step, V, base
<1>6. f[0] = base
    BY <1>4 DEF Loops!Recurs
<1>7. IsEscaped(f, text)
    <2>1. f = [i \in 0..n |-> f[i]]
        OBVIOUS
    <2>2. ASSUME NEW i \in 0..n
          PROVE  f[i] = IF i = 0 THEN base ELSE f[i - 1] \o EscapedElement(text[i])
        <3>1. i = 0 \/ i \in 1..n
            BY <1>1
        <3>2. QED
            BY <1>5, <1>6, <3>1
    <2> DEFINE h == [i \in 0..n |-> IF i = 0 THEN base ELSE f[i - 1] \o EscapedElement(text[i])]
    <2>3. f = h
        BY <2>1, <2>2
    <2>4. QED
        BY <2>3, Zenon DEF IsEscaped, EscapedElement, Quote, Backslash, base, h
<1> DEFINE chosen == CHOOSE g : IsEscaped(g, text)
<1>8. IsEscaped(chosen, text)
    BY <1>7
<1>9. Escaped(text) = chosen[n]
    BY Zenon DEF Escaped, IsEscaped
<1> HIDE DEF chosen
<1>10. \A i \in 0..n : chosen[i] = IF i = 0 THEN base ELSE chosen[i - 1] \o EscapedElement(text[i])
    BY <1>8, Zenon DEF IsEscaped, EscapedElement, Quote, Backslash, base
<1>11. chosen[0] = f[0]
    <2>1. 0 \in 0..n
        BY <1>1
    <2>2. QED
        BY <1>6, <1>10, <2>1
<1>12. ASSUME NEW i \in 1..n, chosen[i - 1] = f[i - 1] PROVE chosen[i] = f[i]
    <2>1. i \in 0..n /\ i # 0
        BY <1>1
    <2>2. chosen[i] = chosen[i - 1] \o EscapedElement(text[i])
        BY <1>10, <2>1
    <2>3. QED
        BY <1>5, <1>12, <2>2
<1>13. chosen[n] = f[n]
    BY <1>1, <1>11, <1>12, Loops!RecursionAgrees
<1>14. QED
    BY <1>5, <1>6, <1>9, <1>13 DEF V, base

LEMMA EscapedType ==
    ASSUME NEW E, Backslash \in E, NEW text \in Seq(E)
    PROVE  Escaped(text) \in Seq(E)
<1>1. PICK f \in [0..Len(text) -> Seq(E)] : Escaped(text) = f[Len(text)]
    BY EscapedDefined
<1>2. Len(text) \in 0..Len(text)
    OBVIOUS
<1>3. QED
    BY <1>1, <1>2

\* In quotes the text is kept as it is, whatever it holds.
LEMMA EscapedSplit ==
    ASSUME NEW E, Backslash \in E, NEW text \in Seq(E), NEW sep, sep # "unescape",
           NEW result, NEW current \in Seq(E)
    PROVE  Runs(sep, SplitState(result, current, TRUE, FALSE), Escaped(text),
                SplitState(result, current \o Escaped(text), TRUE, FALSE))
<1> DEFINE n == Len(text)
<1>1. n \in Nat /\ \A i \in 1..n : text[i] \in E
    OBVIOUS
<1>2. PICK f \in [0..n -> Seq(E)] :
          /\ f[0] = << >>
          /\ \A i \in 1..n : f[i] = f[i - 1] \o EscapedElement(text[i])
          /\ Escaped(text) = f[n]
    BY EscapedDefined
<1> DEFINE a == SplitState(result, current, TRUE, FALSE)
<1> DEFINE b(s) == SplitState(result, current \o s, TRUE, FALSE)
<1> DEFINE T == {i \in 0..n : Runs(sep, a, f[i], b(f[i]))}
<1> HIDE DEF n
<1>3. 0 \in T
    <2>1. current \o << >> = current
        BY ConcatEmpty
    <2>2. Runs(sep, a, << >>, a)
        BY RunsEmpty
    <2>3. 0 \in 0..n
        BY <1>1
    <2>4. QED
        BY <1>2, <2>1, <2>2, <2>3
<1>4. ASSUME NEW i \in T, i \in 0..(n - 1) PROVE i + 1 \in T
    <2>1. i + 1 \in 1..n /\ (i + 1) - 1 = i /\ i + 1 \in 0..n /\ i \in 0..n
        BY <1>1, <1>4
    <2> DEFINE e == EscapedElement(text[i + 1])
    <2>2. e \in Seq(E)
        BY <1>1, <2>1, ElementType
    <2>3. f[i] \in Seq(E) /\ f[i + 1] = f[i] \o e
        BY <1>2, <2>1
    <2>4. current \o f[i] \in Seq(E)
        BY <2>3, ConcatType
    <2>5. Runs(sep, b(f[i]), e, SplitState(result, (current \o f[i]) \o e, TRUE, FALSE))
        BY <1>1, <2>1, <2>4, ElementSplit
    <2>6. (current \o f[i]) \o e = current \o f[i + 1]
        <3> DEFINE g == f[i]
        <3>1. g \in Seq(E)
            BY <2>3
        <3>2. f[i + 1] = g \o e
            BY <2>3
        <3> HIDE DEF e, g
        <3>3. (current \o g) \o e = current \o (g \o e)
            BY <2>2, <3>1, ConcatAssoc
        <3>4. (current \o g) \o e = current \o f[i + 1]
            BY <3>2, <3>3
        <3>5. QED
            BY <3>4 DEF g
    <2>7. Runs(sep, a, f[i], b(f[i])) /\ Runs(sep, b(f[i]), e, b(f[i + 1]))
        BY <2>5, <2>6
    <2> HIDE DEF a, b, e
    <2>8. Runs(sep, a, f[i] \o e, b(f[i + 1]))
        BY <2>2, <2>3, <2>7, RunsConcat
    <2>9. QED
        BY <2>1, <2>3, <2>8
<1> HIDE DEF T
<1>5. n \in T
    BY <1>1, <1>3, <1>4, Loops!SetInduction
<1>6. QED
    BY <1>2, <1>5 DEF T

\* What was escaped is read as it was.
LEMMA EscapedUnescape ==
    ASSUME NEW E, Backslash \in E, NEW text \in Seq(E)
    PROVE  unescapeQuoted(Escaped(text)) = {text}
<1> DEFINE n == Len(text)
<1>1. n \in Nat /\ \A i \in 1..n : text[i] \in E
    OBVIOUS
<1>2. PICK f \in [0..n -> Seq(E)] :
          /\ f[0] = << >>
          /\ \A i \in 1..n : f[i] = f[i - 1] \o EscapedElement(text[i])
          /\ Escaped(text) = f[n]
    BY EscapedDefined
<1> DEFINE b(i) == UnescapeState(SubSeq(text, 1, i), FALSE)
<1> DEFINE T == {i \in 0..n : Runs("unescape", UnescapeStart, f[i], b(i))}
<1>3. \A i \in 1..n : SubSeq(text, 1, i) = Append(SubSeq(text, 1, i - 1), text[i])
    OBVIOUS
<1>4. SubSeq(text, 1, 0) = << >> /\ SubSeq(text, 1, n) = text
    OBVIOUS
<1> HIDE DEF n
<1>5. 0 \in T
    <2>1. Runs("unescape", UnescapeStart, << >>, UnescapeStart)
        BY RunsEmpty
    <2>2. 0 \in 0..n
        BY <1>1
    <2>3. QED
        BY <1>2, <1>4, <2>1, <2>2 DEF UnescapeStart
<1>6. ASSUME NEW i \in T, i \in 0..(n - 1) PROVE i + 1 \in T
    <2>1. i + 1 \in 1..n /\ (i + 1) - 1 = i /\ i + 1 \in 0..n /\ i \in 0..n
        BY <1>1, <1>6
    <2> DEFINE e == EscapedElement(text[i + 1])
    <2>2. e \in Seq(E)
        BY <1>1, <2>1, ElementType
    <2>3. f[i] \in Seq(E) /\ f[i + 1] = f[i] \o e
        BY <1>2, <2>1
    <2>4. Runs("unescape", b(i), e, UnescapeState(Append(SubSeq(text, 1, i), text[i + 1]), FALSE))
        BY <1>1, <2>1, ElementUnescape
    <2>5. Append(SubSeq(text, 1, i), text[i + 1]) = SubSeq(text, 1, i + 1)
        BY <1>3, <2>1
    <2>6. Runs("unescape", UnescapeStart, f[i], b(i)) /\ Runs("unescape", b(i), e, b(i + 1))
        BY <2>4, <2>5
    <2> HIDE DEF b, e
    <2>7. Runs("unescape", UnescapeStart, f[i] \o e, b(i + 1))
        BY <2>2, <2>3, <2>6, RunsConcat
    <2>8. QED
        BY <2>1, <2>3, <2>7
<1> HIDE DEF T
<1>7. n \in T
    BY <1>1, <1>5, <1>6, Loops!SetInduction
<1>8. Runs("unescape", UnescapeStart, Escaped(text), UnescapeState(text, FALSE))
    BY <1>2, <1>4, <1>7 DEF T
<1>9. Len(Escaped(text)) \in Nat
    BY EscapedType
<1>10. QED
    BY <1>8, <1>9, UnescapeRuns

-----------------------------------------------------------------------------
(* Fields and entries. *)

\* Reading s splits nothing; it begins in quotes or not as p says, and ends so
\* as q says.
Keeps(E, sep, s, p, q) ==
    \A result : \A current \in Seq(E) :
        Runs(sep, SplitState(result, current, p, FALSE), s,
             SplitState(result, current \o s, q, FALSE))

LEMMA KeepsConcat ==
    ASSUME NEW E, NEW sep, NEW s \in Seq(E), NEW t \in Seq(E), NEW p, NEW q, NEW r,
           Keeps(E, sep, s, p, q), Keeps(E, sep, t, q, r)
    PROVE  Keeps(E, sep, s \o t, p, r)
<1> SUFFICES ASSUME NEW result, NEW current \in Seq(E)
             PROVE  Runs(sep, SplitState(result, current, p, FALSE), s \o t,
                         SplitState(result, current \o (s \o t), r, FALSE))
    BY DEF Keeps
<1> DEFINE a == SplitState(result, current, p, FALSE)
<1> DEFINE b == SplitState(result, current \o s, q, FALSE)
<1> DEFINE c == SplitState(result, (current \o s) \o t, r, FALSE)
<1>1. current \o s \in Seq(E)
    BY ConcatType
<1>2. Runs(sep, a, s, b)
    BY DEF Keeps
<1>3. Runs(sep, b, t, c)
    BY <1>1 DEF Keeps
<1>4. (current \o s) \o t = current \o (s \o t)
    BY ConcatAssoc
<1> HIDE DEF a, b, c
<1>5. Runs(sep, a, s \o t, c)
    BY <1>2, <1>3, RunsConcat
<1>6. QED
    BY <1>4, <1>5 DEF a, c

LEMMA KeepsOne ==
    ASSUME NEW E, NEW sep, sep # "unescape", NEW e \in E, e \notin {Quote, Backslash, sep}
    PROVE  Keeps(E, sep, <<e>>, FALSE, FALSE)
<1> SUFFICES ASSUME NEW result, NEW current \in Seq(E)
             PROVE  Runs(sep, SplitState(result, current, FALSE, FALSE), <<e>>,
                         SplitState(result, current \o <<e>>, FALSE, FALSE))
    BY DEF Keeps
<1> DEFINE a == SplitState(result, current, FALSE, FALSE)
<1>1. Rune(sep, a, e) = SplitState(result, Append(current, e), FALSE, FALSE)
    BY DEF Rune, splitRune, SplitState, Quote, Backslash
<1>2. Append(current, e) = current \o <<e>>
    BY AppendConcat
<1>3. Runs(sep, a, <<e>>, Rune(sep, a, e))
    BY RunsOne
<1>4. QED
    BY <1>1, <1>2, <1>3

LEMMA KeepsQuote ==
    ASSUME NEW E, NEW sep, sep # "unescape", Quote \in E
    PROVE  /\ Keeps(E, sep, <<Quote>>, FALSE, TRUE)
           /\ Keeps(E, sep, <<Quote>>, TRUE, FALSE)
<1>1. ASSUME NEW result, NEW current \in Seq(E)
      PROVE  /\ Runs(sep, SplitState(result, current, FALSE, FALSE), <<Quote>>,
                     SplitState(result, current \o <<Quote>>, TRUE, FALSE))
             /\ Runs(sep, SplitState(result, current, TRUE, FALSE), <<Quote>>,
                     SplitState(result, current \o <<Quote>>, FALSE, FALSE))
    <2> DEFINE a == SplitState(result, current, FALSE, FALSE)
    <2> DEFINE b == SplitState(result, current, TRUE, FALSE)
    <2>1. Rune(sep, a, Quote) = SplitState(result, Append(current, Quote), TRUE, FALSE)
        BY DEF Rune, splitRune, SplitState, Quote
    <2>2. Rune(sep, b, Quote) = SplitState(result, Append(current, Quote), FALSE, FALSE)
        BY DEF Rune, splitRune, SplitState, Quote
    <2>3. Append(current, Quote) = current \o <<Quote>>
        BY AppendConcat
    <2>4. Runs(sep, a, <<Quote>>, Rune(sep, a, Quote))
        BY RunsOne
    <2>5. Runs(sep, b, <<Quote>>, Rune(sep, b, Quote))
        BY RunsOne
    <2>6. QED
        BY <2>1, <2>2, <2>3, <2>4, <2>5
<1>2. QED
    BY <1>1 DEF Keeps

\* The elements of headers.
IsAlphabet(E) == {Quote, Backslash, ";", "="} \subseteq E

\* Any text in quotes, or one word without.
QuotedField(E, field) ==
    field.quoted = TRUE /\ field.name \in E \ Special /\ field.text \in Seq(E)

PlainField(E, field) ==
    /\ field.quoted = FALSE /\ field.name \in E \ Special
    /\ \E word \in E \ Special : field.text = <<word>>

\* The parts of a field in quotes.
LEMMA QuotedParts ==
    ASSUME NEW E, IsAlphabet(E), NEW field, QuotedField(E, field)
    PROVE  /\ Written(field) \in Seq(E)
           /\ Written(field) =
                ((<<field.name>> \o <<"=">>) \o <<Quote>>) \o Escaped(field.text) \o <<Quote>>
<1> DEFINE name == field.name
<1> DEFINE text == Escaped(field.text)
<1>1. name \in E /\ "=" \in E /\ Quote \in E
    BY DEF QuotedField, IsAlphabet
<1>2. text \in Seq(E)
    BY EscapedType DEF QuotedField, IsAlphabet
<1>3. <<name, "=", Quote>> = (<<name>> \o <<"=">>) \o <<Quote>>
    BY <1>1, TripleConcat
<1>4. <<name>> \in Seq(E) /\ <<"=">> \in Seq(E) /\ <<Quote>> \in Seq(E)
    BY <1>1, OneType
<1>5. (<<name>> \o <<"=">>) \o <<Quote>> \in Seq(E)
    BY <1>4, ConcatType
<1> HIDE DEF text
<1>6. (<<name>> \o <<"=">>) \o <<Quote>> \o text \o <<Quote>> \in Seq(E)
    BY <1>2, <1>4, <1>5, ConcatType
<1>7. QED
    BY <1>3, <1>6 DEF Written, Quote, text, QuotedField

\* It is read as one part.
LEMMA QuotedKept ==
    ASSUME NEW E, IsAlphabet(E), NEW field, QuotedField(E, field), NEW sep \in {",", ";"}
    PROVE  Keeps(E, sep, Written(field), FALSE, FALSE)
<1> DEFINE name == field.name
<1> DEFINE text == Escaped(field.text)
<1>1. name \in E /\ "=" \in E /\ Quote \in E /\ Backslash \in E /\ field.text \in Seq(E)
    BY DEF QuotedField, IsAlphabet
<1>2. text \in Seq(E)
    BY <1>1, EscapedType
<1>3. <<name>> \in Seq(E) /\ <<"=">> \in Seq(E) /\ <<Quote>> \in Seq(E)
    BY <1>1, OneType
<1>4. sep # "unescape" /\ name \notin {Quote, Backslash, sep} /\ "=" \notin {Quote, Backslash, sep}
    BY DEF QuotedField, Special, Quote, Backslash
<1>5. Keeps(E, sep, <<name>>, FALSE, FALSE)
    BY <1>1, <1>4, KeepsOne
<1>6. Keeps(E, sep, <<"=">>, FALSE, FALSE)
    BY <1>1, <1>4, KeepsOne
<1>7. Keeps(E, sep, <<Quote>>, FALSE, TRUE) /\ Keeps(E, sep, <<Quote>>, TRUE, FALSE)
    BY <1>1, <1>4, KeepsQuote
<1>8. Keeps(E, sep, text, TRUE, TRUE)
    BY <1>1, <1>4, EscapedSplit DEF Keeps
<1> HIDE DEF text
<1> DEFINE u == <<name>> \o <<"=">>
<1> DEFINE v == u \o <<Quote>>
<1> DEFINE w == v \o text
<1>9. u \in Seq(E) /\ Keeps(E, sep, u, FALSE, FALSE)
    BY <1>3, <1>5, <1>6, ConcatType, KeepsConcat
<1> HIDE DEF u
<1>10. v \in Seq(E) /\ Keeps(E, sep, v, FALSE, TRUE)
    BY <1>3, <1>7, <1>9, ConcatType, KeepsConcat
<1> HIDE DEF v
<1>11. w \in Seq(E) /\ Keeps(E, sep, w, FALSE, TRUE)
    BY <1>2, <1>8, <1>10, ConcatType, KeepsConcat
<1> HIDE DEF w
<1>12. Keeps(E, sep, w \o <<Quote>>, FALSE, FALSE)
    BY <1>3, <1>7, <1>11, KeepsConcat
<1>13. Written(field) = w \o <<Quote>>
    BY QuotedParts DEF u, v, w, text
<1>14. QED
    BY <1>12, <1>13
-----------------------------------------------------------------------------
(* A field as it is read. *)

LEMMA MinIs ==
    ASSUME NEW I \in SUBSET Int, NEW x \in I, \A y \in I : x <= y
    PROVE  Min(I) = x
<1> DEFINE m == Min(I)
<1>1. m \in I /\ \A y \in I : m <= y
    BY DEF Min
<1> HIDE DEF m
<1>2. m \in Int /\ x \in Int /\ m <= x /\ x <= m
    BY <1>1
<1>3. m = x
    BY <1>2
<1>4. QED
    BY <1>3 DEF m

LEMMA MaxIs ==
    ASSUME NEW I \in SUBSET Int, NEW x \in I, \A y \in I : x >= y
    PROVE  Max(I) = x
<1> DEFINE m == Max(I)
<1>1. m \in I /\ \A y \in I : m >= y
    BY DEF Max
<1> HIDE DEF m
<1>2. m \in Int /\ x \in Int /\ m >= x /\ x >= m
    BY <1>1
<1>3. m = x
    BY <1>2
<1>4. QED
    BY <1>3 DEF m

LEMMA TrimKept ==
    ASSUME NEW E, NEW s \in Seq(E), Len(s) >= 1, s[1] # Space, s[Len(s)] # Space
    PROVE  TrimSpace(s) = s
<1> DEFINE n == Len(s)
<1> DEFINE I == {i \in 1..n : s[i] # Space}
<1>1. n \in Nat /\ n >= 1
    OBVIOUS
<1>2. I \in SUBSET Int /\ 1 \in I /\ n \in I /\ I # {}
    BY <1>1
<1>3. (\A y \in I : 1 <= y) /\ (\A y \in I : n >= y)
    BY <1>1
<1>4. TrimSpace(s) = LET first == IF I # {} THEN Min(I) ELSE 0
                     IN  IF first = 0 THEN << >>
                         ELSE SubSeq(s, first, IF I # {} THEN Max(I) ELSE 0)
    BY DEF TrimSpace, SelectInSeq, SelectLastInSeq
<1> HIDE DEF I
<1>5. Min(I) = 1
    BY <1>2, <1>3, MinIs
<1>6. Max(I) = n
    BY <1>2, <1>3, MaxIs
<1>7. TrimSpace(s) = SubSeq(s, 1, n)
    BY <1>2, <1>4, <1>5, <1>6
<1>8. SubSeq(s, 1, n) = s
    OBVIOUS
<1>9. QED
    BY <1>7, <1>8

\* Its elements, by position.
LEMMA QuotedShape ==
    ASSUME NEW E, IsAlphabet(E), NEW field, QuotedField(E, field)
    PROVE  LET w == Written(field)
               e == Escaped(field.text)
           IN  /\ w \in Seq(E) /\ e \in Seq(E)
               /\ Len(w) = Len(e) + 4
               /\ w[1] = field.name /\ w[2] = "=" /\ w[3] = Quote
               /\ \A i \in 1..Len(e) : w[i + 3] = e[i]
               /\ w[Len(e) + 4] = Quote
<1> DEFINE w == Written(field)
<1> DEFINE e == Escaped(field.text)
<1> DEFINE head == <<field.name, "=", Quote>>
<1> DEFINE body == head \o e
<1>1. w \in Seq(E)
    BY QuotedParts
<1>2. e \in Seq(E)
    BY EscapedType DEF QuotedField, IsAlphabet
<1>3. field.name \in E /\ "=" \in E /\ Quote \in E
    BY DEF QuotedField, IsAlphabet
<1>4. head \in Seq(E)
    BY <1>3
<1>5. Len(head) = 3 /\ head[1] = field.name /\ head[2] = "=" /\ head[3] = Quote
    BY <1>3
<1>6. w = body \o <<Quote>>
    BY DEF Written, Quote, QuotedField
<1> HIDE DEF w, e, head
<1>7. body \in Seq(E) /\ Len(body) = Len(head) + Len(e)
    BY <1>2, <1>4, ConcatType
<1>8. \A i \in 1..Len(head) : body[i] = head[i]
    BY <1>2, <1>4, ConcatElements
<1>9. \A i \in 1..Len(e) : body[Len(head) + i] = e[i]
    BY <1>2, <1>4, ConcatElements
<1> HIDE DEF body
<1>10. Len(e) \in Nat
    BY <1>2
<1>11. body \in Seq(E)
    BY <1>7
<1>12. Append(body, Quote) = body \o <<Quote>>
    BY <1>3, <1>11, AppendConcat
<1>13. w = Append(body, Quote)
    BY <1>6, <1>12
<1>14. /\ Len(w) = Len(body) + 1
       /\ \A i \in 1..Len(body) : w[i] = body[i]
       /\ w[Len(body) + 1] = Quote
    BY <1>3, <1>11, <1>13, AppendType
<1>15. Len(body) = Len(e) + 3 /\ Len(w) = Len(e) + 4
    BY <1>5, <1>7, <1>10, <1>14
<1>16. w[Len(e) + 4] = Quote
    BY <1>10, <1>14, <1>15
<1>17. w[1] = field.name /\ w[2] = "=" /\ w[3] = Quote
    <2>1. 1 \in 1..Len(body) /\ 2 \in 1..Len(body) /\ 3 \in 1..Len(body)
        BY <1>10, <1>15
    <2>2. 1 \in 1..Len(head) /\ 2 \in 1..Len(head) /\ 3 \in 1..Len(head)
        BY <1>5
    <2>3. w[1] = head[1] /\ w[2] = head[2] /\ w[3] = head[3]
        BY <1>8, <1>14, <2>1, <2>2
    <2>4. QED
        BY <1>5, <2>3
<1>18. ASSUME NEW i \in 1..Len(e) PROVE w[i + 3] = e[i]
    <2>1. i + 3 \in 1..Len(body) /\ Len(head) + i = i + 3
        BY <1>5, <1>10, <1>15
    <2>2. QED
        BY <1>9, <1>14, <2>1
<1>19. QED
    BY <1>1, <1>2, <1>15, <1>16, <1>17, <1>18 DEF w, e

\* It is read with the name and the text it was written with.
LEMMA QuotedRead ==
    ASSUME NEW E, IsAlphabet(E), NEW field, QuotedField(E, field)
    PROVE  /\ TrimSpace(Written(field)) = Written(field)
           /\ Written(field) # << >>
           /\ Cut(Written(field)) = 2
           /\ Key(Written(field)) = <<field.name>>
           /\ Value(Written(field)) = {field.text}
<1> DEFINE w == Written(field)
<1> DEFINE e == Escaped(field.text)
<1> DEFINE m == Len(e)
<1>1. /\ w \in Seq(E) /\ e \in Seq(E)
      /\ Len(w) = m + 4
      /\ w[1] = field.name /\ w[2] = "=" /\ w[3] = Quote
      /\ \A i \in 1..m : w[i + 3] = e[i]
      /\ w[m + 4] = Quote
    BY QuotedShape
<1>2. field.name \in E \ Special /\ Quote \in E /\ Quote # Space
    BY DEF QuotedField, IsAlphabet, Quote, Space
<1>3. field.name # Space /\ field.name # "="
    BY <1>2 DEF Special
<1>4. unescapeQuoted(e) = {field.text}
    BY EscapedUnescape DEF QuotedField, IsAlphabet
<1> HIDE DEF w, e
<1>5. m \in Nat
    BY <1>1
<1>6. w \in Seq(E) /\ Len(w) >= 1 /\ w[1] # Space /\ w[Len(w)] # Space
    BY <1>1, <1>2, <1>3, <1>5
<1>7. TrimSpace(w) = w
    BY <1>6, TrimKept
<1>8. w # << >>
    BY <1>6
<1>9. Cut(w) = 2
    <2> DEFINE I == {i \in 1..Len(w) : w[i] = "="}
    <2>1. Cut(w) = IF I # {} THEN Min(I) ELSE 0
        BY DEF Cut, SelectInSeq
    <2>2. I \in SUBSET Int /\ 2 \in I
        BY <1>1, <1>5
    <2>3. 1 \notin I
        BY <1>1, <1>3
    <2>4. ASSUME NEW y \in I PROVE 2 <= y
        BY <1>1, <1>5, <2>3
    <2> HIDE DEF I
    <2>5. Min(I) = 2
        BY <2>2, <2>4, MinIs
    <2>6. QED
        BY <2>1, <2>2, <2>5
<1>10. Key(w) = <<field.name>>
    <2> DEFINE s == <<field.name>>
    <2> DEFINE t == SubSeq(w, 1, 1)
    <2>2. s \in Seq(E) /\ Len(s) >= 1 /\ s[1] # Space /\ s[Len(s)] # Space
        BY <1>2, <1>3
    <2>1. s = t
        <3>1. s \in Seq(E) /\ Len(s) = 1 /\ s[1] = field.name
            BY <1>2, OneType
        <3>2. t \in Seq(E) /\ Len(t) = 1 /\ t[1] = field.name
            BY <1>1, <1>5
        <3> HIDE DEF s, t
        <3>3. \A i \in 1..Len(s) : s[i] = t[i]
            BY <3>1, <3>2
        <3>4. QED
            BY <3>1, <3>2, <3>3, Loops!SameSeq
    <2> HIDE DEF s
    <2>3. TrimSpace(s) = s
        BY <2>2, TrimKept
    <2>4. Cut(w) - 1 = 1
        BY <1>9
    <2>5. QED
        BY <2>1, <2>3, <2>4 DEF Key, s, t
<1>11. Value(w) = {field.text}
    <2> DEFINE v == SubSeq(w, 3, Len(w))
    <2>1. v \in Seq(E) /\ Len(v) = m + 2 /\ v[1] = Quote
        BY <1>1, <1>5
    <2>2. v[m + 2] = Quote
        BY <1>1, <1>5
    <2>3. ASSUME NEW i \in 1..m PROVE v[i + 1] = e[i]
        BY <1>1, <1>5
    <2>4. Cut(w) + 1 = 3
        BY <1>9
    <2> HIDE DEF v
    <2>5. v \in Seq(E) /\ Len(v) >= 1 /\ v[1] # Space /\ v[Len(v)] # Space
        BY <1>2, <1>5, <2>1, <2>2
    <2>6. TrimSpace(v) = v
        BY <2>5, TrimKept
    <2>7. Len(v) >= 2 /\ v[1] = Quote /\ v[Len(v)] = Quote
        BY <1>5, <2>1, <2>2
    <2> DEFINE u == SubSeq(v, 2, Len(v) - 1)
    <2>8. u \in Seq(E) /\ Len(u) = m
        BY <1>5, <2>1
    <2>9. ASSUME NEW i \in 1..m PROVE u[i] = e[i]
        <3>1. u[i] = v[i + 1]
            BY <1>5, <2>1
        <3>2. QED
            BY <2>3, <3>1
    <2> HIDE DEF u
    <2>10. u = e
        BY <1>1, <2>8, <2>9, Loops!SameSeq
    <2>11. unquoteXFCCValue(v) = unescapeQuoted(u)
        BY <2>7 DEF unquoteXFCCValue, u, Quote
    <2>12. Value(w) = unquoteXFCCValue(v)
        BY <2>4, <2>6 DEF Value, v
    <2>13. QED
        BY <1>4, <2>10, <2>11, <2>12
<1>12. QED
    BY <1>7, <1>8, <1>9, <1>10, <1>11 DEF w
\* Text that begins and ends with something other than space.
Tight(E, s) == s \in Seq(E) /\ Len(s) >= 1 /\ s[1] # Space /\ s[Len(s)] # Space

LEMMA TightConcat ==
    ASSUME NEW E, NEW s, NEW t, Tight(E, s), Tight(E, t)
    PROVE  Tight(E, s \o t)
<1>1. s \in Seq(E) /\ t \in Seq(E) /\ Len(s) >= 1 /\ Len(t) >= 1
    BY DEF Tight
<1>2. Len(s) \in Nat /\ Len(t) \in Nat
    BY <1>1
<1>3. s \o t \in Seq(E) /\ Len(s \o t) = Len(s) + Len(t)
    BY <1>1, ConcatType
<1>4. 1 \in 1..Len(s) /\ Len(t) \in 1..Len(t)
    BY <1>1, <1>2
<1>5. (s \o t)[1] = s[1] /\ (s \o t)[Len(s) + Len(t)] = t[Len(t)]
    BY <1>1, <1>4, ConcatElements
<1>6. QED
    BY <1>1, <1>2, <1>3, <1>5 DEF Tight

LEMMA TightOne ==
    ASSUME NEW E, NEW e \in E, e # Space
    PROVE  Tight(E, <<e>>)
<1>1. <<e>> \in Seq(E) /\ Len(<<e>>) = 1 /\ <<e>>[1] = e
    BY OneType
<1>2. QED
    BY <1>1 DEF Tight

LEMMA TightTrim ==
    ASSUME NEW E, NEW s, Tight(E, s)
    PROVE  TrimSpace(s) = s
    BY TrimKept DEF Tight

LEMMA QuotedTight ==
    ASSUME NEW E, IsAlphabet(E), NEW field, QuotedField(E, field)
    PROVE  Tight(E, Written(field))
<1> DEFINE w == Written(field)
<1> DEFINE m == Len(Escaped(field.text))
<1>1. w \in Seq(E) /\ Escaped(field.text) \in Seq(E)
    BY QuotedShape
<1>2. Len(w) = m + 4 /\ w[1] = field.name /\ w[m + 4] = Quote
    BY QuotedShape
<1>3. m \in Nat
    BY <1>1
<1>4. field.name # Space
    BY DEF QuotedField, Special
<1>5. Quote # Space
    BY DEF Quote, Space
<1> HIDE DEF w, m
<1>6. Tight(E, w)
    BY <1>1, <1>2, <1>3, <1>4, <1>5 DEF Tight
<1>7. QED
    BY <1>6 DEF w

\* A field without quotes.
LEMMA PlainShape ==
    ASSUME NEW E, IsAlphabet(E), NEW field, PlainField(E, field)
    PROVE  \E word \in E \ Special :
              /\ field.text = <<word>>
              /\ Written(field) = (<<field.name>> \o <<"=">>) \o <<word>>
              /\ Written(field) = <<field.name, "=", word>>
<1>1. PICK word \in E \ Special : field.text = <<word>>
    BY DEF PlainField
<1>2. field.name \in E /\ "=" \in E /\ ~field.quoted /\ word \in E
    BY DEF PlainField, IsAlphabet
<1>3. <<field.name>> \o <<"=">> = <<field.name, "=">>
    BY <1>2, PairConcat
<1>4. (<<field.name>> \o <<"=">>) \o <<word>> = <<field.name, "=", word>>
    BY <1>2, TripleConcat
<1>5. Written(field) = <<field.name, "=">> \o <<word>>
    BY <1>1, <1>2 DEF Written
<1>6. QED
    BY <1>1, <1>3, <1>4, <1>5

LEMMA PlainKept ==
    ASSUME NEW E, IsAlphabet(E), NEW field, PlainField(E, field)
    PROVE  /\ Written(field) \in Seq(E)
           /\ Tight(E, Written(field))
           /\ \A sep \in {",", ";"} : Keeps(E, sep, Written(field), FALSE, FALSE)
<1> DEFINE name == field.name
<1>1. PICK word \in E \ Special : Written(field) = (<<name>> \o <<"=">>) \o <<word>>
    BY PlainShape
<1>2. name \in E /\ "=" \in E /\ word \in E
    BY DEF PlainField, IsAlphabet
<1>3. name # Space /\ word # Space
    BY DEF PlainField, Special
<1>4. "=" # Space
    BY DEF Space
<1>5. Tight(E, <<name>>) /\ Tight(E, <<"=">>) /\ Tight(E, <<word>>)
    BY <1>2, <1>3, <1>4, TightOne
<1>6. Tight(E, <<name>> \o <<"=">>)
    BY <1>5, TightConcat
<1>7. Tight(E, (<<name>> \o <<"=">>) \o <<word>>)
    BY <1>5, <1>6, TightConcat
<1>8. ASSUME NEW sep \in {",", ";"} PROVE Keeps(E, sep, Written(field), FALSE, FALSE)
    <2>1. /\ sep # "unescape" /\ "=" \notin {Quote, Backslash, sep}
          /\ name \notin {Quote, Backslash, sep} /\ word \notin {Quote, Backslash, sep}
        BY DEF PlainField, Special, Quote, Backslash
    <2>2. Keeps(E, sep, <<name>>, FALSE, FALSE)
        BY <1>2, <2>1, KeepsOne
    <2>3. Keeps(E, sep, <<"=">>, FALSE, FALSE)
        BY <1>2, <2>1, KeepsOne
    <2>4. Keeps(E, sep, <<word>>, FALSE, FALSE)
        BY <1>2, <2>1, KeepsOne
    <2>5. <<name>> \in Seq(E) /\ <<"=">> \in Seq(E) /\ <<word>> \in Seq(E)
        BY <1>5 DEF Tight
    <2>6. Keeps(E, sep, <<name>> \o <<"=">>, FALSE, FALSE)
        BY <2>2, <2>3, <2>5, KeepsConcat
    <2>7. <<name>> \o <<"=">> \in Seq(E)
        BY <1>6 DEF Tight
    <2>8. Keeps(E, sep, (<<name>> \o <<"=">>) \o <<word>>, FALSE, FALSE)
        BY <2>4, <2>5, <2>6, <2>7, KeepsConcat
    <2>9. QED
        BY <1>1, <2>8
<1>9. QED
    BY <1>1, <1>7, <1>8 DEF Tight

LEMMA PlainRead ==
    ASSUME NEW E, IsAlphabet(E), NEW field, PlainField(E, field)
    PROVE  /\ Written(field) # << >>
           /\ Cut(Written(field)) = 2
           /\ Key(Written(field)) = <<field.name>>
           /\ Value(Written(field)) = {field.text}
<1> DEFINE w == Written(field)
<1>1. PICK word \in E \ Special : field.text = <<word>> /\ w = <<field.name, "=", word>>
    BY PlainShape
<1>2. w \in Seq(E)
    BY PlainKept
<1>3. Len(w) = 3 /\ w[1] = field.name /\ w[2] = "=" /\ w[3] = word
    BY <1>1
<1>4. field.name \in E /\ field.name # Space /\ field.name # "="
    BY DEF PlainField, Special
<1>5. word \in E /\ word # Space
    BY DEF Special
<1> HIDE DEF w
<1>6. w # << >>
    BY <1>3
<1>7. Cut(w) = 2
    <2> DEFINE I == {i \in 1..Len(w) : w[i] = "="}
    <2>1. Cut(w) = IF I # {} THEN Min(I) ELSE 0
        BY DEF Cut, SelectInSeq
    <2>2. I \in SUBSET Int /\ 2 \in I
        BY <1>3
    <2>3. 1 \notin I
        BY <1>3, <1>4
    <2>4. ASSUME NEW y \in I PROVE 2 <= y
        BY <1>3, <2>3
    <2> HIDE DEF I
    <2>5. Min(I) = 2
        BY <2>2, <2>4, MinIs
    <2>6. QED
        BY <2>1, <2>2, <2>5
<1>8. ASSUME NEW i \in {1, 3}
      PROVE  SubSeq(w, i, i) = <<w[i]>> /\ TrimSpace(<<w[i]>>) = <<w[i]>>
    <2> DEFINE s == <<w[i]>>
    <2> DEFINE t == SubSeq(w, i, i)
    <2>1. w[i] \in E /\ w[i] # Space
        BY <1>3, <1>4, <1>5
    <2>2. s \in Seq(E) /\ Len(s) = 1 /\ s[1] = w[i]
        BY <2>1, OneType
    <2>3. t \in Seq(E) /\ Len(t) = 1 /\ t[1] = w[i]
        BY <1>2, <1>3
    <2>4. TrimSpace(s) = s
        BY <2>1, TightOne, TightTrim
    <2> HIDE DEF s, t
    <2>5. \A j \in 1..Len(s) : s[j] = t[j]
        BY <2>2, <2>3
    <2>6. s = t
        BY <2>2, <2>3, <2>5, Loops!SameSeq
    <2>7. QED
        BY <2>4, <2>6 DEF s, t
<1>9. Key(w) = <<field.name>>
    <2>1. Cut(w) - 1 = 1
        BY <1>7
    <2>2. SubSeq(w, 1, 1) = <<field.name>> /\ TrimSpace(<<field.name>>) = <<field.name>>
        BY <1>3, <1>8
    <2>3. QED
        BY <2>1, <2>2 DEF Key
<1>10. Value(w) = {field.text}
    <2>1. Cut(w) + 1 = 3 /\ Len(w) = 3
        BY <1>3, <1>7
    <2>2. SubSeq(w, 3, 3) = field.text /\ TrimSpace(field.text) = field.text
        BY <1>1, <1>3, <1>8
    <2>3. Len(field.text) = 1
        BY <1>1
    <2>4. unquoteXFCCValue(field.text) = {field.text}
        BY <2>3 DEF unquoteXFCCValue
    <2>5. QED
        BY <2>1, <2>2, <2>4 DEF Value
<1>11. QED
    BY <1>6, <1>7, <1>9, <1>10 DEF w

-----------------------------------------------------------------------------
(* Any field: it is read as one part, with its name and its text. *)

IsField(E, field) == QuotedField(E, field) \/ PlainField(E, field)

LEMMA WrittenTight ==
    ASSUME NEW E, IsAlphabet(E), NEW field, IsField(E, field)
    PROVE  Tight(E, Written(field))
    BY QuotedTight, PlainKept DEF IsField

LEMMA WrittenParts ==
    ASSUME NEW E, IsAlphabet(E), NEW field, IsField(E, field)
    PROVE  Written(field) \in Seq(E)
    BY WrittenTight DEF Tight

LEMMA WrittenKept ==
    ASSUME NEW E, IsAlphabet(E), NEW field, IsField(E, field), NEW sep \in {",", ";"}
    PROVE  Keeps(E, sep, Written(field), FALSE, FALSE)
    BY QuotedKept, PlainKept DEF IsField

LEMMA WrittenRead ==
    ASSUME NEW E, IsAlphabet(E), NEW field, IsField(E, field)
    PROVE  /\ TrimSpace(Written(field)) = Written(field)
           /\ Written(field) # << >>
           /\ Cut(Written(field)) = 2
           /\ Key(Written(field)) = <<field.name>>
           /\ Value(Written(field)) = {field.text}
<1>1. TrimSpace(Written(field)) = Written(field)
    BY WrittenTight, TightTrim
<1>2. CASE QuotedField(E, field)
    BY <1>2, QuotedRead
<1>3. CASE PlainField(E, field)
    BY <1>1, <1>3, PlainRead
<1>4. QED
    BY <1>2, <1>3 DEF IsField

-----------------------------------------------------------------------------
(* Entries. *)

Fields(E) ==
    {field \in [name : E \ Special, text : Seq(E), quoted : BOOLEAN] :
        ~field.quoted => \E word \in E \ Special : field.text = <<word>>}

LEMMA FieldsAre ==
    ASSUME NEW E, NEW fields \in Seq(Fields(E)), NEW i \in 1..Len(fields)
    PROVE  IsField(E, fields[i])
<1>1. fields[i] \in Fields(E)
    OBVIOUS
<1>2. QED
    BY <1>1 DEF Fields, IsField, QuotedField, PlainField

\* The entry so far, and one more field.
Joined(i, s, field) == IF i = 1 THEN Written(field) ELSE s \o <<";">> \o Written(field)

IsEntry(f, fields) ==
    f = [i \in 0..Len(fields) |->
            IF i = 0 THEN << >>
            ELSE IF i = 1 THEN Written(fields[1])
            ELSE f[i - 1] \o <<";">> \o Written(fields[i])]

LEMMA EntryDefined ==
    ASSUME NEW E, IsAlphabet(E), NEW fields \in Seq(Fields(E))
    PROVE  \E f \in [0..Len(fields) -> Seq(E)] :
              /\ f[0] = << >>
              /\ \A i \in 1..Len(fields) : f[i] = Joined(i, f[i - 1], fields[i])
              /\ WrittenEntry(fields) = f[Len(fields)]
<1> DEFINE n == Len(fields)
<1> DEFINE V == Seq(E)
<1> DEFINE base == << >>
<1> DEFINE step == [i \in 1..n |-> [s \in V |-> Joined(i, s, fields[i])]]
<1>1. n \in Nat /\ \A i \in 1..n : IsField(E, fields[i])
    BY FieldsAre
<1>2. base \in V
    OBVIOUS
<1>3. step \in [1..n -> [V -> V]]
    <2>1. ASSUME NEW i \in 1..n, NEW s \in V PROVE Joined(i, s, fields[i]) \in V
        <3>1. Written(fields[i]) \in Seq(E)
            BY <1>1, WrittenParts
        <3>2. ";" \in E
            BY DEF IsAlphabet
        <3>3. <<";">> \in Seq(E)
            BY <3>2, OneType
        <3>4. s \o <<";">> \in Seq(E)
            BY <3>3, ConcatType
        <3>5. s \o <<";">> \o Written(fields[i]) \in Seq(E)
            BY <3>1, <3>4, ConcatType
        <3>6. QED
            BY <3>1, <3>5 DEF Joined
    <2> HIDE DEF V
    <2>2. QED
        BY <2>1
<1>4. PICK f \in [0..n -> V] : Loops!Recurs(f, base, step, n)
    <2> HIDE DEF step, V, base, n
    <2>1. n \in Nat
        BY <1>1
    <2>2. QED
        BY <1>2, <1>3, <2>1, Loops!Recursion
<1>5. ASSUME NEW i \in 1..n
      PROVE  f[i] = Joined(i, f[i - 1], fields[i])
    <2> HIDE DEF V
    <2>1. i - 1 \in 0..n
        BY <1>1
    <2>2. f[i - 1] \in V
        BY <2>1
    <2>3. QED
        BY <1>4, <2>2 DEF Loops!Recurs
<1> HIDE DEF step, V, base
<1>6. f[0] = base
    BY <1>4 DEF Loops!Recurs
<1> DEFINE next(g, i) == IF i = 0 THEN base
                         ELSE IF i = 1 THEN Written(fields[1])
                         ELSE g[i - 1] \o <<";">> \o Written(fields[i])
<1>7. IsEntry(f, fields)
    <2>1. f = [i \in 0..n |-> f[i]]
        OBVIOUS
    <2>2. ASSUME NEW i \in 0..n PROVE f[i] = next(f, i)
        <3>1. i = 0 \/ i \in 1..n
            BY <1>1
        <3>2. QED
            BY <1>5, <1>6, <3>1 DEF Joined
    <2> DEFINE h == [i \in 0..n |-> next(f, i)]
    <2> HIDE DEF next
    <2>3. f = h
        BY <2>1, <2>2
    <2>4. QED
        BY <2>3, Zenon DEF IsEntry, base, h, next
<1> DEFINE chosen == CHOOSE g : IsEntry(g, fields)
<1>8. IsEntry(chosen, fields)
    BY <1>7
<1>9. WrittenEntry(fields) = chosen[n]
    BY Zenon DEF WrittenEntry, IsEntry
<1> HIDE DEF chosen
<1>10. \A i \in 0..n : chosen[i] = next(chosen, i)
    BY <1>8, Zenon DEF IsEntry, base, next
<1>11. chosen[0] = f[0]
    <2>1. 0 \in 0..n
        BY <1>1
    <2>2. QED
        BY <1>6, <1>10, <2>1
<1>12. ASSUME NEW i \in 1..n, chosen[i - 1] = f[i - 1] PROVE chosen[i] = f[i]
    <2>1. i \in 0..n /\ i # 0
        BY <1>1
    <2>2. chosen[i] = Joined(i, chosen[i - 1], fields[i])
        BY <1>10, <2>1 DEF Joined
    <2>3. QED
        BY <1>5, <1>12, <2>2
<1>13. chosen[n] = f[n]
    BY <1>1, <1>11, <1>12, Loops!RecursionAgrees
<1>14. QED
    BY <1>5, <1>6, <1>9, <1>13 DEF V, base
LEMMA Successor ==
    ASSUME NEW n \in Nat, NEW i \in 0..(n - 1)
    PROVE  /\ i + 1 \in 1..n /\ (i + 1) - 1 = i /\ i + 1 \in 0..n /\ i \in 0..n
           /\ i # 0 => i + 1 # 1 /\ i \in 1..n
    OBVIOUS

\* An entry is read as one entry.
LEMMA EntryKept ==
    ASSUME NEW E, IsAlphabet(E), NEW fields \in Seq(Fields(E)), fields # << >>
    PROVE  /\ Tight(E, WrittenEntry(fields))
           /\ splitXFCCEntries(WrittenEntry(fields)) = {<<WrittenEntry(fields)>>}
<1> DEFINE n == Len(fields)
<1> DEFINE entry == WrittenEntry(fields)
<1>0. n \in Nat /\ n >= 1
    OBVIOUS
<1>1. \A i \in 1..n : IsField(E, fields[i])
    BY FieldsAre
<1>2. PICK f \in [0..n -> Seq(E)] :
          /\ f[0] = << >>
          /\ \A i \in 1..n : f[i] = Joined(i, f[i - 1], fields[i])
          /\ entry = f[n]
    BY EntryDefined
<1> DEFINE whole(s) == Tight(E, s) /\ Keeps(E, ",", s, FALSE, FALSE)
<1> DEFINE T == {i \in 0..n : i # 0 => whole(f[i])}
<1> HIDE DEF n, entry
<1>3. ASSUME NEW s, NEW t, whole(s), whole(t) PROVE whole(s \o t)
    <2>1. s \in Seq(E) /\ t \in Seq(E)
        BY <1>3 DEF Tight
    <2>2. QED
        BY <1>3, <2>1, TightConcat, KeepsConcat
<1>4. whole(<<";">>)
    <2>1. ";" \in E /\ "," # "unescape" /\ ";" \notin {Quote, Backslash, ","}
        BY DEF IsAlphabet, Quote, Backslash
    <2>2. ";" # Space
        BY DEF Space
    <2>3. QED
        BY <2>1, <2>2, TightOne, KeepsOne
<1>5. ASSUME NEW i \in 1..n PROVE whole(Written(fields[i]))
    BY <1>1, WrittenTight, WrittenKept
<1>6. 0 \in T
    BY <1>0
<1>7. ASSUME NEW i \in T, i \in 0..(n - 1) PROVE i + 1 \in T
    <2>1. i + 1 \in 1..n /\ (i + 1) - 1 = i /\ i + 1 \in 0..n /\ i \in 0..n
        BY <1>0, <1>7, Successor, Zenon
    <2>2. f[i + 1] = Joined(i + 1, f[i], fields[i + 1])
        BY <1>2, <2>1
    <2> DEFINE w == Written(fields[i + 1])
    <2>3. whole(w)
        BY <1>5, <2>1
    <2> HIDE DEF w, whole
    <2>4. CASE i = 0
        <3>1. f[i + 1] = w
            BY <2>2, <2>4 DEF Joined, w
        <3>2. QED
            BY <2>1, <2>3, <3>1
    <2>5. CASE i # 0
        <3>1. i + 1 # 1
            BY <2>1, <2>5
        <3>2. f[i + 1] = (f[i] \o <<";">>) \o w
            BY <2>2, <3>1 DEF Joined, w
        <3>3. whole(f[i])
            BY <2>5
        <3>4. whole(f[i] \o <<";">>)
            BY <1>3, <1>4, <3>3
        <3>5. whole(f[i + 1])
            BY <1>3, <2>3, <3>2, <3>4
        <3>6. QED
            BY <2>1, <3>5
    <2>6. QED
        BY <2>4, <2>5
<1> HIDE DEF T
<1>8. n \in T
    BY <1>0, <1>6, <1>7, Loops!SetInduction
<1>9. Tight(E, entry) /\ Keeps(E, ",", entry, FALSE, FALSE)
    <2>1. n # 0
        BY <1>0
    <2>2. whole(f[n])
        BY <1>8, <2>1 DEF T
    <2>3. QED
        BY <1>2, <2>2
<1>10. splitXFCCEntries(entry) = {<<entry>>}
    <2>1. entry \in Seq(E)
        BY <1>9 DEF Tight
    <2>2. << >> \in Seq(E) /\ << >> \o entry = entry
        BY <2>1, ConcatEmpty
    <2>3. Runs(",", SplitState(<< >>, << >>, FALSE, FALSE), entry,
               SplitState(<< >>, << >> \o entry, FALSE, FALSE))
        BY <1>9, <2>2 DEF Keeps
    <2>4. Runs(",", SplitStart, entry, SplitState(<< >>, entry, FALSE, FALSE))
        BY <2>2, <2>3 DEF SplitStart
    <2>5. Len(entry) \in Nat
        BY <2>1
    <2>6. splitOutsideQuotes(entry, ",") = {Append(<< >>, TrimSpace(entry))}
        <3> DEFINE none == << >>
        <3>1. "," # "unescape"
            OBVIOUS
        <3>2. Runs(",", SplitStart, entry, SplitEnd(none, entry))
            BY <2>4 DEF SplitEnd
        <3> HIDE DEF none, whole
        <3>3. IsOnly(splitOutsideQuotes(entry, ","), Append(none, TrimSpace(entry)))
            BY <2>5, <3>1, <3>2, SplitRuns
        <3>4. QED
            BY <3>3 DEF IsOnly, none
    <2>7. TrimSpace(entry) = entry
        BY <1>9, TightTrim
    <2>8. Append(<< >>, entry) = <<entry>>
        OBVIOUS
    <2>9. QED
        BY <2>6, <2>7, <2>8 DEF splitXFCCEntries
<1>11. QED
    BY <1>9, <1>10 DEF entry

LEMMA FunctionSeq ==
    ASSUME NEW V, NEW n \in Nat, NEW s \in [1..n -> V]
    PROVE  s \in Seq(V) /\ Len(s) = n
    OBVIOUS

LEMMA PrefixGrows ==
    ASSUME NEW S, NEW s \in Seq(S), NEW i \in 1..Len(s)
    PROVE  /\ SubSeq(s, 1, i - 1) \in Seq(S)
           /\ SubSeq(s, 1, i) = Append(SubSeq(s, 1, i - 1), s[i])
    OBVIOUS

\* The parts of an entry are its fields.
LEMMA EntrySplit ==
    ASSUME NEW E, IsAlphabet(E), NEW fields \in Seq(Fields(E)), fields # << >>
    PROVE  splitOutsideQuotes(WrittenEntry(fields), ";") =
              {[i \in 1..Len(fields) |-> Written(fields[i])]}
<1> DEFINE n == Len(fields)
<1> DEFINE entry == WrittenEntry(fields)
<1> DEFINE parts == [i \in 1..n |-> Written(fields[i])]
<1>0. n \in Nat /\ n >= 1
    OBVIOUS
<1>1. \A i \in 1..n : IsField(E, fields[i])
    BY FieldsAre
<1>2. PICK f \in [0..n -> Seq(E)] :
          /\ f[0] = << >>
          /\ \A i \in 1..n : f[i] = Joined(i, f[i - 1], fields[i])
          /\ entry = f[n]
    BY EntryDefined
<1> HIDE DEF n, entry
<1>3. ASSUME NEW i \in 1..n
      PROVE  /\ Written(fields[i]) \in Seq(E)
             /\ Keeps(E, ";", Written(fields[i]), FALSE, FALSE)
             /\ TrimSpace(Written(fields[i])) = Written(fields[i])
    <2>1. IsField(E, fields[i])
        BY <1>1
    <2>2. QED
        BY <2>1, WrittenParts, WrittenKept, WrittenRead
<1>4. parts \in Seq(Seq(E)) /\ Len(parts) = n
    <2> DEFINE V == Seq(E)
    <2>1. parts \in [1..n -> V]
        BY <1>3
    <2> HIDE DEF V, parts
    <2>2. parts \in Seq(V) /\ Len(parts) = n
        BY <1>0, <2>1, FunctionSeq
    <2>3. QED
        BY <2>2 DEF V
<1>5. \A i \in 1..n : parts[i] = Written(fields[i])
    OBVIOUS
<1> HIDE DEF parts
<1> DEFINE upto(i) == SubSeq(parts, 1, i)
<1> DEFINE b(i) == SplitState(upto(i - 1), Written(fields[i]), FALSE, FALSE)
<1> DEFINE T == {i \in 0..n : i # 0 => Runs(";", SplitStart, f[i], b(i))}
<1>6. << >> \in Seq(E) /\ upto(0) = << >>
    BY <1>4
<1>7. ASSUME NEW i \in 1..n PROVE upto(i) = Append(upto(i - 1), Written(fields[i]))
    <2> DEFINE V == Seq(E)
    <2>1. parts \in Seq(V)
        BY <1>4
    <2>2. i \in 1..Len(parts)
        BY <1>4
    <2> HIDE DEF V
    <2>3. SubSeq(parts, 1, i) = Append(SubSeq(parts, 1, i - 1), parts[i])
        BY <2>1, <2>2, PrefixGrows
    <2>4. QED
        BY <1>5, <2>3
<1> HIDE DEF upto
<1>8. ASSUME NEW i \in 1..n
      PROVE  Runs(";", SplitState(upto(i - 1), << >>, FALSE, FALSE), Written(fields[i]), b(i))
    <2> DEFINE w == Written(fields[i])
    <2>1. << >> \o w = w
        BY <1>3, ConcatEmpty
    <2>2. Runs(";", SplitState(upto(i - 1), << >>, FALSE, FALSE), w,
               SplitState(upto(i - 1), << >> \o w, FALSE, FALSE))
        BY <1>3, <1>6 DEF Keeps
    <2>3. QED
        BY <2>1, <2>2
<1>9. 0 \in T
    BY <1>0
<1>10. ASSUME NEW i \in T, i \in 0..(n - 1) PROVE i + 1 \in T
    <2>1. i + 1 \in 1..n /\ (i + 1) - 1 = i /\ i + 1 \in 0..n /\ i \in 0..n
        BY <1>0, <1>10, Successor, Zenon
    <2>2. f[i + 1] = Joined(i + 1, f[i], fields[i + 1]) /\ f[i] \in Seq(E)
        BY <1>2, <2>1
    <2> DEFINE w == Written(fields[i + 1])
    <2> DEFINE a == SplitState(upto(i), << >>, FALSE, FALSE)
    <2>3. Runs(";", a, w, b(i + 1)) /\ w \in Seq(E)
        BY <1>3, <1>8, <2>1
    <2>4. CASE i = 0
        <3>1. f[i + 1] = w
            BY <2>2, <2>4 DEF Joined
        <3>2. a = SplitStart
            BY <1>6, <2>4 DEF SplitStart
        <3>3. QED
            BY <2>1, <2>3, <3>1, <3>2
    <2>5. CASE i # 0
        <3>1. i + 1 # 1 /\ i \in 1..n
            BY <1>0, <1>10, <2>5, Successor, Zenon
        <3>2. f[i + 1] = (f[i] \o <<";">>) \o w
            BY <2>2, <3>1 DEF Joined
        <3>3. Runs(";", SplitStart, f[i], b(i))
            BY <2>5
        <3>4. TrimSpace(Written(fields[i])) = Written(fields[i])
            BY <1>3, <3>1
        <3>5. Rune(";", b(i), ";") = a
            <4>1. Rune(";", b(i), ";") =
                     SplitState(Append(upto(i - 1), TrimSpace(Written(fields[i]))), << >>, FALSE, FALSE)
                BY DEF Rune, splitRune, SplitState
            <4>2. QED
                BY <1>7, <3>1, <3>4, <4>1
        <3>6. Runs(";", b(i), <<";">>, a)
            BY <3>5, RunsOne
        <3>7. <<";">> \in Seq(E)
            BY OneType DEF IsAlphabet
        <3> HIDE DEF a, b, w
        <3>8. Runs(";", SplitStart, f[i] \o <<";">>, a)
            BY <2>2, <3>3, <3>6, <3>7, RunsConcat
        <3>9. f[i] \o <<";">> \in Seq(E)
            BY <2>2, <3>7, ConcatType
        <3>10. Runs(";", SplitStart, f[i + 1], b(i + 1))
            BY <2>3, <3>2, <3>8, <3>9, RunsConcat
        <3>11. QED
            BY <2>1, <3>10
    <2>6. QED
        BY <2>4, <2>5
<1> HIDE DEF T
<1>11. n \in T
    BY <1>0, <1>9, <1>10, Loops!SetInduction
<1>12. Runs(";", SplitStart, entry, SplitEnd(upto(n - 1), Written(fields[n])))
    <2>1. n # 0
        BY <1>0
    <2>2. Runs(";", SplitStart, f[n], b(n))
        BY <1>11, <2>1 DEF T
    <2>3. QED
        BY <1>2, <2>2 DEF SplitEnd
<1>13. Len(entry) \in Nat
    <2>1. n \in 0..n
        BY <1>0
    <2>2. entry \in Seq(E)
        BY <1>2, <2>1
    <2>3. QED
        BY <2>2
<1>14. IsOnly(splitOutsideQuotes(entry, ";"), Append(upto(n - 1), TrimSpace(Written(fields[n]))))
    <2>1. ";" # "unescape"
        OBVIOUS
    <2>2. QED
        BY <1>12, <1>13, <2>1, SplitRuns
<1>15. n \in 1..n
    BY <1>0
<1>16. Append(upto(n - 1), TrimSpace(Written(fields[n]))) = upto(n)
    BY <1>3, <1>7, <1>15
<1>17. upto(n) = parts
    BY <1>4 DEF upto
<1>18. QED
    BY <1>14, <1>16, <1>17 DEF IsOnly, parts, entry, n
-----------------------------------------------------------------------------
(* The certificate of an entry. *)

\* The fields that parseXFCCFields reads from the parts of an entry.
LastOf(parts, named, key) ==
    CHOOSE i \in named : Key(parts[i]) = key /\ \A j \in named : Key(parts[j]) = key => j <= i

Named(parts) == {i \in DOMAIN parts : parts[i] # << >>}

ReadFields(parts) ==
    [key \in {Key(parts[i]) : i \in Named(parts)} |->
        CHOOSE v \in Value(parts[LastOf(parts, Named(parts), key)]) : TRUE]

LEMMA ParsedParts ==
    ASSUME NEW entry, NEW parts, splitOutsideQuotes(entry, ";") = {parts},
           \A i \in DOMAIN parts : parts[i] # << >> => WellFormed(parts[i])
    PROVE  parseXFCCFields(entry) = {ReadFields(parts)}
<1>1. parseXFCCFields(entry) =
         {ReadFields(p) : p \in {q \in splitOutsideQuotes(entry, ";") :
                                   \A i \in DOMAIN q : q[i] # << >> => WellFormed(q[i])}}
    BY Zenon DEF parseXFCCFields, ReadFields, LastOf, Named
<1> DEFINE W(q) == \A i \in DOMAIN q : q[i] # << >> => WellFormed(q[i])
<1>2. W(parts)
    OBVIOUS
<1>3. parseXFCCFields(entry) = {ReadFields(p) : p \in {q \in {parts} : W(q)}}
    BY <1>1
<1> HIDE DEF W
<1>4. {q \in {parts} : W(q)} = {parts}
    BY <1>2
<1>5. QED
    BY <1>3, <1>4

\* The last field with the name counts.
LastField(fields, i) ==
    \A j \in 1..Len(fields) : fields[j].name = fields[i].name => j <= i

LEMMA SameTuple ==
    ASSUME NEW d, NEW e
    PROVE  <<d>> = <<e>> <=> d = e
    OBVIOUS

\* Every field is read by its name, with the text of the last field that has it.
LEMMA EntryFields ==
    ASSUME NEW E, IsAlphabet(E), NEW fields \in Seq(Fields(E)), fields # << >>
    PROVE  \E read :
              /\ parseXFCCFields(WrittenEntry(fields)) = {read}
              /\ DOMAIN read = {<<fields[i].name>> : i \in 1..Len(fields)}
              /\ \A i \in 1..Len(fields) :
                    LastField(fields, i) => read[<<fields[i].name>>] = fields[i].text
<1> DEFINE n == Len(fields)
<1> DEFINE parts == [i \in 1..n |-> Written(fields[i])]
<1> DEFINE read == ReadFields(parts)
<1>1. splitOutsideQuotes(WrittenEntry(fields), ";") = {parts}
    BY EntrySplit
<1>2. DOMAIN parts = 1..n
    OBVIOUS
<1>3. ASSUME NEW i \in 1..n
      PROVE  /\ parts[i] # << >>
             /\ Cut(parts[i]) = 2
             /\ Key(parts[i]) = <<fields[i].name>>
             /\ Value(parts[i]) = {fields[i].text}
    <2>1. IsField(E, fields[i])
        BY FieldsAre
    <2>2. parts[i] = Written(fields[i])
        OBVIOUS
    <2>3. QED
        BY <2>1, <2>2, WrittenRead
<1> HIDE DEF parts
<1>4. ASSUME NEW i \in 1..n PROVE WellFormed(parts[i])
    <2>1. Key(parts[i]) # << >>
        <3>1. <<fields[i].name>> # << >>
            OBVIOUS
        <3>2. QED
            BY <1>3, <3>1
    <2>2. Value(parts[i]) # {}
        BY <1>3
    <2>3. Cut(parts[i]) # 0
        BY <1>3
    <2>4. QED
        BY <2>1, <2>2, <2>3 DEF WellFormed
<1>5. parseXFCCFields(WrittenEntry(fields)) = {read}
    BY <1>1, <1>2, <1>4, ParsedParts
<1>6. Named(parts) = 1..n
    BY <1>2, <1>3 DEF Named
<1>7. {Key(parts[i]) : i \in 1..n} = {<<fields[i].name>> : i \in 1..n}
    BY <1>3
<1>8. read = [key \in {<<fields[i].name>> : i \in 1..n} |->
                 CHOOSE v \in Value(parts[LastOf(parts, 1..n, key)]) : TRUE]
    BY <1>6, <1>7 DEF ReadFields
<1>9. DOMAIN read = {<<fields[i].name>> : i \in 1..n}
    BY <1>8
<1>10. ASSUME NEW i \in 1..n, LastField(fields, i)
       PROVE  read[<<fields[i].name>>] = fields[i].text
    <2> DEFINE key == <<fields[i].name>>
    <2> DEFINE IsLast(k) == /\ Key(parts[k]) = key
                            /\ \A j \in 1..n : Key(parts[j]) = key => j <= k
    <2>1. ASSUME NEW j \in 1..n PROVE Key(parts[j]) = key <=> fields[j].name = fields[i].name
        <3>1. Key(parts[j]) = <<fields[j].name>>
            BY <1>3
        <3>2. QED
            BY <3>1, SameTuple
    <2>2. IsLast(i)
        BY <1>10, <2>1 DEF LastField
    <2> DEFINE k == LastOf(parts, 1..n, key)
    <2>3. k = CHOOSE l \in 1..n : IsLast(l)
        BY DEF LastOf
    <2>4. ASSUME NEW l \in 1..n, IsLast(l) PROVE l = i
        <3>1. l <= i /\ i <= l
            BY <2>2, <2>4
        <3>2. QED
            BY <3>1
    <2> HIDE DEF IsLast, k
    <2>5. k \in 1..n /\ IsLast(k)
        BY <2>2, <2>3
    <2>6. k = i
        BY <2>4, <2>5
    <2>7. key \in {<<fields[l].name>> : l \in 1..n}
        OBVIOUS
    <2>8. read[key] = CHOOSE v \in Value(parts[k]) : TRUE
        BY <1>8, <2>7 DEF k
    <2>9. Value(parts[k]) = {fields[i].text}
        BY <1>3, <2>6
    <2> HIDE DEF key
    <2>10. read[key] = CHOOSE v \in {fields[i].text} : TRUE
        BY <2>8, <2>9
    <2>11. QED
        BY <2>10 DEF key
<1>11. QED
    BY <1>5, <1>9, <1>10
LEMMA GreatestExists ==
    ASSUME NEW n \in Nat, NEW S \in SUBSET (1..n), S # {}
    PROVE  \E x \in S : \A y \in S : y <= x
<1> DEFINE T == {n - y : y \in S}
<1>1. T \in SUBSET Nat /\ T # {}
    <2>1. ASSUME NEW y \in S PROVE n - y \in Nat
        OBVIOUS
    <2>2. PICK y \in S : TRUE
        OBVIOUS
    <2>3. n - y \in T
        OBVIOUS
    <2>4. QED
        BY <2>1, <2>3
<1> HIDE DEF T
<1>2. PICK t \in T : \A u \in T : t <= u
    BY <1>1, Loops!LeastExists
<1>3. PICK x \in S : t = n - x
    BY DEF T
<1>4. ASSUME NEW y \in S PROVE y <= x
    <2>1. n - y \in T
        BY DEF T
    <2>2. n - x <= n - y
        BY <1>2, <1>3, <2>1
    <2>3. QED
        BY <2>2
<1>5. QED
    BY <1>4

\* Of the fields with a name one is the last.
LEMMA LastExists ==
    ASSUME NEW E, NEW fields \in Seq(Fields(E)), NEW i \in 1..Len(fields)
    PROVE  \E k \in 1..Len(fields) : fields[k].name = fields[i].name /\ LastField(fields, k)
<1> DEFINE n == Len(fields)
<1> DEFINE S == {j \in 1..n : fields[j].name = fields[i].name}
<1>1. n \in Nat
    OBVIOUS
<1>2. S \in SUBSET (1..n) /\ S # {}
    OBVIOUS
<1> HIDE DEF S, n
<1>3. PICK k \in S : \A y \in S : y <= k
    BY <1>1, <1>2, GreatestExists
<1>4. k \in 1..n /\ fields[k].name = fields[i].name
    BY DEF S
<1>5. LastField(fields, k)
    BY <1>3, <1>4 DEF LastField, S, n
<1>6. QED
    BY <1>4, <1>5 DEF n

\* The entry names certificate c: its Cert field holds the PEM block, and its Hash
\* field, if there is one that is not empty, the fingerprint.
EntryNames(fields, c) ==
    /\ \E i \in 1..Len(fields) : /\ fields[i].name = "Cert" /\ LastField(fields, i)
                                 /\ c \in parseXFCCCert(fields[i].text)
    /\ \A j \in 1..Len(fields) : /\ fields[j].name = "Hash" /\ LastField(fields, j)
                                 /\ fields[j].text # << >>
                                 => verifyXFCCHash(c, fields[j].text)

\* What processXFCC finds in a header of one entry is what the proxy in front
\* wrote there, whatever the texts of the fields are: separators, quotes and
\* backslashes in them split no field, end no text and forge no other field.
THEOREM EntryParsed ==
    ASSUME NEW E, IsAlphabet(E), NEW fields \in Seq(Fields(E)), fields # << >>
    PROVE  ForwardedCerts(<<WrittenEntry(fields)>>) = {c \in Certs : EntryNames(fields, c)}
<1> DEFINE n == Len(fields)
<1> DEFINE entry == WrittenEntry(fields)
<1>1. splitXFCCEntries(entry) = {<<entry>>}
    BY EntryKept
<1>2. PICK read :
          /\ parseXFCCFields(entry) = {read}
          /\ DOMAIN read = {<<fields[i].name>> : i \in 1..n}
          /\ \A i \in 1..n : LastField(fields, i) => read[<<fields[i].name>>] = fields[i].text
    BY EntryFields
<1> HIDE DEF entry
<1>3. ForwardedCerts(<<entry>>) = {c \in Certs : FieldsName(read, c)}
    <2> DEFINE values == <<entry>>
    <2>1. Len(values) = 1 /\ values[1] = entry
        OBVIOUS
    <2> HIDE DEF values
    <2> DEFINE entries == IF Len(values) = 1 THEN splitXFCCEntries(values[1]) ELSE {}
    <2> DEFINE found == UNION {parseXFCCFields(e[1]) : e \in {f \in entries : Len(f) = 1}}
    <2>2. ForwardedCerts(values) = {c \in Certs : \E f \in found : FieldsName(f, c)}
        BY DEF ForwardedCerts
    <2>3. entries = {values}
        BY <1>1, <2>1 DEF values
    <2> HIDE DEF entries
    <2>4. {f \in entries : Len(f) = 1} = {values}
        BY <2>1, <2>3
    <2>5. found = parseXFCCFields(entry)
        BY <2>1, <2>4
    <2>6. found = {read}
        BY <1>2, <2>5
    <2> HIDE DEF found
    <2>7. ForwardedCerts(values) = {c \in Certs : FieldsName(read, c)}
        BY <2>2, <2>6
    <2>8. QED
        BY <2>7 DEF values
<1>4. ASSUME NEW name, NEW i \in 1..n, fields[i].name = name, LastField(fields, i)
      PROVE  <<name>> \in DOMAIN read /\ read[<<name>>] = fields[i].text
    BY <1>2, <1>4
<1>5. ASSUME NEW name, <<name>> \in DOMAIN read
      PROVE  \E i \in 1..n : fields[i].name = name /\ LastField(fields, i)
    <2>1. PICK j \in 1..n : <<name>> = <<fields[j].name>>
        BY <1>2, <1>5
    <2>2. name = fields[j].name
        BY <2>1, SameTuple
    <2>3. QED
        BY <2>2, LastExists
<1>6. ASSUME NEW c \in Certs, FieldsName(read, c) PROVE EntryNames(fields, c)
    <2>1. /\ <<"Cert">> \in DOMAIN read
          /\ c \in parseXFCCCert(read[<<"Cert">>])
          /\ <<"Hash">> \in DOMAIN read /\ read[<<"Hash">>] # << >>
               => verifyXFCCHash(c, read[<<"Hash">>])
        BY <1>6 DEF FieldsName
    <2>2. PICK i \in 1..n : fields[i].name = "Cert" /\ LastField(fields, i)
        BY <1>5, <2>1
    <2>3. read[<<"Cert">>] = fields[i].text
        BY <1>4, <2>2
    <2>4. ASSUME NEW j \in 1..n, fields[j].name = "Hash", LastField(fields, j),
                 fields[j].text # << >>
          PROVE  verifyXFCCHash(c, fields[j].text)
        <3>1. <<"Hash">> \in DOMAIN read /\ read[<<"Hash">>] = fields[j].text
            BY <1>4, <2>4
        <3>2. QED
            BY <2>1, <2>4, <3>1
    <2>5. QED
        BY <2>1, <2>2, <2>3, <2>4 DEF EntryNames
<1>7. ASSUME NEW c \in Certs, EntryNames(fields, c) PROVE FieldsName(read, c)
    <2>1. PICK i \in 1..n : /\ fields[i].name = "Cert" /\ LastField(fields, i)
                            /\ c \in parseXFCCCert(fields[i].text)
        BY <1>7 DEF EntryNames
    <2>2. <<"Cert">> \in DOMAIN read /\ read[<<"Cert">>] = fields[i].text
        BY <1>4, <2>1
    <2>3. ASSUME <<"Hash">> \in DOMAIN read, read[<<"Hash">>] # << >>
          PROVE  verifyXFCCHash(c, read[<<"Hash">>])
        <3>1. PICK j \in 1..n : fields[j].name = "Hash" /\ LastField(fields, j)
            BY <1>5, <2>3
        <3>2. read[<<"Hash">>] = fields[j].text
            BY <1>4, <3>1
        <3>3. QED
            BY <1>7, <2>3, <3>1, <3>2 DEF EntryNames
    <2>4. QED
        BY <2>1, <2>2, <2>3 DEF FieldsName
<1>8. {c \in Certs : FieldsName(read, c)} = {c \in Certs : EntryNames(fields, c)}
    BY <1>6, <1>7
<1>9. QED
    BY <1>3, <1>8 DEF entry

\* The entry of a client with certificate c: the last Cert field is its PEM
\* block, and every Hash field its fingerprint.
EntryOf(fields, c) ==
    /\ \E i \in 1..Len(fields) : /\ fields[i].name = "Cert" /\ LastField(fields, i)
                                 /\ fields[i].text = <<c>>
    /\ \A j \in 1..Len(fields) : fields[j].name = "Hash" => fields[j].text = <<CertHash[c]>>

LEMMA EntryYields ==
    ASSUME NEW E, IsAlphabet(E), NEW fields \in Seq(Fields(E)), NEW c \in Certs,
           EntryOf(fields, c)
    PROVE  ForwardedCerts(<<WrittenEntry(fields)>>) = {c}
<1>1. PICK i \in 1..Len(fields) : /\ fields[i].name = "Cert" /\ LastField(fields, i)
                                  /\ fields[i].text = <<c>>
    BY DEF EntryOf
<1>2. fields # << >>
    BY <1>1
<1>3. ASSUME NEW e, e # Space PROVE TrimSpace(<<e>>) = <<e>>
    <2>1. Tight({e}, <<e>>)
        BY <1>3, TightOne
    <2>2. QED
        BY <2>1, TightTrim
<1>4. c # Space /\ CertHash[c] # Space
    BY CertAssumption DEF Special
<1>5. ASSUME NEW d \in Certs PROVE d \in parseXFCCCert(<<c>>) <=> d = c
    <2> DEFINE v == <<c>>
    <2>1. DOMAIN v = {1} /\ v[1] = c /\ Len(v) = 1
        OBVIOUS
    <2> HIDE DEF v
    <2>2. parseXFCCCert(v) = {c}
        BY <2>1 DEF parseXFCCCert, IsBlock
    <2>3. QED
        BY <2>2 DEF v
<1>6. verifyXFCCHash(c, <<CertHash[c]>>)
    BY <1>3, <1>4 DEF verifyXFCCHash
<1>7. EntryNames(fields, c)
    <2>1. ASSUME NEW j \in 1..Len(fields), fields[j].name = "Hash"
          PROVE  verifyXFCCHash(c, fields[j].text)
        <3>1. fields[j].text = <<CertHash[c]>>
            BY <2>1 DEF EntryOf
        <3>2. QED
            BY <1>6, <3>1
    <2>2. c \in parseXFCCCert(fields[i].text)
        BY <1>1, <1>5
    <2>3. QED
        BY <1>1, <2>1, <2>2 DEF EntryNames
<1>8. ASSUME NEW d \in Certs, EntryNames(fields, d) PROVE d = c
    <2>1. PICK k \in 1..Len(fields) : /\ fields[k].name = "Cert" /\ LastField(fields, k)
                                      /\ d \in parseXFCCCert(fields[k].text)
        BY <1>8 DEF EntryNames
    <2>2. k <= i /\ i <= k
        BY <1>1, <2>1 DEF LastField
    <2>3. k = i
        BY <2>2
    <2>4. QED
        BY <1>1, <1>5, <2>1, <2>3
<1>9. {d \in Certs : EntryNames(fields, d)} = {c}
    BY <1>7, <1>8
<1>10. QED
    BY <1>2, <1>9, EntryParsed

-----------------------------------------------------------------------------
(***************************************************************************)
(* Callers with a forwarded certificate.  That the parser finds the        *)
(* certificate which the proxy in front wrote, and none where there is no  *)
(* single one, is a hypothesis of the first theorem (HeaderParsed); the    *)
(* second has it from EntryParsed.                                         *)
(***************************************************************************)

\* The request has a forwarded certificate, no other credentials and no
\* impersonation headers, and is no self review.
OnlyForwarded ==
    /\ client.xfcc # << >> /\ client.authorization = NoToken /\ client.websocket = NoToken
    /\ client.cert = NoIdentity /\ client.user = NoUser /\ client.groups = {}
    /\ client.path # "review"

HeaderParsed == ForwardedCerts(client.xfcc) = {client.forwarded} \ {NoCert}

Known == client.forwarded # NoCert /\ CertIdentity[client.forwarded].user # NoUser

NotDenied(w) == \A i \in DOMAIN w : w[i] # "403"

\* An identity is the subject of the certificate, no denial was written and no
\* response is recorded.
ForwardedOk ==
    /\ identity # NoIdentity => Known /\ identity.by = CertIdentity[client.forwarded]
    /\ Known /\ client.trusted /\ ForwardedAuth => NotDenied(answer)
    /\ ~inner /\ pc # "review"

\* The inductive invariant.
ForwardedInv == OnlyForwarded /\ HeaderParsed => ForwardedOk

\* Only the certificate yields a person.
LEMMA ForwardedYields ==
    ASSUME OnlyForwarded, HeaderParsed, NEW type
    PROVE  /\ \A p \in Yields(type, ClientHeader) : Known /\ p = CertIdentity[client.forwarded]
           /\ type = "XForwardedClientCert" /\ Known => ~GoesOn(type, ClientHeader)
<1>1. ClientHeader.certs = {client.forwarded} \ {NoCert} /\ ClientHeader.authorization = NoToken
    BY DEF ClientHeader, HeaderParsed, OnlyForwarded
<1>2. bearerToken(ClientHeader) = NoToken
    BY <1>1 DEF bearerToken, OnlyForwarded
<1>3. processXFCC(ClientHeader) = IF Known THEN {CertIdentity[client.forwarded]} ELSE {}
    BY <1>1 DEF processXFCC, Known
<1>4. client.cert = NoIdentity
    BY DEF OnlyForwarded
<1>5. QED
    BY <1>2, <1>3, <1>4 DEF Yields, GoesOn

\* Resolving the caller yields the certificate's subject, and is not denied if
\* the certificate has one: there are no names to review.
LEMMA ForwardedResolved ==
    ASSUME IndInv, ForwardedOk, OnlyForwarded, HeaderParsed,
           pc \notin {"forward", "review", "done", "aborted"},
           NEW o \in ResolveUserAndGroups(header, identity)
    PROVE  /\ o.status = "ok" => Known /\ o.identity.by = CertIdentity[client.forwarded]
           /\ Known /\ ForwardedAuth => o.status # "403"
<1>1. header = ClientHeader /\ header.user = NoUser /\ header.groups = {}
    BY DEF IndInv, Untouched, OnlyForwarded, ClientHeader
<1>2. CASE identity # NoIdentity
    BY <1>2 DEF ResolveUserAndGroups, Resolved, ForwardedOk
<1>3. CASE identity = NoIdentity
    <2>1. o \in GetUserAndGroups(header)
        BY <1>3 DEF ResolveUserAndGroups
    <2>2. Reviewed(header) = {}
        BY <1>1 DEF Reviewed, GetImpersonatingGroups
    <2>3. \A p : ~Denied(p, header)
        BY <2>2 DEF Denied
    <2>4. \/ \E p \in authenticate(header) : o = Resolved(Impersonated(p, header))
          \/ o = Unauthorized /\ MayBeUnauthenticated(header)
        BY <2>1, <2>2, <2>3 DEF GetUserAndGroups
    <2>5. CASE o = Unauthorized /\ MayBeUnauthenticated(header)
        <3>1. o.status = "403"
            BY <2>5 DEF Unauthorized
        <3>2. ~(Known /\ ForwardedAuth)
            BY <1>1, <2>5, ForwardedYields DEF MayBeUnauthenticated, ForwardedAuth
        <3>3. QED
            BY <3>1, <3>2
    <2>6. ASSUME NEW p \in authenticate(header), o = Resolved(Impersonated(p, header))
          PROVE  Known /\ o.identity.by = CertIdentity[client.forwarded] /\ o.status = "ok"
        <3>1. Known /\ p = CertIdentity[client.forwarded]
            BY <1>1, <2>6, ForwardedYields DEF authenticate
        <3>2. QED
            BY <2>6, <3>1 DEF Resolved, Impersonated
    <2>7. QED
        BY <2>4, <2>5, <2>6
<1>4. QED
    BY <1>2, <1>3

\* A response that is not a denial is written.
LEMMA AppendNotDenied ==
    ASSUME NEW w \in Seq(Statuses), NotDenied(w), NEW status \in Statuses, status # "403"
    PROVE  NotDenied(Append(w, status))
<1> DEFINE a == Append(w, status)
<1>1. DOMAIN a = 1..(Len(w) + 1) /\ DOMAIN w = 1..Len(w) /\ Len(w) \in Nat
      /\ a[Len(w) + 1] = status /\ \A i \in 1..Len(w) : a[i] = w[i]
    OBVIOUS
<1> HIDE DEF a
<1>2. \A i \in DOMAIN a : a[i] # "403"
    BY <1>1 DEF NotDenied
<1>3. QED
    BY <1>2 DEF NotDenied, a

\* A step that resolves nobody and writes no denial.
LEMMA ForwardedStep ==
    ASSUME ForwardedOk, UNCHANGED <<client, identity>>, ~inner', pc' # "review",
           NotDenied(answer) => NotDenied(answer')
    PROVE  ForwardedOk'
    BY DEF ForwardedOk, Known, NotDenied

\* A handler writes an error that is no denial of a known caller.
LEMMA ForwardedReject ==
    ASSUME IndInv, ForwardedOk, NEW status \in Statuses, Reject(status),
           Known /\ ForwardedAuth => status # "403"
    PROVE  ForwardedOk'
<1>1. UNCHANGED <<client, identity, inner>> /\ pc' = "forward"
    BY DEF Reject
<1>2. answer' = Append(answer, status) \/ answer' = answer
    BY DEF Reject, Write
<1>3. answer \in Seq(Statuses)
    BY DEF IndInv, TypeOK
<1>4. status # "403" /\ NotDenied(answer) => NotDenied(answer')
    BY <1>2, <1>3, AppendNotDenied
<1>5. QED
    BY <1>1, <1>4 DEF ForwardedOk, Known, NotDenied

\* recoveryMiddleware writes an error that is no denial.
LEMMA ForwardedRecover ==
    ASSUME IndInv, ForwardedOk, Recover
    PROVE  ForwardedOk'
<1>1. UNCHANGED <<client, identity>> /\ ~inner' /\ pc' = "done"
    BY DEF Recover
<1>2. answer' = Append(answer, "500") /\ answer \in Seq(Statuses)
    BY DEF Recover, IndInv, TypeOK
<1>3. NotDenied(answer) => NotDenied(answer')
    BY <1>2, AppendNotDenied DEF Statuses
<1>4. QED
    BY <1>1, <1>3, ForwardedStep

\* A handler resolves the caller: an error is written, or the identity is kept.
LEMMA ForwardedResolves ==
    ASSUME IndInv, ForwardedOk, OnlyForwarded, HeaderParsed,
           pc \notin {"forward", "review", "done", "aborted"},
           NEW o \in ResolveUserAndGroups(header, identity),
           \/ o.status # "ok" /\ Reject(o.status)
           \/ o.status = "ok" /\ identity' = o.identity /\ UNCHANGED <<client, inner, answer>>
              /\ pc' # "review"
    PROVE  ForwardedOk'
<1>1. /\ o.status = "ok" => Known /\ o.identity.by = CertIdentity[client.forwarded]
      /\ Known /\ ForwardedAuth => o.status # "403"
    BY ForwardedResolved
<1>2. o.status \in {"ok"} \cup Statuses
    BY CallerResolved
<1>3. CASE o.status # "ok" /\ Reject(o.status)
    BY <1>1, <1>2, <1>3, ForwardedReject
<1>4. CASE o.status = "ok" /\ identity' = o.identity /\ UNCHANGED <<client, inner, answer>>
           /\ pc' # "review"
    BY <1>1, <1>4 DEF ForwardedOk, Known, NotDenied
<1>5. QED
    BY <1>3, <1>4

\* The steps before the last handlers keep the caller the certificate's subject.
LEMMA MiddlewareForwarded ==
    ASSUME IndInv, ForwardedOk, OnlyForwarded, HeaderParsed, Middlewares
    PROVE  ForwardedOk'
<1>1. pc \notin {"forward", "review", "done", "aborted"} /\ UNCHANGED client
    BY MiddlewareLeaves
<1>2. header.authorization = NoToken /\ client.path # "review" /\ ~inner
    BY <1>1 DEF IndInv, Untouched, OnlyForwarded, ClientHeader, ForwardedOk
<1>3. CASE RequireTrustedSourceMiddleware
    BY <1>1, <1>2, <1>3 DEF RequireTrustedSourceMiddleware, Continue, ForwardedOk, Known, NotDenied
<1>4. CASE authorizationMiddleware \/ CheckPaths
    <2>1. pc' # "review" /\ UNCHANGED <<client, identity, answer>>
        BY <1>4 DEF authorizationMiddleware, CheckPaths, Continue
    <2>2. inner' = (client.path = "review") \/ inner' = inner
        BY <1>4 DEF authorizationMiddleware, CheckPaths, Continue
    <2>3. ~inner'
        BY <1>2, <2>2, Zenon
    <2>4. QED
        BY <2>1, <2>3, ForwardedStep
<1>5. CASE CheckJWTMiddleware
    BY <1>2, <1>5, ForwardedStep DEF CheckJWTMiddleware, Continue
<1>6. CASE CheckUserInIgnoredIdentityMiddleware
    <2>1. CASE IgnoredUsers \cup IgnoredGroups = {}
        BY <1>2, <1>6, <2>1, ForwardedStep DEF CheckUserInIgnoredIdentityMiddleware, Continue
    <2>2. CASE IgnoredUsers \cup IgnoredGroups # {}
        BY <1>1, <1>6, <2>2, ForwardedResolves DEF CheckUserInIgnoredIdentityMiddleware, ContinueAs
    <2>3. QED
        BY <2>1, <2>2
<1>7. CASE CheckUserInCapsuleGroupMiddleware
    BY <1>1, <1>7, ForwardedResolves DEF CheckUserInCapsuleGroupMiddleware, ContinueAs
<1>8. CASE moduleHandler
    <2>0. CASE Recover
        BY <2>0, ForwardedRecover
    <2>1. CASE \E status \in {"404", "500"} : Reject(status)
        BY <2>1, ForwardedReject DEF Statuses
    <2>2. CASE \E next \in {"impersonate", "filter"} : Continue(next)
        BY <1>2, <2>2, ForwardedStep DEF Continue
    <2>3. QED
        BY <1>8, <2>0, <2>1, <2>2 DEF moduleHandler
<1>9. QED
    BY <1>3, <1>4, <1>5, <1>6, <1>7, <1>8 DEF Middlewares

\* Every step of the chain keeps the caller the subject of its certificate.
LEMMA StepForwarded == IndInv /\ ForwardedInv /\ [Next]_vars => ForwardedInv'
<1> SUFFICES ASSUME IndInv, ForwardedInv, [Next]_vars PROVE ForwardedInv'
    OBVIOUS
<1>1. client' = client
    <2>1. CASE Middlewares
        BY <2>1, MiddlewareLeaves
    <2>2. CASE impersonateHandler \/ handleRequest \/ reverseProxy \/ MutateAuthorization
        BY <2>2 DEF impersonateHandler, handleRequest, reverseProxy, MutateAuthorization, Reject, Recover
    <2>3. QED
        BY <2>1, <2>2 DEF Next, Middlewares, vars
<1>2. OnlyForwarded' = OnlyForwarded /\ HeaderParsed' = HeaderParsed
    BY <1>1 DEF OnlyForwarded, HeaderParsed
<1> SUFFICES ASSUME OnlyForwarded, HeaderParsed, ForwardedOk PROVE ForwardedOk'
    BY <1>2 DEF ForwardedInv
<1>3. ~inner /\ pc # "review" /\ answer \in Seq(Statuses)
    BY DEF ForwardedOk, IndInv, TypeOK
<1>4. CASE UNCHANGED vars
    BY <1>3, <1>4, ForwardedStep DEF vars
<1>5. CASE Middlewares
    BY <1>5, MiddlewareForwarded
<1>6. CASE impersonateHandler
    <2>1. pc = "impersonate"
        BY <1>6 DEF impersonateHandler
    <2>2. CASE Recover
        BY <2>2, ForwardedRecover
    <2>3. CASE ~Recover
        BY <1>6, <2>1, <2>3, ForwardedResolves DEF impersonateHandler
    <2>4. QED
        BY <2>2, <2>3
<1>7. CASE handleRequest
    BY <1>3, <1>7, ForwardedRecover, ForwardedStep DEF handleRequest
<1>8. CASE reverseProxy
    <2>1. /\ answer' = Append(answer, "upstream") /\ pc' \in {"done", "aborted"}
          /\ UNCHANGED <<client, identity, inner>>
        BY <1>3, <1>8 DEF reverseProxy, Write, Abort
    <2>2. NotDenied(answer) => NotDenied(answer')
        BY <1>3, <2>1, AppendNotDenied DEF Statuses
    <2>3. QED
        BY <1>3, <2>1, <2>2, ForwardedStep
<1>9. CASE MutateAuthorization
    BY <1>3, <1>9 DEF MutateAuthorization
<1>10. QED
    BY <1>4, <1>5, <1>6, <1>7, <1>8, <1>9 DEF Next, Middlewares

\* A caller whose only credentials are a forwarded certificate, and whose header
\* the parser reads as the proxy in front wrote it, is the subject of that
\* certificate or nobody, along every path of the chain and for every
\* configuration of it (processXFCC, GetUserAndGroups).
THEOREM ForwardedCallerIdentified == Spec => [](HeaderParsed => ForwardedIdentity)
<1>1. Init => ForwardedInv
    BY DEF Init, ForwardedInv, ForwardedOk, NotDenied
<1>2. ForwardedInv => (HeaderParsed => ForwardedIdentity)
    BY DEF ForwardedInv, ForwardedOk, ForwardedIdentity, OnlyForwarded, Known, NotDenied
<1>3. QED
    BY <1>1, <1>2, InitIndInv, StepIndInv, StepForwarded, PTL DEF Spec
\* The header is one entry, as the proxy in front writes it for a client with a
\* certificate.
FrontWrote ==
    /\ client.forwarded \in Certs \ {NoCert}
    /\ \E fields \in Seq(Fields(Elements)) :
          client.xfcc = <<WrittenEntry(fields)>> /\ EntryOf(fields, client.forwarded)

LEMMA FrontParsed == FrontWrote => HeaderParsed
<1> SUFFICES ASSUME FrontWrote PROVE HeaderParsed
    OBVIOUS
<1>1. PICK fields \in Seq(Fields(Elements)) :
          client.xfcc = <<WrittenEntry(fields)>> /\ EntryOf(fields, client.forwarded)
    BY DEF FrontWrote
<1>2. client.forwarded \in Certs /\ client.forwarded # NoCert
    BY DEF FrontWrote
<1>3. IsAlphabet(Elements)
    BY DEF IsAlphabet, Elements, Special, Quote, Backslash
<1>4. ForwardedCerts(<<WrittenEntry(fields)>>) = {client.forwarded}
    BY <1>1, <1>2, <1>3, EntryYields
<1>5. ForwardedCerts(client.xfcc) = {client.forwarded}
    BY <1>1, <1>4
<1>6. {client.forwarded} \ {NoCert} = {client.forwarded}
    BY <1>2
<1>7. QED
    BY <1>5, <1>6 DEF HeaderParsed

\* A caller whose only credentials are a forwarded certificate is the subject of
\* it or nobody, whatever the proxy in front wrote into the other fields of the
\* header (a subject with separators, quotes and backslashes included).
THEOREM WrittenCallerIdentified == Spec => [](FrontWrote => ForwardedIdentity)
<1>1. (HeaderParsed => ForwardedIdentity) => (FrontWrote => ForwardedIdentity)
    BY FrontParsed
<1>2. QED
    BY <1>1, ForwardedCallerIdentified, PTL

=============================================================================
