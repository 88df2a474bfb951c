-------------------------- MODULE RequestPipeline --------------------------
(***************************************************************************)
(* One HTTP request on its way through the web server: the middleware      *)
(* chain of kubeFilter.Start and registerModules, the resolution of the    *)
(* caller's identity (internal/request), impersonateHandler, handleRequest *)
(* and the reverse proxy that sends the request to the API server.         *)
(*                                                                         *)
(* All handlers share the request's headers: a copy made by WithContext    *)
(* has its own context (the cached identity) but the same header map.      *)
(***************************************************************************)
EXTENDS ForwardedClientCert

CONSTANTS
    Clients,            \* requests as they arrive, see ClientType
    Users, Groups,
    Tokens,             \* bearer tokens of callers
    TokenIdentity,      \* token -> [user, groups], for ProxyToken too
    ProxyToken,         \* the token of the proxy's own service account
    CertIdentity,       \* certificate -> [user, groups]
    AuthTypes,          \* n.authTypes: a sequence
    MayImpersonate,     \* pairs <<user, user or group>> the API server allows
    ImpliedGroups,      \* user -> groups of a service account user, or {}
    IgnoredImpersonation,  \* groups dropped by the regexps on group names
    SkipReview,         \* n.skipImpersonationReview
    AllowedPaths,       \* n.allowedPaths
    IgnoredUsers, IgnoredGroups,
    CapsuleUsers, CapsuleGroups,
    CallsFail,          \* whether the API server may fail calls or reject tokens
    NoUser, NoToken, NoIdentity, NoCert

AuthTypeNames == {"BearerToken", "TLSCertificate", "XForwardedClientCert", "Anonymous"}

\* Who was authenticated, and the identity that the request is made with.  A
\* token belongs to a person; the subject of a certificate may have no name.
Person == [user : Users, groups : SUBSET Groups]
Subject == [user : Users \cup {NoUser}, groups : SUBSET Groups]
Identity == [by : Subject, user : Users \cup {NoUser}, groups : SUBSET Groups]

\* path is "review" for the self review endpoints, "module" for a route of
\* some module; bearer tells whether the Authorization header names the Bearer
\* scheme; connection is what the Connection header lists; cert is the subject
\* of the TLS certificate; xfcc has the values of the XFCC header, and forwarded
\* is the certificate that the proxy in front put there.  Of the impersonation
\* headers only the user and the groups are here, not the uid and the extras.
ClientType ==
    [path : {"review", "module", "allowed", "other"}, trusted : BOOLEAN,
     authorization : Tokens \cup {NoToken}, bearer : BOOLEAN,
     websocket : Tokens \cup {NoToken}, cert : Subject \cup {NoIdentity},
     xfcc : Seq(Seq(Elements)), forwarded : Certs \cup {NoCert},
     user : Users \cup {NoUser}, groups : SUBSET Groups,
     connection : SUBSET {"Authorization", "Impersonate-User", "Impersonate-Group"}]

ASSUME ClientsAssumption == Clients \subseteq ClientType
ASSUME IdentityAssumption ==
    /\ NoUser \notin Users
    /\ NoIdentity \notin Subject \cup Identity
    /\ ProxyToken \notin Tokens
    /\ NoToken \notin Tokens \cup {ProxyToken}
    /\ TokenIdentity \in [Tokens \cup {ProxyToken} -> Person]
    /\ CertIdentity \in [Certs -> Subject]
    /\ ImpliedGroups \in [Users -> SUBSET Groups]
ASSUME ConfigAssumption ==
    /\ AuthTypes \in Seq(AuthTypeNames)
    /\ IgnoredImpersonation \subseteq Groups
    /\ SkipReview \in BOOLEAN /\ CallsFail \in BOOLEAN

VARIABLES
    client,     \* the request as it came
    header,     \* its headers now: [authorization, user, groups, connection,
                \* certs], where certs is what the XFCC header is parsed to
    filtered,   \* whether the query has the selector of a module
    identity,   \* the identity in the request's context
    inner,      \* whether authorizationMiddleware records the response
    pc,         \* the handler that runs next
    answer,     \* what was written to the client
    recorded,   \* what was written to authorizationMiddleware's recorder
    upstream    \* the requests that were sent to the API server

vars == <<client, header, filtered, identity, inner, pc, answer, recorded, upstream>>

-----------------------------------------------------------------------------
(***************************************************************************)
(* ResolveUserAndGroups.  Its outcome depends on the API server's answers  *)
(* to TokenReviews and SubjectAccessReviews, so it is a set of outcomes.   *)
(* A resolved identity also tells who was authenticated (by).              *)
(***************************************************************************)

\* The Authorization header wins over the websocket protocol header.
bearerToken(h) == IF h.authorization # NoToken THEN h.authorization ELSE client.websocket

\* A forwarded certificate without a user name is no identity.
processXFCC(h) ==
    {CertIdentity[c] : c \in {d \in h.certs : CertIdentity[d].user # NoUser}}

\* authenticate: what one authentication type may yield, and whether the
\* loop may go on to the next one.  The TLS certificate is taken as it is.
Yields(type, h) ==
    IF type = "BearerToken" THEN {TokenIdentity[t] : t \in {bearerToken(h)} \ {NoToken}}
    ELSE IF type = "TLSCertificate" THEN {client.cert} \ {NoIdentity}
    ELSE IF type = "XForwardedClientCert" THEN processXFCC(h)
    ELSE {}

GoesOn(type, h) ==
    \/ Yields(type, h) = {}
    \/ CallsFail /\ type = "BearerToken"

authenticate(h) ==
    UNION {Yields(AuthTypes[i], h) :
             i \in {j \in DOMAIN AuthTypes : \A k \in 1..(j - 1) : GoesOn(AuthTypes[k], h)}}

\* No authentication type yields anything.
MayBeUnauthenticated(h) == \A i \in DOMAIN AuthTypes : GoesOn(AuthTypes[i], h)

GetImpersonatingGroups(h) == h.groups \ IgnoredImpersonation

\* Mutant: with groups to review, the user is not.
ReviewedGroupsFirst(h) ==
    IF SkipReview THEN {}
    ELSE IF GetImpersonatingGroups(h) # {} THEN GetImpersonatingGroups(h)
    ELSE {h.user} \ {NoUser}

\* The names that GetUserAndGroups submits to a SubjectAccessReview each.
Reviewed(h) ==
    IF SkipReview THEN {}
    ELSE GetImpersonatingGroups(h) \cup ({h.user} \ {NoUser})

\* The deferred assignments at the end of GetUserAndGroups.
Impersonated(person, h) ==
    LET groups == GetImpersonatingGroups(h)
    IN  [by |-> person,
         user |-> IF h.user # NoUser THEN h.user ELSE person.user,
         groups |-> IF groups # {} THEN groups
                    ELSE IF h.user # NoUser THEN ImpliedGroups[h.user]
                    ELSE person.groups]

Resolved(i) == [status |-> "ok", identity |-> i]
Unauthorized == [status |-> "403"]
Failed == [status |-> "500"]

Denied(p, h) == \E name \in Reviewed(h) : <<p.user, name>> \notin MayImpersonate

GetUserAndGroups(h) ==
    LET persons == authenticate(h)
    IN  {Resolved(Impersonated(p, h)) : p \in {q \in persons : ~Denied(q, h)}}
        \cup (IF MayBeUnauthenticated(h) \/ \E p \in persons : Denied(p, h)
              THEN {Unauthorized} ELSE {})
        \cup (IF CallsFail /\ persons # {} /\ Reviewed(h) # {}
              THEN {Failed} ELSE {})

\* The identity cached in the context wins.
ResolveUserAndGroups(h, cached) ==
    IF cached # NoIdentity THEN {Resolved(cached)} ELSE GetUserAndGroups(h)

-----------------------------------------------------------------------------
(* Writing responses. *)

Write(status) ==
    IF inner THEN /\ recorded' = Append(recorded, status)
                  /\ UNCHANGED answer
             ELSE /\ answer' = Append(answer, status)
                  /\ UNCHANGED recorded

\* A handler writes an error and returns: reverseProxyMiddleware goes on.
Reject(status) ==
    /\ Write(status)
    /\ pc' = "forward"
    /\ UNCHANGED <<client, header, filtered, identity, inner, upstream>>

Continue(next) ==
    /\ pc' = next
    /\ UNCHANGED <<client, header, filtered, identity, inner, answer, recorded, upstream>>

ContinueAs(i, next) ==
    /\ pc' = next
    /\ identity' = i
    /\ UNCHANGED <<client, header, filtered, inner, answer, recorded, upstream>>

\* Mutant: the panic is logged, nothing is written.
RecoverSilently ==
    /\ pc' = "done"
    /\ inner' = FALSE
    /\ UNCHANGED <<client, header, filtered, identity, answer, recorded, upstream>>

\* recoveryMiddleware: a panic unwinds the whole chain and is answered, except
\* the reverse proxy's ErrAbortHandler when the copy of a response fails: it is
\* raised again, and the server closes the connection on what was written.
Abort == CallsFail /\ pc' = "aborted"

Recover ==
    /\ answer' = Append(answer, "500")
    /\ pc' = "done"
    /\ inner' = FALSE
    /\ UNCHANGED <<client, header, filtered, identity, recorded, upstream>>

-----------------------------------------------------------------------------
(* The middlewares of the root router. *)

RequireTrustedSourceMiddleware ==
    /\ pc = "trusted"
    /\ IF client.trusted THEN Continue("authorization")
       ELSE /\ answer' = Append(answer, "403")
            /\ pc' = "done"
            /\ UNCHANGED <<client, header, filtered, identity, inner, recorded, upstream>>

hasBearerToken == header.authorization # NoToken /\ client.bearer

\* The first half of authorizationMiddleware: a self review is sent with the
\* caller's own token, or takes the chain with its response recorded.
authorizationMiddleware ==
    /\ pc = "authorization"
    /\ inner' = (client.path = "review")
    /\ pc' = IF client.path = "review" /\ hasBearerToken
             THEN "forward" ELSE "paths"
    /\ UNCHANGED <<client, header, filtered, identity, answer, recorded, upstream>>

CheckPaths ==
    \/ pc = "paths" /\ Continue(IF client.path \in AllowedPaths THEN "impersonate" ELSE "jwt")
    \/ pc = "modulePaths" /\ Continue("moduleJwt")

\* CheckJWTMiddleware: a TokenReview, of which only the error status counts.
CheckJWTMiddleware ==
    /\ pc \in {"jwt", "moduleJwt"}
    /\ \/ Continue(IF pc = "moduleJwt" THEN "ignored"
                   ELSE IF client.path = "module" THEN "modulePaths" ELSE "impersonate")
       \/ /\ CallsFail
          /\ header.authorization # NoToken
          /\ \E status \in {"403", "500"} : Reject(status)

-----------------------------------------------------------------------------
(* The middlewares and the handler of a module's route. *)

identityIsIgnored(i) == i.user \in IgnoredUsers \/ i.groups \cap IgnoredGroups # {}

\* Mutant: ignored identities are filtered like others.
CheckIgnoredIgnoresNobody ==
    /\ pc = "ignored"
    /\ IF IgnoredUsers \cup IgnoredGroups = {} THEN Continue("capsule")
       ELSE \E o \in ResolveUserAndGroups(header, identity) :
              IF o.status # "ok" THEN Reject(o.status)
              ELSE ContinueAs(o.identity, "capsule")

CheckUserInIgnoredIdentityMiddleware ==
    /\ pc = "ignored"
    /\ IF IgnoredUsers \cup IgnoredGroups = {} THEN Continue("capsule")
       ELSE \E o \in ResolveUserAndGroups(header, identity) :
              IF o.status # "ok" THEN Reject(o.status)
              ELSE ContinueAs(o.identity,
                     IF identityIsIgnored(o.identity) THEN "impersonate" ELSE "capsule")

isCapsuleUser(i) == i.groups \cap CapsuleGroups # {} \/ i.user \in CapsuleUsers

CheckUserInCapsuleGroupMiddleware ==
    /\ pc = "capsule"
    /\ \E o \in ResolveUserAndGroups(header, identity) :
          IF o.status # "ok" THEN Reject(o.status)
          ELSE ContinueAs(o.identity,
                 IF isCapsuleUser(o.identity) THEN "handle" ELSE "impersonate")

\* The module route.  The identity is in the context by now.  Listing the
\* tenants or the module's Handle fails or panics, or Handle yields no selector,
\* or one.
moduleHandler ==
    /\ pc = "handle"
    /\ \/ Recover
       \/ \E status \in {"404", "500"} : Reject(status)
       \/ Continue("impersonate")
       \/ Continue("filter")

-----------------------------------------------------------------------------
(* What the request is turned into before it is sent. *)

\* BearerToken yields the proxy's token or, where it has none, "".
WithToken(h, token) == IF token = NoToken THEN h ELSE [h EXCEPT !.authorization = token]

\* Headers that the Connection header lists are removed, by impersonateHandler
\* and by the reverse proxy.
WithoutHopByHop(h) ==
    [authorization |-> IF "Authorization" \in h.connection THEN NoToken ELSE h.authorization,
     user |-> IF "Impersonate-User" \in h.connection THEN NoUser ELSE h.user,
     groups |-> IF "Impersonate-Group" \in h.connection THEN {} ELSE h.groups,
     connection |-> {},
     certs |-> h.certs]

\* Mutant: the user's name is added as a group.
WithImpersonationAsGroup(h, i) == [h EXCEPT !.groups = @ \cup i.groups \cup {i.user}]

\* Header.Add keeps the values that are there; the first user counts.
WithImpersonation(h, i) ==
    [h EXCEPT !.user = IF @ = NoUser THEN i.user ELSE @,
              !.groups = @ \cup i.groups]

SanitizeImpersonationHeaders(h) == [h EXCEPT !.user = NoUser, !.groups = {}]

\* Mutant: the Connection header is left to the reverse proxy.
impersonateHandlerKeepsConnection ==
    /\ pc = "impersonate"
    /\ \E o \in ResolveUserAndGroups(header, identity) :
          \/ o.status # "ok" /\ Reject(o.status)
          \/ /\ o.status = "ok"
             /\ header' = WithImpersonation(WithToken(header, ProxyToken), o.identity)
             /\ identity' = o.identity
             /\ pc' = "forward"
             /\ UNCHANGED <<client, filtered, inner, answer, recorded, upstream>>

\* Mutant: the proxy's token is set before the identity is resolved.
impersonateHandlerTokenFirst ==
    /\ pc = "impersonate"
    /\ pc' = "forward"
    /\ \E o \in ResolveUserAndGroups(header, identity) :
          \/ /\ o.status # "ok"
             /\ Write(o.status)
             /\ header' = WithToken(header, ProxyToken)
             /\ UNCHANGED <<client, filtered, identity, inner, upstream>>
          \/ /\ o.status = "ok"
             /\ header' = WithImpersonation(WithoutHopByHop(WithToken(header, ProxyToken)), o.identity)
             /\ identity' = o.identity
             /\ UNCHANGED <<client, filtered, inner, answer, recorded, upstream>>

impersonateHandler ==
    /\ pc = "impersonate"
    /\ \E o \in ResolveUserAndGroups(header, identity) :
          \/ o.status # "ok" /\ Reject(o.status)
          \/ o.status = "ok" /\ CallsFail /\ Recover
          \/ \E token \in {ProxyToken, NoToken} :
                /\ o.status = "ok"
                /\ header' = WithImpersonation(WithoutHopByHop(WithToken(header, token)), o.identity)
                /\ identity' = o.identity
                /\ pc' = "forward"
                /\ UNCHANGED <<client, filtered, inner, answer, recorded, upstream>>

handleRequest ==
    /\ pc = "filter"
    /\ \/ CallsFail /\ Recover
       \/ \E token \in {ProxyToken, NoToken} :
             /\ header' = WithToken(SanitizeImpersonationHeaders(header), token)
             /\ filtered' = TRUE
             /\ pc' = "forward"
             /\ UNCHANGED <<client, identity, inner, answer, recorded, upstream>>

\* reverseProxyMiddleware, once the handlers behind it have returned; and the
\* direct call by authorizationMiddleware.
reverseProxy ==
    /\ pc = "forward"
    /\ LET h == WithoutHopByHop(header)
       IN  upstream' = upstream \cup
              {[authorization |-> h.authorization, user |-> h.user, groups |-> h.groups,
                filtered |-> filtered, identity |-> identity]}
    /\ Write("upstream")
    /\ \/ pc' = IF inner THEN "review" ELSE "done"
       \/ Abort
    /\ UNCHANGED <<client, header, filtered, identity, inner>>

\* The second half of authorizationMiddleware.  Its request has no identity in
\* its context, but the headers that the handlers before have left.  A recorded
\* body that is not the API server's answer alone cannot be decoded: the nil
\* kind makes the handler panic.
MutateAuthorization ==
    /\ pc = "review"
    /\ inner' = FALSE
    /\ pc' = "done"
    /\ \E o \in ResolveUserAndGroups(header, NoIdentity) :
          /\ identity' = IF o.status = "ok" THEN o.identity ELSE identity
          /\ \E status \in
                IF o.status # "ok" THEN {o.status}
                ELSE (IF recorded = <<"upstream">> THEN {"granted"} ELSE {"500"})
                     \cup (IF CallsFail THEN {"500"} ELSE {}) :
                answer' = Append(answer, status)
    /\ UNCHANGED <<client, header, filtered, recorded, upstream>>

-----------------------------------------------------------------------------
Init ==
    /\ client \in Clients
    /\ header = [authorization |-> client.authorization, user |-> client.user,
                 groups |-> client.groups, connection |-> client.connection,
                 certs |-> ForwardedCerts(client.xfcc)]
    /\ filtered = FALSE
    /\ identity = NoIdentity
    /\ inner = FALSE
    /\ pc = "trusted"
    /\ answer = << >>
    /\ recorded = << >>
    /\ upstream = {}

Next ==
    \/ RequireTrustedSourceMiddleware
    \/ authorizationMiddleware
    \/ CheckPaths
    \/ CheckJWTMiddleware
    \/ CheckUserInIgnoredIdentityMiddleware
    \/ CheckUserInCapsuleGroupMiddleware
    \/ moduleHandler
    \/ impersonateHandler
    \/ handleRequest
    \/ reverseProxy
    \/ MutateAuthorization

Spec == Init /\ [][Next]_vars /\ WF_vars(Next)

-----------------------------------------------------------------------------
(* Properties. *)

Header ==
    [authorization : Tokens \cup {ProxyToken, NoToken}, user : Users \cup {NoUser},
     groups : SUBSET Groups,
     connection : SUBSET {"Authorization", "Impersonate-User", "Impersonate-Group"},
     certs : SUBSET Certs]

Statuses == {"403", "404", "500", "upstream", "granted"}

SentType ==
    [authorization : Tokens \cup {ProxyToken, NoToken}, user : Users \cup {NoUser},
     groups : SUBSET Groups, filtered : BOOLEAN, identity : Identity \cup {NoIdentity}]

\* The type invariant of a request's state.
TypeOK ==
    /\ client \in Clients
    /\ header \in Header
    /\ filtered \in BOOLEAN
    /\ identity \in Identity \cup {NoIdentity}
    /\ inner \in BOOLEAN
    /\ pc \in {"trusted", "authorization", "paths", "jwt", "modulePaths", "moduleJwt", "ignored",
               "capsule", "handle", "filter", "impersonate", "forward", "review", "done",
               "aborted"}
    /\ answer \in Seq(Statuses)
    /\ recorded \in Seq(Statuses)
    /\ upstream \subseteq SentType

\* The requests that the API server attributes to the proxy itself.
SentByProxy == {s \in upstream : s.authorization = ProxyToken}

\* A request that carries the proxy's own token impersonates the identity that
\* was resolved for the caller, with all its groups, or carries a module's
\* selector and impersonates nobody.  The caller's headers, among them a
\* Connection header that names the impersonation headers, do not change this
\* (impersonateHandler, removingHopByHopHeaders, handleRequest).  The one
\* caller for whom no user is impersonated is the subject of a TLS certificate
\* that has no name itself (authenticate).
ProxyTokenGuarded ==
    \A s \in SentByProxy :
        /\ s.identity # NoIdentity
        /\ \/ /\ ~s.filtered
              /\ s.user = s.identity.user /\ s.identity.groups \subseteq s.groups
              /\ s.user = NoUser => s.identity.by = client.cert /\ s.identity.by.user = NoUser
           \/ s.filtered /\ s.user = NoUser /\ s.groups = {}

\* A group or user that is impersonated with the proxy's token belongs to the
\* caller that was authenticated, is implied by the service account it names,
\* or was reviewed for that caller (GetUserAndGroups, impersonateHandler).
ImpersonationReviewed ==
    \A s \in SentByProxy :
        LET by == s.identity.by
            allowed == {name \in Users \cup Groups : <<by.user, name>> \in MayImpersonate}
        IN  /\ s.user \in {by.user, NoUser} \cup allowed
            /\ s.groups \subseteq by.groups \cup allowed
                                  \cup (IF s.user = NoUser THEN {} ELSE ImpliedGroups[s.user])

\* A request for which an error was written is sent on nonetheless, by
\* reverseProxyMiddleware; it then carries no credentials but the caller's.
RejectedSentAsCaller ==
    (\E w \in {answer, recorded} : \E i \in 1..(Len(w) - 1) : w[i] # "upstream") =>
        \A s \in upstream : s.authorization \in {client.authorization, NoToken}

\* Only requests of Capsule users that are not ignored are filtered by a
\* module instead of being subject to the caller's own permissions.
FilteredIsCapsuleUser ==
    \A s \in upstream : s.filtered =>
        /\ s.identity # NoIdentity
        /\ isCapsuleUser(s.identity)
        /\ ~identityIsIgnored(s.identity)

\* The proxy looks at forwarded certificates.
ForwardedAuth == \E i \in DOMAIN AuthTypes : AuthTypes[i] = "XForwardedClientCert"

\* A caller that comes with a forwarded certificate and nothing else is the
\* subject of the certificate that the proxy in front wrote into the header,
\* whatever text the quoted fields hold; a header with several certificates, or
\* with one that has no user name, identifies nobody (processXFCC).  Of a self
\* review this cannot be said: MutateAuthorization resolves its caller from
\* headers that may hold the proxy's token by then.
ForwardedIdentity ==
    client.xfcc # << >> /\ client.authorization = NoToken /\ client.websocket = NoToken
    /\ client.cert = NoIdentity /\ client.user = NoUser /\ client.groups = {}
    /\ client.path # "review" =>
        LET known == client.forwarded # NoCert /\ CertIdentity[client.forwarded].user # NoUser
        IN  /\ identity # NoIdentity => known /\ identity.by = CertIdentity[client.forwarded]
            /\ known /\ client.trusted /\ ForwardedAuth =>
                  \A i \in DOMAIN answer : answer[i] # "403"

\* Every request is answered, or its connection is closed in the middle of the
\* API server's response (recoveryMiddleware, reverseProxyMiddleware).
Answered ==
    <>(\/ pc = "done" /\ answer # << >>
       \/ pc = "aborted" /\ upstream # {})

\* No request goes to the API server as the proxy itself: one that carries the
\* proxy's token without a selector impersonates somebody (impersonateHandler).
UnauthenticatedNotSent ==
    \A s \in SentByProxy : ~s.filtered => s.user # NoUser \/ s.groups # {}

\* A tenant owner that asks whether it may list namespaces is told so.
SelfReviewGranted ==
    pc = "done" /\ client.path = "review" /\ client.trusted
        => answer = <<"granted">>

=============================================================================
