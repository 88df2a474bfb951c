SPECIFICATION Spec
CONSTANTS
    alice = alice
    bob = bob
    sa = sa
    proxy = proxy
    dev = dev
    ops = ops
    sas = sas
    NoUser = NoUser
    NoIdentity = NoIdentity
    NoToken = "none"
    NoCert = "none"
    Certs <- MCCerts
    CertHash <- MCCertHash
    CertIdentity <- MCCertIdentity
    Words = {"text", "line"}
    LineEnds <- MCLineEnds
    ProxyToken = "proxy"
    Users <- MCUsers
    Groups <- MCGroups
    Tokens <- MCTokens
    TokenIdentity <- MCTokenIdentity
    MayImpersonate <- MCMayImpersonate
    ImpliedGroups <- MCImpliedGroups
    Clients <- MCClients
    AuthTypes <- AllAuthTypes
    IgnoredImpersonation = {}
    SkipReview = FALSE
    AllowedPaths = {"allowed"}
    IgnoredUsers = {sa}
    IgnoredGroups = {}
    CapsuleUsers = {}
    CapsuleGroups = {dev, sas}
    CallsFail = TRUE
INVARIANTS
    TypeOK
    ProxyTokenGuarded
    ImpersonationReviewed
    RejectedSentAsCaller
    FilteredIsCapsuleUser
    ForwardedIdentity
PROPERTY
    Answered
CHECK_DEADLOCK FALSE
