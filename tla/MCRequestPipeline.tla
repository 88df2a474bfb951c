------------------------- MODULE MCRequestPipeline -------------------------
(***************************************************************************)
(* Requests of alice, who may impersonate the service account sa and the   *)
(* group ops, by token or by certificate, with every combination of paths, *)
(* impersonation headers and Connection headers.                           *)
(***************************************************************************)
EXTENDS RequestPipeline

CONSTANTS alice, bob, sa, proxy, dev, ops, sas

MCUsers == {alice, bob, sa, proxy}
MCGroups == {dev, ops, sas}
aliceInDev == [user |-> alice, groups |-> {dev}]

MCTokens == {"alice"}
MCTokenIdentity ==
    [t \in MCTokens \cup {"proxy"} |->
        IF t = "proxy" THEN [user |-> proxy, groups |-> {sas}] ELSE aliceInDev]

MCMayImpersonate == ({alice} \X {sa, ops}) \cup ({proxy} \X (MCUsers \cup MCGroups))
MCImpliedGroups == [u \in MCUsers |-> IF u = sa THEN {sas} ELSE {}]

DefaultAuthTypes == <<"TLSCertificate", "BearerToken">>
AllAuthTypes == <<"BearerToken", "XForwardedClientCert", "TLSCertificate", "Anonymous">>

\* The certificate of alice, one of bob and one without a user name.
MCCerts == {"PEM-alice", "PEM-bob", "PEM-nobody"}
MCCertHash == [c \in MCCerts |-> CASE c = "PEM-alice" -> "sum-alice"
                                   [] c = "PEM-bob" -> "sum-bob"
                                   [] c = "PEM-nobody" -> "sum-nobody"]
MCCertIdentity ==
    [c \in MCCerts |-> CASE c = "PEM-alice" -> aliceInDev
                         [] c = "PEM-bob" -> [user |-> bob, groups |-> {ops}]
                         [] c = "PEM-nobody" -> [user |-> NoUser, groups |-> {dev}]]

\* A block ends with a line break, and so does the word "line".
MCLineEnds == MCCerts \cup {"line"}

Word(name, word) == [name |-> name, text |-> <<word>>, quoted |-> FALSE]
Text(name, text) == [name |-> name, text |-> text, quoted |-> TRUE]

Entry(c, subject) ==
    WrittenEntry(<<Word("Hash", MCCertHash[c]), Text("Cert", <<c>>), Text("Subject", subject)>>)
EntryWithoutHash(c, subject) ==
    Written(Text("Subject", subject)) \o <<";", " ", "Cert", "=", c, " ">>

\* The text of a subject, of at most MaxText elements.
MaxText == 4
Texts == UNION {[1..n -> {"\"", "\\", ",", ";", "=", "Cert", "PEM-bob"}] : n \in 0..MaxText}

Request(values, cert) ==
    [path |-> "module", trusted |-> TRUE, authorization |-> NoToken, bearer |-> TRUE, websocket |-> NoToken,
     cert |-> NoIdentity, xfcc |-> values, forwarded |-> cert,
     user |-> NoUser, groups |-> {}, connection |-> {}]

ForwardedClients ==
    {Request(<<Entry("PEM-alice", text)>>, "PEM-alice") : text \in Texts}
    \cup {Request(<<EntryWithoutHash("PEM-alice", text)>>, "PEM-alice") : text \in Texts}
    \cup {[Request(<<Entry("PEM-alice", << >>)>>, "PEM-alice") EXCEPT !.path = path] :
             path \in {"review", "allowed", "other"}}
    \cup {Request(<<Entry("PEM-nobody", <<"PEM-bob">>)>>, "PEM-nobody"),
          \* text before the certificate, which must begin a line; two certificates
          Request(<<<<"Cert", "=", "text", "line", "PEM-alice">>>>, "PEM-alice"),
          Request(<<<<"Cert", "=", "text", "PEM-alice">>>>, NoCert),
          Request(<<<<"Cert", "=", "text", "PEM-bob", "PEM-alice">>>>, "PEM-alice"),
          Request(<<<<"Cert", "=", "PEM-bob", "PEM-alice">>>>, NoCert),
          \* two headers, two entries, another certificate's fingerprint, no field
          Request(<<Entry("PEM-alice", << >>), Entry("PEM-bob", << >>)>>, NoCert),
          Request(<<Entry("PEM-alice", << >>) \o <<",">> \o Entry("PEM-bob", << >>)>>, NoCert),
          Request(<<<<"Hash", "=", "sum-bob", ";", "Cert", "=", "PEM-alice">>>>, NoCert),
          Request(<<<<"Cert", "=", "\"", "PEM-alice">>>>, NoCert),
          Request(<<<<"PEM-alice">>>>, NoCert)}

\* The subjects of TLS certificates without a common name.
Nameless == [user : {NoUser}, groups : {{}, {dev}}]

\* All requests with at most one kind of credentials.
MCClients ==
    {c \in [path : {"review", "module", "allowed", "other"}, trusted : {TRUE},
            authorization : MCTokens \cup {NoToken}, bearer : BOOLEAN, websocket : {NoToken},
            cert : {aliceInDev, NoIdentity} \cup Nameless,
            xfcc : {<< >>}, forwarded : {NoCert}, user : {bob, sa, NoUser}, groups : SUBSET {dev, ops},
            connection : SUBSET {"Authorization", "Impersonate-User", "Impersonate-Group"}] :
        /\ c.authorization # NoToken => c.cert = NoIdentity
        /\ ~c.bearer => c.authorization # NoToken}
    \cup {[Request(<< >>, NoCert) EXCEPT !.trusted = b, !.websocket = "alice"] : b \in BOOLEAN}
    \cup ForwardedClients

\* Requests with a TLS certificate, without impersonation headers of their own.
PlainCertClients ==
    {c \in MCClients : c.cert = aliceInDev /\ c.user = NoUser /\ c.groups = {} /\ c.connection = {}}

=============================================================================
