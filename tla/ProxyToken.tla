----------------------------- MODULE ProxyToken -----------------------------
(***************************************************************************)
(* The service account token of the proxy itself, which every request that *)
(* the proxy filters or impersonates is sent with (BearerToken,            *)
(* bearerExpirationTime and NewKubeFilter in internal/webserver/           *)
(* webserver.go).  The kubelet renews the token in a file before it        *)
(* expires; the proxy keeps a copy and its expiration time, and reads the  *)
(* file again once that time has passed.  Every request's goroutine does   *)
(* so without a lock: the token and the time are assigned one after the    *)
(* other, and the assignment of a Go string is itself two stores, of its   *)
(* bytes and of its length.  The time is one store, as only its seconds    *)
(* differ.                                                                 *)
(*                                                                         *)
(* Tokens are taken from a finite set and used again once nothing refers   *)
(* to them, so that time may go on for ever.                               *)
(***************************************************************************)
EXTENDS Naturals, Sequences, SequencesExt

CONSTANTS
    Goroutines,    \* that serve requests
    Tokens,
    Empty          \* the content of a file that cannot be read

ASSUME EmptyAssumption == Empty \notin Tokens

VARIABLES
    valid,          \* the tokens that have not expired, the last is in the file
    readable,       \* whether the file can be read
    bearerToken,    \* [bytes, length]: whose bytes, with whose length
    bearerTokenExpirationTime,    \* the token whose expiration time it is
    call,           \* goroutine -> its call of BearerToken
    overlapped      \* history: the last refresh began within another

tokenVars == <<valid, readable, bearerToken, bearerTokenExpirationTime, call, overlapped>>

NoCall == [pc |-> "idle"]

-----------------------------------------------------------------------------
(* The kubelet and the clock. *)

Refreshing == {t \in Goroutines : call[t].pc \in {"read", "bytes", "length", "expiration"}}

\* What the goroutines hold of the file.
Held == {call[t].token : t \in {u \in Refreshing : call[u].pc # "read"}}

InUse == ToSet(valid) \cup Held
            \cup {bearerToken.bytes, bearerToken.length, bearerTokenExpirationTime}

\* The kubelet renews the token in the file.
Rotate ==
    /\ \E token \in Tokens \ InUse : valid' = Append(valid, token)
    /\ UNCHANGED <<readable, bearerToken, bearerTokenExpirationTime, call, overlapped>>

\* The oldest token expires.  The one in the file does not, as the kubelet
\* renews it in time, and none does within the moment that a refresh takes:
\* tokens last for ten minutes at least.
Expire ==
    /\ Len(valid) > 1
    /\ Refreshing = {}
    /\ valid' = Tail(valid)
    /\ UNCHANGED <<readable, bearerToken, bearerTokenExpirationTime, call, overlapped>>

\* The file is gone, or there again.
ChangeReadable ==
    /\ readable' = ~readable
    /\ UNCHANGED <<valid, bearerToken, bearerTokenExpirationTime, call, overlapped>>

-----------------------------------------------------------------------------
(* BearerToken. *)

SetCall(t, c) ==
    /\ call' = [call EXCEPT ![t] = c]
    /\ overlapped' = IF c.pc = "read" THEN Refreshing # {} ELSE overlapped
    /\ UNCHANGED <<valid, readable>>

Expired(token) == token \notin ToSet(valid)

\* Mutant: the file is read only if there is no token yet.
BearerTokenOnce(t) ==
    /\ call[t].pc = "idle"
    /\ SetCall(t, [pc |-> IF bearerToken.bytes = Empty THEN "read" ELSE "return"])
    /\ UNCHANGED <<bearerToken, bearerTokenExpirationTime>>

\* time.Now().After(n.bearerTokenExpirationTime)
BearerToken(t) ==
    /\ call[t].pc = "idle"
    /\ SetCall(t, [pc |-> IF Expired(bearerTokenExpirationTime) THEN "read" ELSE "return"])
    /\ UNCHANGED <<bearerToken, bearerTokenExpirationTime>>

\* The error of os.ReadFile is dropped, and the token is empty.
ReadFile(t) ==
    /\ call[t].pc = "read"
    /\ SetCall(t, [pc |-> "bytes", token |-> IF readable THEN Last(valid) ELSE Empty])
    /\ UNCHANGED <<bearerToken, bearerTokenExpirationTime>>

StoreBytes(t) ==
    /\ call[t].pc = "bytes"
    /\ bearerToken' = [bearerToken EXCEPT !.bytes = call[t].token]
    /\ SetCall(t, [call[t] EXCEPT !.pc = "length"])
    /\ UNCHANGED bearerTokenExpirationTime

StoreLength(t) ==
    /\ call[t].pc = "length"
    /\ bearerToken' = [bearerToken EXCEPT !.length = call[t].token]
    /\ SetCall(t, [call[t] EXCEPT !.pc = "expiration"])
    /\ UNCHANGED bearerTokenExpirationTime

\* Mutant: the time of an empty token is that of the token before it was lost.
StoreExpirationKept(t) ==
    /\ call[t].pc = "expiration"
    /\ SetCall(t, [pc |-> "return"])
    /\ bearerTokenExpirationTime' = IF call[t].token = Empty THEN Last(valid) ELSE call[t].token
    /\ UNCHANGED bearerToken

\* Mutant: an empty content has the zero time.
StoreExpirationZero(t) ==
    /\ call[t].pc = "expiration"
    /\ SetCall(t, [pc |-> "return"])
    /\ bearerTokenExpirationTime' = call[t].token
    /\ UNCHANGED bearerToken

\* bearerExpirationTime dereferences a nil token if the content is empty: the
\* request panics, which recoveryMiddleware answers, and the old time stays.
StoreExpiration(t) ==
    /\ call[t].pc = "expiration"
    /\ IF call[t].token = Empty
       THEN SetCall(t, NoCall) /\ UNCHANGED bearerTokenExpirationTime
       ELSE /\ SetCall(t, [pc |-> "return"])
            /\ bearerTokenExpirationTime' = call[t].token
    /\ UNCHANGED bearerToken

\* The field is read once more for the request's header.
Return(t) ==
    /\ call[t].pc = "return"
    /\ SetCall(t, NoCall)
    /\ UNCHANGED <<bearerToken, bearerTokenExpirationTime>>

-----------------------------------------------------------------------------
\* NewKubeFilter takes the token that the client configuration read.
TokenInit ==
    \E token \in Tokens :
        /\ valid = <<token>>
        /\ readable = TRUE
        /\ bearerToken = [bytes |-> token, length |-> token]
        /\ bearerTokenExpirationTime = token
        /\ call = [t \in Goroutines |-> NoCall]
        /\ overlapped = FALSE

Call(t) ==
    \/ BearerToken(t) \/ ReadFile(t)
    \/ StoreBytes(t) \/ StoreLength(t) \/ StoreExpiration(t)
    \/ Return(t)

TokenNext ==
    \/ Rotate \/ Expire \/ ChangeReadable
    \/ \E t \in Goroutines : Call(t)

\* Tokens are renewed and expire; requests keep coming and go on.
TokenFairness ==
    /\ SF_tokenVars(Rotate) /\ SF_tokenVars(Expire)
    /\ \A t \in Goroutines : WF_tokenVars(Call(t))

TokenSpec == TokenInit /\ [][TokenNext]_tokenVars /\ TokenFairness

-----------------------------------------------------------------------------
(* Properties. *)

Strings == [bytes : Tokens \cup {Empty}, length : Tokens \cup {Empty}]

\* The type invariant: the tokens that are valid are in the order of their
\* expiration, and each once; the time is always that of a token.
TokenTypeOK ==
    /\ valid \in Seq(Tokens) /\ valid # << >> /\ IsInjective(valid)
    /\ readable \in BOOLEAN
    /\ bearerToken \in Strings
    /\ bearerTokenExpirationTime \in Tokens
    /\ overlapped \in BOOLEAN
    /\ \A t \in Goroutines :
          \/ call[t] \in [pc : {"idle", "read", "return"}]
          \/ call[t] \in [pc : {"bytes", "length", "expiration"}, token : Tokens \cup {Empty}]

\* A token that the API server accepts.
Accepted(string) == string.bytes = string.length /\ string.bytes \in ToSet(valid)

\* The proxy never holds on to a token that is not accepted, as long as the
\* file stays readable: whatever the goroutines made of the three fields when
\* they refreshed them at once (a torn string, a token with the time of a newer
\* one, an empty token after a failed read), a valid token is there again in
\* the end.
TokenRenewed == <>[]readable => []<>Accepted(bearerToken)

\* Requests that do not race leave the fields as one would expect: the token
\* and its own time, or no token and a time that has passed, so that the next
\* request reads the file again.
RefreshConsistent ==
    Refreshing = {} /\ ~overlapped =>
        LET time == bearerTokenExpirationTime
        IN  \/ bearerToken = [bytes |-> time, length |-> time]
            \/ bearerToken = [bytes |-> Empty, length |-> Empty] /\ Expired(time)

=============================================================================
