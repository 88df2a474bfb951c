---------------------------- MODULE MCProxyToken ----------------------------
(***************************************************************************)
(* Two requests that refresh the token at the same time.                   *)
(***************************************************************************)
EXTENDS ProxyToken

CONSTANTS t1, t2, k1, k2, k3, k4

MCGoroutines == {t1, t2}
MCTokens == {k1, k2, k3, k4}

=============================================================================
