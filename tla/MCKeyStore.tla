----------------------------- MODULE MCKeyStore -----------------------------
(* KeyStore for TLC: two keys with an address and a subnet each.           *)
EXTENDS KeyStore, TLC

CONSTANTS k1, k2, a1, a2, s1, s2

MCDestsOf == k1 :> {a1, s1} @@ k2 :> {a2, s2}
=============================================================================
