---------------------------- MODULE MCHandshake ----------------------------
(* Handshake for TLC: two nodes, a legacy one and one of another version;  *)
(* an ordinary connection and one with a relay.                            *)
EXTENDS Handshake, TLC

CONSTANTS a, b, l, w, p, q, c1, c2

MCAllowed == a :> {b} @@ b :> {l} @@ l :> {} @@ w :> {}
MCVersion == a :> 5 @@ b :> 5 @@ l :> 5 @@ w :> 6

Plain == [password |-> p, secure |-> FALSE, pinned |-> {}, local |-> FALSE]
Secure == [password |-> p, secure |-> TRUE, pinned |-> {a}, local |-> FALSE]
MCOptions == {
    Plain,
    Secure,
    [password |-> p, secure |-> FALSE, pinned |-> {}, local |-> TRUE],
    [password |-> q, secure |-> FALSE, pinned |-> {}, local |-> FALSE] }

IsPlain(c) ==
    \A e \in {c} \X {"dial", "accept"} : node[e] \in {a, b} /\ option[e] = Plain

\* b dials a and insists on a confirmation.
IsSecure(c) ==
    /\ node[<<c, "dial">>] = b /\ option[<<c, "dial">>] = Secure
    /\ node[<<c, "accept">>] = a /\ option[<<c, "accept">>] = Plain

\* The relayed connection is between a and b, with plain options or with a
\* caller that insists on a confirmation.
MCInit == Init /\ (IsPlain(c2) \/ (IsPlain(c1) /\ IsSecure(c2)))
MCSpec == MCInit /\ [][Next]_vars

\* It is used only beside an ordinary connection of the same kind, which no
\* relay reaches: the other configurations are about the ordinary one alone.
MCScope == IsPlain(c1) \/ \A e \in {c2} \X {"dial", "accept"} : pc[e] = "start"
=============================================================================
