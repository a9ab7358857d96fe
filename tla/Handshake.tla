----------------------------- MODULE Handshake -----------------------------
(***************************************************************************)
(* The handshake of two nodes: links.handler() of src/src/core/link.go up  *)
(* to HandleConn, with the metadata and the confirmation of                *)
(* src/src/core/version.go and the check of src/src/core/tls.go.           *)
(*                                                                         *)
(* Both ends of a connection run the same code: write the metadata, read   *)
(* the other side's, and, if it announces the capability, write and read a *)
(* confirmation.  What follows the read of a message is decided at once,   *)
(* in the order of the code.                                               *)
(*                                                                         *)
(* A message is the record of its fields.  Hashes do not collide,          *)
(* signatures are made by the owner of a key only, and the nonce of an end *)
(* is its own name: nonces are fresh.  A relay in the middle of a          *)
(* connection (Relayed) may pass on any message written on any connection, *)
(* and a hello without its extensions, which still verifies: its last      *)
(* signature covers the password and the key and nothing else (Stripped).  *)
(* What it makes up beyond that does not verify and is rejected like a     *)
(* confirmation in the place of a hello.                                   *)
(***************************************************************************)
EXTENDS Sequences, FiniteSets

CONSTANTS
    Nodes,      \* nodes, and their public keys
    Legacy,     \* the nodes that speak protocol 0.5 without confirmations
    Conns,      \* connections
    Relayed,    \* the connections with a relay in the middle
    Options,    \* link options: records of OptionType
    Allowed,    \* AllowedPublicKeys of a node, empty for anybody
    Version,    \* the protocol version of a node
    Passwords,
    None

Ends == Conns \X {"dial", "accept"}

\* linkOptions and the local argument of handler().
OptionType == [password: Passwords, secure: BOOLEAN, pinned: SUBSET Nodes, local: BOOLEAN]

ASSUME NodesAssumption ==
    /\ Legacy \subseteq Nodes
    /\ Relayed \subseteq Conns
    /\ Allowed \in [Nodes -> SUBSET Nodes]
    /\ None \notin Nodes
ASSUME OptionsAssumption == Options \subseteq OptionType

VARIABLES
    node,    \* the node at each end
    tls,     \* the connections made by the tls carrier
    option,  \* the linkOptions of each end
    pc,      \* where handler() is at each end
    wire,    \* localMeta: the metadata an end has written
    got,     \* remoteMeta: the metadata it has accepted
    stream,  \* what has been written to an end and not been read
    sent     \* every message ever written

vars == <<node, tls, option, pc, wire, got, stream, sent>>
setup == <<node, tls, option>>

Partner(e) == IF e[2] = "dial" THEN <<e[1], "accept">> ELSE <<e[1], "dial">>

----------------------------------------------------------------------------
(* Messages.                                                               *)

\* version_metadata.encode.  A legacy node writes neither nonce nor capability.
Meta(e) == [kind |-> "meta", key |-> node[e], version |-> Version[node[e]],
            nonce |-> e, confirm |-> node[e] \notin Legacy,
            password |-> option[e].password]

\* Mutant: the hash covers the two identities and not the metadata.
Transcript_KeysOnly(m, n) == {m.key, n.key}

\* confirmationHash: the two messages in the order of their keys, so that both
\* ends hash the same.
Transcript(m, n) == {m, n}

\* encodeConfirmation.
Confirmation(e) == [kind |-> "conf", key |-> node[e], password |-> option[e].password,
                    transcript |-> Transcript(wire[e], got[e])]

\* version_metadata.decode: the preamble, and the signature over the password
\* and the key.  The signature over all fields is checked only if the capability
\* is announced: such a hello verifies only as it was written, any other one
\* with whatever fields it was given (Stripped).
DecodeMeta(e, m) == m.kind = "meta" /\ m.password = option[e].password

\* decodeConfirmation: the preamble and the signature of the remote identity.
DecodeConfirmation(e, m) ==
    /\ m.kind = "conf"
    /\ m.key = got[e].key
    /\ m.password = option[e].password
    /\ m.transcript = Transcript(wire[e], got[e])

\* The versions there are.
Versions == {Version[n] : n \in Nodes}

MetaType == [kind: {"meta"}, key: Nodes, version: Versions, nonce: Ends,
             confirm: BOOLEAN, password: Passwords]

Labels == {"start", "meta", "confirm", "await", "verify", "up", "rejected", "aborted"}

\* What the variables of handler() may hold.
TypeOK ==
    /\ node \in [Ends -> Nodes]
    /\ tls \in SUBSET Conns
    /\ option \in [Ends -> Options]
    /\ pc \in [Ends -> Labels]
    /\ wire \in [Ends -> MetaType \cup {None}]
    /\ got \in [Ends -> MetaType \cup {None}]

\* A connection is open; nothing has been written.  A legacy node accepts, and
\* only who accepts may be local.
Init ==
    /\ node \in [Ends -> Nodes]
    /\ tls \in SUBSET Conns
    /\ option \in [Ends -> Options]
    /\ \A e \in Ends : e[2] = "dial" => node[e] \notin Legacy /\ ~option[e].local
    /\ pc = [e \in Ends |-> "start"]
    /\ wire = [e \in Ends |-> None]
    /\ got = [e \in Ends |-> None]
    /\ stream = [e \in Ends |-> <<>>]
    /\ sent = {}

Goto(e, label) == pc' = [pc EXCEPT ![e] = label]

\* conn.Write.  A relay has what it gets in sent.
Write(e, m) ==
    /\ sent' = sent \cup {m}
    /\ stream' = IF e[1] \in Relayed THEN stream
                 ELSE [stream EXCEPT ![Partner(e)] = Append(@, m)]

\* What is left of a hello without nonce, capability and transcript signature,
\* under any version: decode() finds the legacy signature in its place.
Stripped(m) == {[m EXCEPT !.confirm = FALSE, !.version = v] : v \in Versions}

\* What a relay can pass on that decode() or decodeConfirmation() may accept.
Passable == sent \cup UNION {Stripped(m) : m \in {n \in sent : n.kind = "meta"}}

\* io.ReadFull: the next message is m.
Read(e, m) ==
    /\ UNCHANGED sent
    /\ IF e[1] \in Relayed
         THEN m \in Passable /\ UNCHANGED stream
         ELSE /\ stream[e] # <<>>
              /\ m = Head(stream[e])
              /\ stream' = [stream EXCEPT ![e] = Tail(@)]

----------------------------------------------------------------------------
(* handler().                                                              *)

\* Encode the metadata, set the deadline, write.
WriteMeta(e) ==
    /\ pc[e] = "start"
    /\ node[e] \notin Legacy
    /\ wire' = [wire EXCEPT ![e] = Meta(e)]
    /\ Write(e, Meta(e))
    /\ Goto(e, "meta")
    /\ UNCHANGED <<setup, got>>

\* Mutant: the node's own key is as good as any other.
Acceptable_Self(e, m) ==
    /\ DecodeMeta(e, m)
    /\ m.version = Version[node[e]]
    /\ m.confirm \/ ~option[e].secure

\* remoteMeta.check(), the check for the node's own key, and requireSecure.
Acceptable(e, m) ==
    /\ DecodeMeta(e, m)
    /\ m.version = Version[node[e]]
    /\ m.key # node[e]
    /\ m.confirm \/ ~option[e].secure

\* Mutant: a confirmation is exchanged with a node that did not announce it.
ReadMeta_AlwaysConfirms(e, m) ==
    /\ pc[e] = "meta"
    /\ node[e] \notin Legacy
    /\ Read(e, m)
    /\ IF Acceptable(e, m)
         THEN got' = [got EXCEPT ![e] = m] /\ Goto(e, "confirm")
         ELSE Goto(e, "rejected") /\ UNCHANGED got
    /\ UNCHANGED <<setup, wire>>

\* Read the metadata and check it.
ReadMeta(e, m) ==
    /\ pc[e] = "meta"
    /\ node[e] \notin Legacy
    /\ Read(e, m)
    /\ IF Acceptable(e, m)
         THEN /\ got' = [got EXCEPT ![e] = m]
              /\ Goto(e, IF m.confirm THEN "confirm" ELSE "verify")
         ELSE Goto(e, "rejected") /\ UNCHANGED got
    /\ UNCHANGED <<setup, wire>>

\* Mutant: the confirmation is left for after the other side's was read.
WriteConfirmation_Later(e) ==
    /\ pc[e] = "confirm"
    /\ Goto(e, "await")
    /\ UNCHANGED <<setup, wire, got, stream, sent>>

\* Sign the transcript and write the confirmation.
WriteConfirmation(e) ==
    /\ pc[e] = "confirm"
    /\ Write(e, Confirmation(e))
    /\ Goto(e, "await")
    /\ UNCHANGED <<setup, wire, got>>

\* Read the other side's confirmation and check it.
ReadConfirmation(e, m) ==
    /\ pc[e] = "await"
    /\ Read(e, m)
    /\ Goto(e, IF DecodeConfirmation(e, m) THEN "verify" ELSE "rejected")
    /\ UNCHANGED <<setup, wire, got>>

\* Mutant: only the operator's pins are checked, not AllowedPublicKeys.
Authorised_AnyCaller(e) ==
    /\ e[1] \in tls => got[e].key = node[Partner(e)]
    /\ option[e].pinned # {} => got[e].key \in option[e].pinned

\* verifyTLSPeerIdentity, the pinned keys, and AllowedPublicKeys for a
\* connection that was accepted, unless by a local listener.  The transport is
\* with the node at the other end, whatever that one passes on; its certificate
\* is one of this program's, so the errors about the number of certificates and
\* the type of their key are left out: each ends in the same rejection.
Authorised(e) ==
    /\ e[1] \in tls => got[e].key = node[Partner(e)]
    /\ option[e].pinned # {} => got[e].key \in option[e].pinned
    /\ e[2] = "accept" /\ ~option[e].local /\ Allowed[node[e]] # {}
         => got[e].key \in Allowed[node[e]]

\* The checks after the handshake proper, and the call of HandleConn.
Verify(e) ==
    /\ pc[e] = "verify"
    /\ Goto(e, IF Authorised(e) THEN "up" ELSE "rejected")
    /\ UNCHANGED <<setup, wire, got, stream, sent>>

\* The deadline passes, or a read or a write fails: the connection is closed.
Abort(e) ==
    /\ pc[e] \notin {"up", "rejected", "aborted"}
    /\ Goto(e, "aborted")
    /\ UNCHANGED <<setup, wire, got, stream, sent>>

\* A legacy node as the end-to-end tests have it: it reads the metadata, skips
\* what it does not know, answers, and reads on.
LegacyAnswer(e, m) ==
    /\ pc[e] = "start"
    /\ node[e] \in Legacy
    /\ e[1] \notin Relayed
    /\ stream[e] # <<>>
    /\ m = Head(stream[e])
    /\ m.kind = "meta"
    /\ wire' = [wire EXCEPT ![e] = Meta(e)]
    /\ got' = [got EXCEPT ![e] = m]
    /\ sent' = sent \cup {Meta(e)}
    /\ stream' = [stream EXCEPT ![e] = Tail(@), ![Partner(e)] = Append(@, Meta(e))]
    /\ Goto(e, "up")
    /\ UNCHANGED setup

Step(e) ==
    \/ WriteMeta(e) \/ WriteConfirmation(e) \/ Verify(e) \/ Abort(e)
    \/ \E m \in Passable : ReadMeta(e, m) \/ ReadConfirmation(e, m) \/ LegacyAnswer(e, m)

Next == \E e \in Ends : Step(e)

Spec == Init /\ [][Next]_vars

----------------------------------------------------------------------------
(* Properties.                                                             *)

\* What handler() goes by is vouched for by its owner, whatever a relay passed
\* on: the owner of the key has written a hello with that password, and a hello
\* that announces the capability is taken only as it was written (decode() checks
\* the transcript signature then, and the legacy signature always).
Vouched ==
    \A e \in Ends : got[e] # None =>
        \E m \in sent :
            /\ m.kind = "meta" /\ m.key = got[e].key /\ m.password = got[e].password
            /\ got[e].confirm => m = got[e]

\* An end that handed its connection to the router after a confirmation.
Confirmed(e) == pc[e] = "up" /\ node[e] \notin Legacy /\ got[e].confirm

\* An end that finished and whose options ask for a confirmation.
Secured(e) == pc[e] = "up" /\ node[e] \notin Legacy /\ option[e].secure

\* Both ends hold the same two hellos: whoever finished with a confirmation, or
\* with requireSecure, has talked to the owner of the key it goes by, which had
\* accepted exactly the metadata this end wrote (link.go: "Bind both
\* independently generated nonces, identities and all negotiated metadata").  A
\* hello whose capability a relay took away does not get past requireSecure; an
\* end without it and without a confirmation is promised nothing here.
Agreement ==
    \A e \in Ends : Confirmed(e) \/ Secured(e) =>
        \E f \in Ends \ {e} :
            node[f] = got[e].key /\ wire[f] = got[e] /\ got[f] = wire[e]

\* link.go: "A captured hello or confirmation cannot be replayed into another
\* connection".  No two ends finish with a confirmation on the strength of one
\* hello; ends that finish without one may well have been given the same.
NotReplayed ==
    \A e, f \in Ends : Confirmed(e) /\ Confirmed(f) /\ got[e] = got[f] => e = f

Waits(e) ==
    /\ stream[e] = <<>>
    /\ pc[e] \in {"meta", "await"} \/ (pc[e] = "start" /\ node[e] \in Legacy)

\* The two ends of a connection never wait for each other: the deadline is
\* there for broken connections, not for the protocol.
NoMutualWait ==
    \A e \in Ends : e[1] \notin Relayed => ~(Waits(e) /\ Waits(Partner(e)))

\* HandleConn never reads a message of the handshake: the two ends agree on
\* whether confirmations are exchanged, with a legacy node too.
NoResidue ==
    \A e \in Ends : e[1] \notin Relayed /\ pc[e] = "up" => stream[e] = <<>>

\* What the two configurations say, and nothing else.
Compatible(e, f) ==
    /\ node[e] # node[f]
    /\ Version[node[e]] = Version[node[f]]
    /\ option[e].password = option[f].password
    /\ option[e].secure => node[f] \notin Legacy
    /\ option[e].pinned # {} => node[f] \in option[e].pinned
    /\ e[2] = "accept" /\ ~option[e].local /\ Allowed[node[e]] # {}
         => node[f] \in Allowed[node[e]]

\* handler() rejects a connection that was not tampered with only because of
\* what is configured at the two ends, and connects it only if that allows it.
FollowsConfiguration ==
    \A e \in Ends : e[1] \notin Relayed /\ node[e] \notin Legacy =>
        /\ pc[e] = "rejected" => ~Compatible(e, Partner(e))
        /\ pc[e] = "up" => Compatible(e, Partner(e))
=============================================================================
