------------------------------ MODULE Packets ------------------------------
(***************************************************************************)
(* What becomes of one packet between the TUN interfaces of two nodes:     *)
(* writePC and readPC of src/src/ipv6rwc/ipv6rwc.go, ReadFrom and WriteTo  *)
(* of src/src/core/core.go, the Packet Too Big answer of icmpv6.go, and the*)
(* MTUs that src/src/tun/tun.go agrees with both.  KeyStore models how     *)
(* writePC finds the owner of a destination.                               *)
(***************************************************************************)
EXTENDS Integers, FiniteSetsExt

CONSTANTS
    Nodes,
    Sizes,        \* sizes of packets to look at
    MTUs,         \* values of IfMTU to look at
    ConnMTU,      \* PacketConn.MTU() of the routing layer
    PlatformMTU   \* MaximumIfMTU of the platform

ASSUME MTUAssumption ==
    /\ Sizes \subseteq Nat /\ MTUs \subseteq Nat
    /\ ConnMTU \in Nat /\ ConnMTU > 1280
    /\ PlatformMTU \in 1280 .. 65535

\* A destination is a node's address, a host of its subnet, or neither.
Foreign == [node |-> "none", kind |-> "foreign"]
IPs == [node: Nodes, kind: {"address", "subnet"}] \cup {Foreign}
Packet == [ipv6: BOOLEAN, size: Sizes, src: IPs, dst: IPs, type: {"data"}]

\* The comparison of both the address and the subnet with a node's own.
Owns(node, ip) == ip # Foreign /\ ip.node = node

----------------------------------------------------------------------------
(* MTUs.                                                                   *)

\* Core.MTU.
CoreMTU == Min({ConnMTU - 1, 65535})

\* getSupportedMTU.
getSupportedMTU(mtu) == Min({Max({mtu, 1280}), PlatformMTU})

\* _start and setup: what the interface is created with, as the system reports it,
\* brought into the supported range and set on the link.  It is the MTU of a start
\* that succeeds: setup fails when the system refuses to create an interface of
\* that MTU, or to set the 0 that a failing iface.MTU() leaves in tun.mtu; no
\* adapter runs then (StartFails of Tun, ModuleFails of Node).
InterfaceMTU(ifmtu) == getSupportedMTU(Min({ifmtu, CoreMTU}))

\* SetMTU of the key store.
SetMTU(mtu) == Max({Min({mtu, CoreMTU}), 1280})

\* The value of keyStore.mtu after _start.
AdapterMTU(ifmtu) == SetMTU(getSupportedMTU(InterfaceMTU(ifmtu)))

----------------------------------------------------------------------------
(* Packets.                                                                *)

\* WriteTo of the core, and ReadFrom on the other side: a byte for the type of
\* session before the packet, and a packet cut to the reader's buffer.
CoreWriteTo(p) == [session |-> "traffic", packet |-> p]
CoreReadFrom(msg, room) ==
    IF msg.session # "traffic" THEN {}
    ELSE {[msg.packet EXCEPT !.size = Min({@, room})]}

\* Mutant: the packet is cited in full.
PacketTooBig_Full(p) ==
    [ipv6 |-> TRUE, size |-> 40 + 8 + p.size, src |-> p.dst, dst |-> p.src, type |-> "ptb"]

\* CreateICMPv6 as readPC calls it: a header, the ICMPv6 header, 512 bytes of the
\* packet, from where the packet went to where it came from.
PacketTooBig(p) ==
    [ipv6 |-> TRUE, size |-> 40 + 8 + Min({512, p.size}), src |-> p.dst, dst |-> p.src,
     type |-> "ptb"]

\* writePC: whether the packet is sent to the owner of its destination.
writePC(node, p) ==
    /\ p.size > 0 /\ p.ipv6 /\ p.size >= 40
    /\ Owns(node, p.src)
    /\ p.dst # Foreign

Nothing == [deliver |-> FALSE, learn |-> FALSE, replies |-> {}]

\* One round of the loop of readPC: what it hands to the TUN, whether it enters the
\* sender in the key store, what it sends.  A packet that is too big is answered
\* before the addresses are looked at.
readPC(node, mtu, p, from) ==
    IF p.size = 0 \/ ~p.ipv6 \/ p.size < 40 THEN Nothing
    ELSE IF p.size > mtu
      THEN [Nothing EXCEPT !.replies = {q \in {PacketTooBig(p)} : writePC(node, q)}]
    ELSE IF ~Owns(node, p.dst) THEN Nothing
    ELSE [Nothing EXCEPT !.learn = TRUE, !.deliver = Owns(from, p.src)]

----------------------------------------------------------------------------
(* Properties.                                                             *)

\* Interface, key store and core agree: the interface takes exactly the packets
\* that the key store takes, none the core could not carry, and never less than
\* IPv6 asks for.
MTUsAgree(ifmtu) ==
    /\ AdapterMTU(ifmtu) = InterfaceMTU(ifmtu)
    /\ AdapterMTU(ifmtu) \in 1280 .. CoreMTU

\* Whatever arrives from a node, a packet that reaches the TUN is from an address
\* of the authenticated sender to one of the node's own; an answer goes out only
\* in the node's own name; nothing else makes the node learn a key.
Authentic(node, mtu, p, from) ==
    LET r == readPC(node, mtu, p, from)
    IN  /\ r.deliver => Owns(from, p.src) /\ Owns(node, p.dst) /\ p.size <= mtu
        /\ \A q \in r.replies : Owns(node, q.src)
        /\ r.learn => Owns(node, p.dst)

\* A packet that a node accepts from its TUN for another node is delivered there or
\* answered; the answer passes the checks of both nodes, reaches the TUN of the
\* first, and is never itself too big: no packet is lost in silence, and no two
\* nodes answer each other's answers.
DeliveredOrAnswered(a, b, p, ifmtuA, ifmtuB) ==
    LET r == CHOOSE x \in {readPC(b, AdapterMTU(ifmtuB), q, a) :
                             q \in CoreReadFrom(CoreWriteTo(p), CoreMTU)} : TRUE
        Back(q) == CHOOSE x \in {readPC(a, AdapterMTU(ifmtuA), y, b) :
                                   y \in CoreReadFrom(CoreWriteTo(q), CoreMTU)} : TRUE
    IN  (writePC(a, p) /\ Owns(b, p.dst) /\ p.size <= InterfaceMTU(ifmtuA)) =>
          /\ r.deliver \/ r.replies # {}
          /\ \A q \in r.replies : /\ Owns(a, q.dst)
                                  /\ Back(q).deliver /\ Back(q).replies = {}
=============================================================================
