---- MODULE MCFunctions ----
(* The functions of Addresses, Packets, Doctor, PeerOrder and Config over   *)
(* bounded arguments: a behaviour picks a function, then its argument; the  *)
(* choice of a key is made in two halves.                                   *)
EXTENDS Addresses, Packets, Doctor, PeerOrder, Config

\* There are peers to list.
ASSUME SampleAssumption ==
    {} \notin {Costs, Priorities, Uptimes, Latencies, PeerKeys}

VARIABLE call

Half == [1 .. KeyBits \div 2 -> {0, 1}]

\* Peers that differ in what an order looks at.
Sample(order) ==
    LET One(S) == {CHOOSE x \in S : TRUE}
        For(orders, S) == IF order \in orders THEN S ELSE One(S)
    IN  [Up: For({"latency"}, BOOLEAN), Inbound: For({"default"}, BOOLEAN),
         Latency: For({"latency"}, Latencies), Cost: Costs,
         Priority: For({"default"}, Priorities),
         Uptime: For({"uptime", "cost", "default"}, Uptimes),
         PublicKey: PeerKeys]

Init == call = [of |-> "none"]

AddressHalf ==
    \E h \in Half : call' = [of |-> "half", high |-> h]
AddressCall ==
    /\ call.of = "half"
    /\ \E l \in Half : call' = [of |-> "address", key |-> call.high \o l]
PacketCall ==
    \E a, b \in Nodes, p \in Packet, mA, mB \in MTUs :
        call' = [of |-> "packet", a |-> a, b |-> b, p |-> p, mA |-> mA, mB |-> mB]
DoctorCall ==
    \E s \in Snapshots : call' = [of |-> "doctor", snapshot |-> s]
PeersPick ==
    \E o \in Orders : \E a \in Sample(o) : call' = [of |-> "pick", order |-> o, a |-> a]
PeersCall ==
    /\ call.of = "pick"
    /\ \E b, c \in Sample(call.order) :
         call' = [of |-> "peers", order |-> call.order, a |-> call.a, b |-> b, c |-> c]
ConfigCall ==
    \E doc \in Documents, f \in KeyFiles, r1, r2 \in Seeds :
        call' = [of |-> "config", doc |-> doc, keyFile |-> f, r1 |-> r1, r2 |-> r2]

Start == AddressHalf \/ PacketCall \/ DoctorCall \/ PeersPick \/ ConfigCall
Next == (call.of = "none" /\ Start) \/ AddressCall \/ PeersCall

Spec == Init /\ [][Next]_call

\* AddrForKey, GetKey and keyXform, see DerivesAddress and FindsOwner.
AddressesSound ==
    call.of = "address" => DerivesAddress(call.key) /\ FindsOwner(call.key)

\* The MTUs of _start and SetMTU, readPC of one node, writePC and readPC of two, see
\* MTUsAgree, Authentic and DeliveredOrAnswered.
PacketsSound ==
    call.of = "packet" =>
        /\ MTUsAgree(call.mA)
        /\ Authentic(call.a, AdapterMTU(call.mA), call.p, call.b)
        /\ call.a # call.b => DeliveredOrAnswered(call.a, call.b, call.p, call.mA, call.mB)

\* evaluateDoctor and doctorExitCode, see ExitCodeMeans and BestIsMinimum.
DoctorSound ==
    call.of = "doctor" => ExitCodeMeans(call.snapshot) /\ BestIsMinimum(call.snapshot)

\* The comparisons and the list of getPeersHandler, see OrdersPeers and FastestFirst.
PeersSound ==
    call.of = "peers" =>
        /\ OrdersPeers(call.order, call.a, call.b, call.c)
        /\ call.order = "latency" => FastestFirst(<<call.a, call.b, call.c>>)

\* ReadFrom, the flags that print an identity and the ones that rewrite a
\* configuration, see ReportsIdentity and KeepsIdentity.
IdentitySound ==
    call.of = "config" =>
        /\ ReportsIdentity(call.doc, call.keyFile, call.r1)
        /\ KeepsIdentity(call.doc, call.keyFile, call.r1, call.r2)
====
