----------------------------- MODULE Addresses -----------------------------
(***************************************************************************)
(* src/src/address/address.go: the IPv6 address and the /64 subnet of a    *)
(* public key, and the partial key that a lookup is sent for.              *)
(*                                                                         *)
(* Keys, addresses and subnets are sequences of bits.  The number of bits  *)
(* of a byte is a parameter; a key has as many bits as a byte has values,  *)
(* as 256 and 8 are in the code, so that the counter of leading ones is as *)
(* close to its limit as it is there.                                      *)
(***************************************************************************)
EXTENDS Integers, Sequences, SequencesExt

CONSTANTS
    Byte,          \* bits of a byte
    AddressBytes,  \* len(Address)
    SubnetBytes    \* len(Subnet)

Inverse01(bs) == [i \in DOMAIN bs |-> 1 - bs[i]]
Zeros(n) == [i \in 1 .. n |-> 0]
Ones(n) == [i \in 1 .. n |-> 1]

\* The value of the bits of a byte.
ByteValue(bs) == FoldLeft(LAMBDA v, b : 2 * v + b, 0, bs)

KeyBits == ByteValue(Ones(Byte)) + 1
AddressBits == Byte * AddressBytes
SubnetBits == Byte * SubnetBytes

ASSUME BytesAssumption ==
    /\ Byte \in Nat /\ Byte > 1
    /\ AddressBytes \in Nat
    /\ SubnetBytes \in 2 .. AddressBytes

PublicKeys == [1 .. KeyBits -> {0, 1}]

\* The bits of a byte of each value.
ByteBits ==
    [v \in 0 .. KeyBits - 1 |-> CHOOSE bs \in [1 .. Byte -> {0, 1}] : ByteValue(bs) = v]

\* copy() of bs into n zero bits.
CopyInto(bs, n) == IF Len(bs) < n THEN bs \o Zeros(n - Len(bs)) ELSE SubSeq(bs, 1, n)

\* 0x02, and the same with the bit that marks subnets.
GetPrefix == Zeros(Byte - 2) \o <<1, 0>>
SubnetPrefix == Zeros(Byte - 2) \o <<1, 1>>

\* Address.IsValid and Subnet.IsValid.
AddressIsValid(a) == SubSeq(a, 1, Byte) = GetPrefix
SubnetIsValid(s) == SubSeq(s, 1, Byte) = SubnetPrefix

\* One round of the loop of AddrForKey: count the leading ones in a byte, skip
\* the zero, then collect bytes.
ScanBit(st, bit) ==
    IF ~st.done /\ bit = 1 THEN [st EXCEPT !.ones = (@ + 1) % KeyBits]
    ELSE IF ~st.done THEN [st EXCEPT !.done = TRUE]
    ELSE LET full == Len(st.bits) = Byte - 1
         IN  [st EXCEPT !.bits = IF full THEN <<>> ELSE Append(@, bit),
                        !.temp = IF full THEN @ \o Append(st.bits, bit) ELSE @]

AddrForKey(key) ==
    LET start == [done |-> FALSE, ones |-> 0, bits |-> <<>>, temp |-> <<>>]
        end == FoldLeft(ScanBit, start, Inverse01(key))
    IN  CopyInto(GetPrefix \o ByteBits[end.ones] \o end.temp, AddressBits)

\* The address cut to its first bytes, with the bit of subnets.
SubnetForKey(key) ==
    SubnetPrefix \o SubSeq(AddrForKey(key), Byte + 1, SubnetBits)

\* Mutant: the zero that AddrForKey skipped is not put back.
GetKey_NoZero(a) ==
    LET ones == ByteValue(SubSeq(a, Byte + 1, 2 * Byte))
        rest == SubSeq(a, 2 * Byte + 1, Len(a))
    IN  Inverse01(CopyInto(Ones(ones) \o rest, KeyBits))

\* Address.GetKey: ones, a zero, the rest of the address while there is room.
GetKey(a) ==
    LET ones == ByteValue(SubSeq(a, Byte + 1, 2 * Byte))
        rest == SubSeq(a, 2 * Byte + 1, Len(a))
    IN  Inverse01(CopyInto(Ones(ones) \o <<0>> \o rest, KeyBits))

\* Subnet.GetKey.
SubnetGetKey(s) == GetKey(CopyInto(s, AddressBits))

\* keyXform of core.New: what the bloom filters and the lookups of the routing
\* layer compare keys by.
KeyXform(key) == SubnetGetKey(SubnetForKey(key))

----------------------------------------------------------------------------
(* Reference and properties.                                               *)

\* How many bits of bs are ones before the first zero.
LeadingOnes(bs) ==
    CHOOSE n \in 0 .. Len(bs) :
        /\ \A i \in 1 .. n : bs[i] = 1
        /\ n < Len(bs) => bs[n + 1] = 0

\* What the comment of AddrForKey says: the prefix, the number of leading ones
\* of the inverse, and the inverse without them and the zero, cut to length.  Where
\* the comment says no more than "truncated to the appropriate length", the rule
\* for a key that runs out of bits is the code's: bits that do not fill a byte are
\* dropped.
AddressReference(key) ==
    LET inv == Inverse01(key)
        n == LeadingOnes(inv)
        rest == SubSeq(inv, n + 2, Len(inv))
    IN  CopyInto(GetPrefix \o ByteBits[n]
                   \o SubSeq(rest, 1, Byte * (Len(rest) \div Byte)), AddressBits)

\* AddrForKey computes what its comment says, for every key but the one whose
\* inverse has more leading ones than a byte can count.
DerivesAddress(key) ==
    LeadingOnes(Inverse01(key)) < KeyBits => AddrForKey(key) = AddressReference(key)

\* A lookup for an address or a subnet finds its owner: the partial key that
\* sendToAddress or sendToSubnet asks for is equal to the owner's key as far as
\* the routing layer compares them, and stands for the same address and subnet.
\* This holds at the limits of the counter of leading ones as well.  writePC
\* tells the two kinds of destination apart, a host of a subnet included.
FindsOwner(key) ==
    LET a == GetKey(AddrForKey(key))
        s == SubnetGetKey(SubnetForKey(key))
    IN  /\ AddressIsValid(AddrForKey(key)) /\ ~SubnetIsValid(AddrForKey(key))
        /\ SubnetIsValid(SubnetForKey(key)) /\ ~AddressIsValid(SubnetForKey(key))
        /\ KeyXform(a) = KeyXform(key)
        /\ KeyXform(s) = KeyXform(key)
        /\ AddrForKey(a) = AddrForKey(key)
        /\ SubnetForKey(s) = SubnetForKey(key)
=============================================================================
