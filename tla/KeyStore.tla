------------------------------ MODULE KeyStore ------------------------------
(***************************************************************************)
(* The key store of src/src/ipv6rwc/ipv6rwc.go: the maps from keys,        *)
(* addresses and subnets to keyInfo structs, the packets buffered for      *)
(* destinations whose key is not known yet, and the timers that clean both *)
(* up.                                                                     *)
(*                                                                         *)
(* Every operation holds the mutex while it looks at the maps, and what it *)
(* does after unlocking touches only the immutable key of its info, so it  *)
(* is one step.  A timer's callback is not part of that: a timer that has  *)
(* fired and waits for the mutex can no longer be stopped, and runs after  *)
(* whatever operation holds the mutex.                                     *)
(*                                                                         *)
(* Addresses and subnets are treated alike by the code, map by map and     *)
(* line by line; both are members of Dests here.                           *)
(***************************************************************************)
EXTENDS Naturals, FiniteSets

CONSTANTS
    Keys,      \* public keys of remote nodes
    Dests,     \* destinations: addresses and subnets
    DestsOf,   \* the address and the subnet derived from a key
    KeyInfos,  \* names of keyInfo structs
    Buffers,   \* names of buffer structs
    None

ASSUME DestsAssumption == DestsOf \in [Keys -> SUBSET Dests]
ASSUME NamesAssumption ==
    /\ None \notin Keys \cup Dests \cup KeyInfos \cup Buffers
    /\ KeyInfos \cap Buffers = {}

VARIABLES
    keyToInfo,  \* the map keyToInfo
    destToInfo, \* the maps addrToInfo and subnetToInfo
    destBuffer, \* the maps addrBuffer and subnetBuffer
    keyOf,      \* keyInfo.key
    bufDest,    \* the destination the callback of a buffer's timer captured
    armed,      \* the infos and buffers whose timer is running
    fired       \* the infos and buffers with a callback that waits for the mutex

vars == <<keyToInfo, destToInfo, destBuffer, keyOf, bufDest, armed, fired>>

\* What the maps and structs may hold; an info with a timer has its key, which
\* the timer's callback reads.
TypeOK ==
    /\ keyToInfo \in [Keys -> KeyInfos \cup {None}]
    /\ destToInfo \in [Dests -> KeyInfos \cup {None}]
    /\ destBuffer \in [Dests -> Buffers \cup {None}]
    /\ keyOf \in [KeyInfos -> Keys \cup {None}]
    /\ bufDest \in [Buffers -> Dests \cup {None}]
    /\ armed \in SUBSET (KeyInfos \cup Buffers)
    /\ fired \in SUBSET (KeyInfos \cup Buffers)
    /\ \A o \in KeyInfos \cap (armed \cup fired) : keyOf[o] # None

Init ==
    /\ keyToInfo = [k \in Keys |-> None]
    /\ destToInfo = [d \in Dests |-> None]
    /\ destBuffer = [d \in Dests |-> None]
    /\ keyOf = [o \in KeyInfos |-> None]
    /\ bufDest = [b \in Buffers |-> None]
    /\ armed = {}
    /\ fired = {}

\* Structs that new() may return: no map and no timer refers to them.
FreshInfo(o) ==
    /\ o \notin armed \cup fired
    /\ \A k \in Keys : keyToInfo[k] # o
    /\ \A d \in Dests : destToInfo[d] # o
FreshBuffer(b) ==
    /\ b \notin armed \cup fired
    /\ \A d \in Dests : destBuffer[d] # b

\* Mutant: the timer is stopped and not started again.
ResetTimeout_Stops(x) == armed' = armed \ {x} /\ UNCHANGED fired

\* Stop the timer, if it still runs, and start a new one: resetTimeout, and
\* the same lines for buffers.  A callback that already waits is not stopped.
ResetTimeout(x) == armed' = armed \cup {x} /\ UNCHANGED fired

----------------------------------------------------------------------------
(* sendToAddress and sendToSubnet.                                         *)

\* The key is known: refresh its timer and send.
SendKnown(d) ==
    /\ destToInfo[d] # None
    /\ ResetTimeout(destToInfo[d])
    /\ UNCHANGED <<keyToInfo, destToInfo, destBuffer, keyOf, bufDest>>

\* Mutant: the packet is buffered although the key is known.
SendUnknown_Unchecked(d, b) ==
    /\ IF destBuffer[d] # None THEN b = destBuffer[d] ELSE FreshBuffer(b)
    /\ destBuffer' = [destBuffer EXCEPT ![d] = b]
    /\ bufDest' = [bufDest EXCEPT ![b] = d]
    /\ ResetTimeout(b)
    /\ UNCHANGED <<keyToInfo, destToInfo, keyOf>>

\* It is not: the packet takes the place of the one in the buffer, if any,
\* and a lookup is sent.
SendUnknown(d, b) ==
    /\ destToInfo[d] = None
    /\ IF destBuffer[d] # None THEN b = destBuffer[d] ELSE FreshBuffer(b)
    /\ destBuffer' = [destBuffer EXCEPT ![d] = b]
    /\ bufDest' = [bufDest EXCEPT ![b] = d]
    /\ ResetTimeout(b)
    /\ UNCHANGED <<keyToInfo, destToInfo, keyOf>>

----------------------------------------------------------------------------
(* update: a packet or a path notification has come from a key.            *)

UpdateKnown(k) ==
    /\ keyToInfo[k] # None
    /\ ResetTimeout(keyToInfo[k])
    /\ UNCHANGED <<keyToInfo, destToInfo, destBuffer, keyOf, bufDest>>

\* Mutant: a buffered packet is sent and stays in the buffer.
UpdateNew_KeepsBuffers(k, o) ==
    /\ keyToInfo[k] = None
    /\ FreshInfo(o)
    /\ keyOf' = [keyOf EXCEPT ![o] = k]
    /\ keyToInfo' = [keyToInfo EXCEPT ![k] = o]
    /\ destToInfo' = [d \in Dests |-> IF d \in DestsOf[k] THEN o ELSE destToInfo[d]]
    /\ ResetTimeout(o)
    /\ UNCHANGED <<destBuffer, bufDest>>

\* A new key: enter it under its address and its subnet, over what was there,
\* and send what was buffered for them.
UpdateNew(k, o) ==
    /\ keyToInfo[k] = None
    /\ FreshInfo(o)
    /\ keyOf' = [keyOf EXCEPT ![o] = k]
    /\ keyToInfo' = [keyToInfo EXCEPT ![k] = o]
    /\ destToInfo' = [d \in Dests |-> IF d \in DestsOf[k] THEN o ELSE destToInfo[d]]
    /\ destBuffer' = [d \in Dests |-> IF d \in DestsOf[k] THEN None ELSE destBuffer[d]]
    /\ ResetTimeout(o)
    /\ UNCHANGED bufDest

----------------------------------------------------------------------------
(* Timers.                                                                 *)

\* The runtime starts the callback's goroutine.
TimerFires(x) ==
    /\ x \in armed
    /\ armed' = armed \ {x}
    /\ fired' = fired \cup {x}
    /\ UNCHANGED <<keyToInfo, destToInfo, destBuffer, keyOf, bufDest>>

\* Mutant: only the entry of the key is deleted.
InfoTimeout_KeyOnly(o) ==
    /\ o \in fired
    /\ fired' = fired \ {o}
    /\ keyToInfo' = IF keyToInfo[keyOf[o]] = o
                      THEN [keyToInfo EXCEPT ![keyOf[o]] = None] ELSE keyToInfo
    /\ UNCHANGED <<destToInfo, destBuffer, keyOf, bufDest, armed>>

\* Mutant: the entries of the address and the subnet are deleted whosever they are.
InfoTimeout_AnyDestEntry(o) ==
    /\ o \in fired
    /\ fired' = fired \ {o}
    /\ keyToInfo' = IF keyToInfo[keyOf[o]] = o
                      THEN [keyToInfo EXCEPT ![keyOf[o]] = None] ELSE keyToInfo
    /\ destToInfo' = [d \in Dests |->
                         IF d \in DestsOf[keyOf[o]] THEN None ELSE destToInfo[d]]
    /\ UNCHANGED <<destBuffer, keyOf, bufDest, armed>>

\* The callback of resetTimeout gets the mutex: it deletes the entries that
\* are still this info's.
InfoTimeout(o) ==
    /\ o \in fired
    /\ fired' = fired \ {o}
    /\ keyToInfo' = IF keyToInfo[keyOf[o]] = o
                      THEN [keyToInfo EXCEPT ![keyOf[o]] = None] ELSE keyToInfo
    /\ destToInfo' = [d \in Dests |->
                         IF d \in DestsOf[keyOf[o]] /\ destToInfo[d] = o
                           THEN None ELSE destToInfo[d]]
    /\ UNCHANGED <<destBuffer, keyOf, bufDest, armed>>

\* Mutant: the buffer is not deleted.
BufferTimeout_KeepsBuffer(b) ==
    /\ b \in fired
    /\ fired' = fired \ {b}
    /\ UNCHANGED <<keyToInfo, destToInfo, destBuffer, keyOf, bufDest, armed>>

\* The callback of a buffer's timer gets the mutex.
BufferTimeout(b) ==
    /\ b \in fired
    /\ fired' = fired \ {b}
    /\ destBuffer' = IF destBuffer[bufDest[b]] = b
                       THEN [destBuffer EXCEPT ![bufDest[b]] = None] ELSE destBuffer
    /\ UNCHANGED <<keyToInfo, destToInfo, keyOf, bufDest, armed>>

----------------------------------------------------------------------------
Traffic ==
    \/ \E d \in Dests : SendKnown(d)
    \/ \E d \in Dests, b \in Buffers : SendUnknown(d, b)
    \/ \E k \in Keys : UpdateKnown(k)
    \/ \E k \in Keys, o \in KeyInfos : UpdateNew(k, o)

Cleanup ==
    \/ \E x \in KeyInfos \cup Buffers : TimerFires(x)
    \/ \E o \in KeyInfos : InfoTimeout(o)
    \/ \E b \in Buffers : BufferTimeout(b)

Next == Traffic \/ Cleanup

Spec == Init /\ [][Next]_vars

\* Timers fire and callbacks get the mutex.  Nobody has to send or to answer.
FairSpec ==
    /\ Spec
    /\ \A x \in KeyInfos \cup Buffers : WF_vars(TimerFires(x))
    /\ \A o \in KeyInfos : WF_vars(InfoTimeout(o))
    /\ \A b \in Buffers : WF_vars(BufferTimeout(b))

----------------------------------------------------------------------------
(* Properties.                                                             *)

\* No two keys have an address or a subnet in common.
Injective == \A k, m \in Keys : k # m => DestsOf[k] \cap DestsOf[m] = {}

\* A packet is never left in a buffer once its destination's key is known:
\* sendToAddress buffers only on a miss and update takes the buffers along,
\* under any interleaving of senders, notifications and late callbacks.
NoPacketStranded ==
    \A d \in Dests : destToInfo[d] # None => destBuffer[d] = None

\* The address and subnet maps agree with the key map: what they point to is
\* the info of a known key that owns the destination, so a callback that
\* deletes an info never leaves a half of it behind.
MapsAgree ==
    \A d \in Dests : destToInfo[d] # None =>
        /\ keyToInfo[keyOf[destToInfo[d]]] = destToInfo[d]
        /\ d \in DestsOf[keyOf[destToInfo[d]]]

\* A known key is found under its address and its subnet, as update leaves it,
\* as long as keys do not collide.
KnownKeysReachable ==
    Injective => \A k \in Keys : keyToInfo[k] # None =>
        \A d \in DestsOf[k] : destToInfo[d] = keyToInfo[k]

\* Every entry has a timer that will fire or a callback on its way: no info and
\* no buffered packet stays in the maps for ever (resetTimeout, sendTo...).
EntriesExpire ==
    /\ \A k \in Keys : keyToInfo[k] # None => keyToInfo[k] \in armed \cup fired
    /\ \A d \in Dests : destBuffer[d] # None =>
           /\ destBuffer[d] \in armed \cup fired
           /\ bufDest[destBuffer[d]] = d

\* When traffic ends, every map is empty in the end: what refreshes an entry
\* arms a new timer, and the callback finds the entry it was made for.
QuietDrains ==
    <>[][Cleanup]_vars =>
        <>[](/\ \A k \in Keys : keyToInfo[k] = None
             /\ \A d \in Dests : destToInfo[d] = None /\ destBuffer[d] = None)

\* The abstract cache: the keys in keyToInfo, the destinations with a buffer.
Cache == INSTANCE KeyCache WITH
    known <- {k \in Keys : keyToInfo[k] # None},
    waiting <- {d \in Dests : destBuffer[d] # None}

\* The key store is such a cache: a packet is held back only while no known
\* key owns its destination.
ImplementsCache == Cache!Spec
=============================================================================
