--------------------------- MODULE KeyStoreProofs ---------------------------
(***************************************************************************)
(* Proofs about KeyStore, for any number of keys, destinations, infos and  *)
(* buffers: its invariants, and that it implements KeyCache.               *)
(***************************************************************************)
EXTENDS KeyStore, TLAPS

\* An entry of keyToInfo is filed under the key of its info, and every info in
\* the other maps has one.
InfoShape ==
    /\ \A k \in Keys : keyToInfo[k] # None => keyOf[keyToInfo[k]] = k
    /\ \A d \in Dests : destToInfo[d] # None => keyOf[destToInfo[d]] # None

\* A buffer with a timer has the destination that the callback will look at.
BufferShape ==
    \A b \in Buffers \cap (armed \cup fired) : bufDest[b] # None

IndInv ==
    /\ TypeOK
    /\ InfoShape
    /\ BufferShape
    /\ NoPacketStranded
    /\ MapsAgree
    /\ KnownKeysReachable
    /\ EntriesExpire

\* The empty store satisfies the invariant.
LEMMA InitInv == Init => IndInv
BY NamesAssumption, DestsAssumption
DEF Init, IndInv, TypeOK, InfoShape, BufferShape, NoPacketStranded, MapsAgree,
    KnownKeysReachable, EntriesExpire

\* Every step keeps it.
LEMMA NextInv == IndInv /\ [Next]_vars => IndInv'
<1> SUFFICES ASSUME IndInv, [Next]_vars
             PROVE  IndInv'
    OBVIOUS
<1> USE NamesAssumption, DestsAssumption
    DEF IndInv, TypeOK, InfoShape, BufferShape, NoPacketStranded, MapsAgree,
        KnownKeysReachable, EntriesExpire, ResetTimeout
<1>1. ASSUME NEW d \in Dests, SendKnown(d)
      PROVE  IndInv'
    <2>1. keyOf[destToInfo[d]] # None
        BY <1>1 DEF SendKnown
    <2> QED
        BY <1>1, <2>1 DEF SendKnown
<1>2. ASSUME NEW d \in Dests, NEW b \in Buffers, SendUnknown(d, b)
      PROVE  IndInv'
    BY <1>2 DEF SendUnknown, FreshBuffer
<1>3. ASSUME NEW k \in Keys, UpdateKnown(k)
      PROVE  IndInv'
    BY <1>3 DEF UpdateKnown
<1>4. ASSUME NEW k \in Keys, NEW o \in KeyInfos, UpdateNew(k, o)
      PROVE  IndInv'
    <2> USE <1>4 DEF UpdateNew, FreshInfo
    <2>1. TypeOK'
        OBVIOUS
    <2>2. InfoShape' /\ BufferShape'
        OBVIOUS
    <2>3. NoPacketStranded'
        OBVIOUS
    <2>4. MapsAgree'
        OBVIOUS
    <2>5. KnownKeysReachable'
        BY DEF Injective
    <2>6. EntriesExpire'
        OBVIOUS
    <2> QED
        BY <2>1, <2>2, <2>3, <2>4, <2>5, <2>6
<1>5. ASSUME NEW x \in KeyInfos \cup Buffers, TimerFires(x)
      PROVE  IndInv'
    BY <1>5 DEF TimerFires
<1>6. ASSUME NEW o \in KeyInfos, InfoTimeout(o)
      PROVE  IndInv'
    <2>1. keyOf[o] \in Keys
        BY <1>6 DEF InfoTimeout
    <2>2. \A d \in Dests : destToInfo'[d] = IF destToInfo[d] = o THEN None ELSE destToInfo[d]
        BY <1>6, <2>1 DEF InfoTimeout
    <2>3. \A k \in Keys : keyToInfo'[k] = IF keyToInfo[k] = o THEN None ELSE keyToInfo[k]
        BY <1>6, <2>1 DEF InfoTimeout
    <2>4. TypeOK'
        BY <1>6, <2>1 DEF InfoTimeout
    <2>5. UNCHANGED <<destBuffer, keyOf, bufDest, armed>> /\ fired' = fired \ {o}
        BY <1>6 DEF InfoTimeout
    <2>6. InfoShape' /\ BufferShape' /\ NoPacketStranded'
        BY <2>2, <2>3, <2>4, <2>5
    <2>7. MapsAgree'
        BY <2>2, <2>3, <2>4, <2>5
    <2>8. KnownKeysReachable'
        BY <2>2, <2>3, <2>4, <2>5
    <2>9. EntriesExpire'
        BY <2>2, <2>3, <2>4, <2>5
    <2> QED
        BY <2>4, <2>6, <2>7, <2>8, <2>9
<1>7. ASSUME NEW b \in Buffers, BufferTimeout(b)
      PROVE  IndInv'
    BY <1>7 DEF BufferTimeout
<1>8. CASE UNCHANGED vars
    BY <1>8 DEF vars
<1> QED
    BY <1>1, <1>2, <1>3, <1>4, <1>5, <1>6, <1>7, <1>8 DEF Next, Traffic, Cleanup

\* The invariant holds of every reachable state.
THEOREM Inductive == Spec => []IndInv
<1> QED
    BY InitInv, NextInv, PTL DEF Spec

\* The maps always hold what TypeOK says, and every info with a timer its key.
THEOREM TypeCorrect == Spec => []TypeOK
<1>1. IndInv => TypeOK
    BY DEF IndInv
<1> QED
    BY Inductive, <1>1, PTL

\* No packet is left in a buffer once the key of its destination is known,
\* even when keys collide.
THEOREM NoPacketIsStranded == Spec => []NoPacketStranded
<1>1. IndInv => NoPacketStranded
    BY DEF IndInv
<1> QED
    BY Inductive, <1>1, PTL

\* The three maps agree with each other, even when keys collide.
THEOREM TheMapsAgree == Spec => []MapsAgree
<1>1. IndInv => MapsAgree
    BY DEF IndInv
<1> QED
    BY Inductive, <1>1, PTL

\* A known key is found under its address and its subnet.
THEOREM KnownKeysAreReachable == Spec => []KnownKeysReachable
<1>1. IndInv => KnownKeysReachable
    BY DEF IndInv
<1> QED
    BY Inductive, <1>1, PTL

\* Every entry has a timer, or the callback of one, that will find it.
THEOREM EntriesHaveTimers == Spec => []EntriesExpire
<1>1. IndInv => EntriesExpire
    BY DEF IndInv
<1> QED
    BY Inductive, <1>1, PTL

----------------------------------------------------------------------------
(* Refinement.                                                             *)

\* A step of the store is a step of the cache, or changes nothing in it.
LEMMA StepRefines ==
    ASSUME Injective, IndInv, [Next]_vars
    PROVE  [Cache!Next]_(Cache!vars)
<1> DEFINE known == {k \in Keys : keyToInfo[k] # None}
           waiting == {d \in Dests : destBuffer[d] # None}
<1> USE NamesAssumption, DestsAssumption DEF Cache!vars
<1>1. ASSUME NEW d \in Dests, SendKnown(d)
      PROVE  UNCHANGED <<known, waiting>>
    BY <1>1 DEF SendKnown
<1>2. ASSUME NEW d \in Dests, NEW b \in Buffers, SendUnknown(d, b)
      PROVE  Cache!Hold(d)
    <2>1. ~Cache!Owned(d)
        BY <1>2 DEF SendUnknown, Cache!Owned, IndInv, TypeOK, KnownKeysReachable
    <2>2. waiting' = waiting \cup {d} /\ known' = known
        BY <1>2 DEF SendUnknown, IndInv, TypeOK
    <2> QED
        BY <2>1, <2>2 DEF Cache!Hold
<1>3. ASSUME NEW k \in Keys, UpdateKnown(k)
      PROVE  UNCHANGED <<known, waiting>>
    BY <1>3 DEF UpdateKnown
<1>4. ASSUME NEW k \in Keys, NEW o \in KeyInfos, UpdateNew(k, o)
      PROVE  Cache!Learn(k)
    <2>1. known' = known \cup {k}
        BY <1>4 DEF UpdateNew, IndInv, TypeOK
    <2>2. waiting' = waiting \ DestsOf[k]
        BY <1>4 DEF UpdateNew, IndInv, TypeOK
    <2> QED
        BY <2>1, <2>2 DEF Cache!Learn
<1>5. ASSUME NEW x \in KeyInfos \cup Buffers, TimerFires(x)
      PROVE  UNCHANGED <<known, waiting>>
    BY <1>5 DEF TimerFires
<1>6. ASSUME NEW o \in KeyInfos, NEW k \in Keys, InfoTimeout(o), keyOf[o] = k
      PROVE  Cache!Forget(k) \/ UNCHANGED <<known, waiting>>
    <2>1. CASE keyToInfo[k] = o
        <3>1. known' = known \ {k}
            BY <1>6, <2>1 DEF InfoTimeout, IndInv, TypeOK
        <3>2. waiting' = waiting
            BY <1>6 DEF InfoTimeout
        <3> QED
            BY <3>1, <3>2 DEF Cache!Forget
    <2>2. CASE keyToInfo[k] # o
        BY <1>6, <2>2 DEF InfoTimeout
    <2> QED
        BY <2>1, <2>2
<1>7. ASSUME NEW b \in Buffers, NEW d \in Dests, BufferTimeout(b), bufDest[b] = d
      PROVE  Cache!Drop(d) \/ UNCHANGED <<known, waiting>>
    <2>1. CASE destBuffer[d] = b
        <3>1. waiting' = waiting \ {d}
            BY <1>7, <2>1 DEF BufferTimeout, IndInv, TypeOK
        <3>2. known' = known
            BY <1>7 DEF BufferTimeout
        <3> QED
            BY <3>1, <3>2 DEF Cache!Drop
    <2>2. CASE destBuffer[d] # b
        BY <1>7, <2>2 DEF BufferTimeout
    <2> QED
        BY <2>1, <2>2
<1>8. CASE UNCHANGED vars
    BY <1>8 DEF vars
<1>9. CASE Traffic
    BY <1>1, <1>2, <1>3, <1>4, <1>9 DEF Traffic, Cache!Next
<1>10. CASE Cleanup
    <2>1. CASE \E x \in KeyInfos \cup Buffers : TimerFires(x)
        BY <1>5, <2>1
    <2>2. ASSUME NEW o \in KeyInfos, InfoTimeout(o)
          PROVE  [Cache!Next]_(Cache!vars)
        <3>1. PICK k \in Keys : keyOf[o] = k
            BY <2>2 DEF InfoTimeout, IndInv, TypeOK
        <3> QED
            BY <1>6, <2>2, <3>1 DEF Cache!Next
    <2>3. ASSUME NEW b \in Buffers, BufferTimeout(b)
          PROVE  [Cache!Next]_(Cache!vars)
        <3>1. PICK d \in Dests : bufDest[b] = d
            BY <2>3 DEF BufferTimeout, IndInv, TypeOK, BufferShape
        <3> QED
            BY <1>7, <2>3, <3>1 DEF Cache!Next
    <2> QED
        BY <1>10, <2>1, <2>2, <2>3 DEF Cleanup
<1> QED
    BY <1>8, <1>9, <1>10 DEF Next

\* As long as no two keys have an address or a subnet in common, the key store
\* is a cache that holds a packet back only while its destination's key is
\* unknown.
THEOREM Refinement ==
    ASSUME Injective
    PROVE  Spec => ImplementsCache
<1>1. Init => Cache!Init
    BY DEF Init, Cache!Init
<1>2. IndInv /\ [Next]_vars => [Cache!Next]_(Cache!vars)
    BY StepRefines
<1> QED
    BY Inductive, <1>1, <1>2, PTL DEF Spec, ImplementsCache, Cache!Spec
=============================================================================
