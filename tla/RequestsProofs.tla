--------------------------- MODULE RequestsProofs ---------------------------
(***************************************************************************)
(* Proofs about Requests, for any number of remote nodes, kinds of request *)
(* and concurrent handlers, and any number of messages on their way.       *)
(***************************************************************************)
EXTENDS Requests, TLAPS

\* A pending request is filed under what its handler asked and whom; the actor
\* has run its Act and nothing has been sent to its channel.
PendingShape ==
    \A q \in Kinds, k \in Keys, h \in Handlers : requests[q][k] = h =>
        kind[h] = q /\ key[h] = k /\ h \notin queued /\ ch[h] = 0

\* The channel of a request that the actor has not run is empty, and the
\* request has no timer yet.
QueuedShape ==
    \A h \in queued : ch[h] = 0 /\ h \notin armed \cup fired
                       /\ kind[h] \in Kinds /\ key[h] \in Keys

\* Only debug requests that were sent have timers.
TimerShape ==
    \A h \in armed \cup fired : kind[h] \in Debug /\ key[h] \in Keys

IndInv ==
    /\ TypeOK
    /\ PendingShape
    /\ QueuedShape
    /\ TimerShape
    /\ ActorNeverBlocks
    /\ PendingHasTimer

\* The initial state satisfies the invariant.
LEMMA InitInv == Init => IndInv
BY NamesAssumption, BoundAssumption
DEF Init, IndInv, TypeOK, PendingShape, QueuedShape, TimerShape,
    ActorNeverBlocks, PendingHasTimer, Kinds

\* Changing one entry of a table of tables keeps its type.
LEMMA EntryType ==
    ASSUME NEW S, NEW T, NEW R, NEW f \in [S -> [T -> R]],
           NEW s \in S, NEW t \in T, NEW r \in R
    PROVE  [f EXCEPT ![s][t] = r] \in [S -> [T -> R]]
OBVIOUS

\* A request that takes the place of the pending one, whatever was there.
LEMMA ReplaceInv ==
    ASSUME IndInv,
           NEW h \in queued, NEW q \in Kinds, NEW k \in Keys,
           kind[h] = q, key[h] = k,
           requests' = [requests EXCEPT ![q][k] = h],
           reqs' = [reqs EXCEPT ![q][k] = Add1(@)],
           queued' = queued \ {h},
           armed' = IF q \in Debug THEN (armed \ {requests[q][k]}) \cup {h} ELSE armed,
           old' \in SUBSET Handlers,
           UNCHANGED <<kind, key, waiting, fired, ch, ress>>
    PROVE  IndInv' /\ EndsForAReason
<1> USE NamesAssumption DEF IndInv, TypeOK
<1>1. /\ requests'[q][k] = h
      /\ \A r \in Kinds, m \in Keys :
            r # q \/ m # k => requests'[r][m] = requests[r][m]
    OBVIOUS
<1>2. TypeOK'
    <2>1. Add1(reqs[q][k]) \in 0 .. MaxMessages
        BY BoundAssumption DEF Add1
    <2>2. requests' \in [Kinds -> [Keys -> Handlers \cup {None}]]
        BY EntryType
    <2>3. reqs' \in [Kinds -> [Keys -> 0 .. MaxMessages]]
        BY <2>1, EntryType
    <2> QED
        BY <2>2, <2>3
<1>3. ASSUME NEW r \in Kinds, NEW m \in Keys, NEW g \in Handlers,
             requests'[r][m] = g
      PROVE  (kind[g] = r /\ key[g] = m /\ g \notin queued /\ ch[g] = 0)'
    <2>1. CASE r = q /\ m = k
        BY <1>1, <1>3, <2>1 DEF QueuedShape
    <2>2. CASE r # q \/ m # k
        BY <1>1, <1>3, <2>2 DEF PendingShape
    <2> QED
        BY <2>1, <2>2
<1>4. QueuedShape' /\ TimerShape'
    BY DEF QueuedShape, TimerShape
<1>5. ActorNeverBlocks'
    BY DEF ActorNeverBlocks
<1>6. ASSUME NEW r \in Debug, NEW m \in Keys, requests'[r][m] # None
      PROVE  requests'[r][m] \in armed' \cup fired'
    <2>1. CASE r = q /\ m = k
        BY <1>1, <2>1
    <2>2. CASE r # q \/ m # k
        BY <1>1, <1>6, <2>2 DEF PendingHasTimer, PendingShape, Kinds
    <2> QED
        BY <2>1, <2>2
<1>7. EndsForAReason
    BY <1>1 DEF EndsForAReason
<1> QED
    BY <1>2, <1>3, <1>4, <1>5, <1>6, <1>7 DEF PendingShape, PendingHasTimer

\* A response that answers the pending request, if there is one, and ends it.
LEMMA AnswerInv ==
    ASSUME IndInv,
           NEW q \in Kinds, NEW k \in Keys,
           ress[q][k] > 0,
           ress' = [ress EXCEPT ![q][k] = @ - 1],
           Call(requests[q][k]),
           requests' = [requests EXCEPT ![q][k] = None],
           armed' = IF q \in Debug THEN armed \ {requests[q][k]} ELSE armed,
           old' \in SUBSET Handlers,
           UNCHANGED <<kind, key, waiting, queued, fired, reqs>>
    PROVE  IndInv' /\ EndsForAReason
<1> USE NamesAssumption DEF IndInv, TypeOK
<1>1. /\ requests'[q][k] = None
      /\ \A r \in Kinds, m \in Keys :
            r # q \/ m # k => requests'[r][m] = requests[r][m]
    OBVIOUS
<1>2. /\ requests' \in [Kinds -> [Keys -> Handlers \cup {None}]]
      /\ ress' \in [Kinds -> [Keys -> 0 .. MaxMessages]]
    <2>1. ress[q][k] - 1 \in 0 .. MaxMessages
        BY BoundAssumption
    <2> QED
        BY <2>1, EntryType
<1>3. /\ ch' \in [Handlers -> Nat]
      /\ \A g \in Handlers :
            ch'[g] = IF requests[q][k] = g THEN 1 ELSE ch[g]
    <2>1. CASE requests[q][k] = None
        BY <2>1 DEF Call
    <2>2. CASE requests[q][k] \in Handlers
        BY <2>2 DEF Call, PendingShape
    <2> QED
        BY <2>1, <2>2
<1>4. TypeOK'
    BY <1>2, <1>3
<1>5. ASSUME NEW r \in Kinds, NEW m \in Keys, NEW g \in Handlers,
             requests'[r][m] = g
      PROVE  /\ (kind[g] = r /\ key[g] = m /\ g \notin queued /\ ch[g] = 0)'
             /\ requests[r][m] = g
             /\ g # requests[q][k]
    <2>1. r # q \/ m # k
        BY <1>1, <1>5
    <2>2. requests[r][m] = g
        BY <1>1, <1>5, <2>1
    <2>3. kind[g] = r /\ key[g] = m /\ g \notin queued /\ ch[g] = 0
        BY <2>2 DEF PendingShape
    <2>4. g # requests[q][k]
        BY <2>1, <2>3 DEF PendingShape
    <2> QED
        BY <1>3, <2>2, <2>3, <2>4
<1>6. QueuedShape'
    <2>1. \A g \in queued : requests[q][k] # g
        BY DEF PendingShape
    <2> QED
        BY <1>3, <2>1 DEF QueuedShape
<1>7. TimerShape' /\ ActorNeverBlocks'
    <2>1. TimerShape'
        BY DEF TimerShape
    <2>2. ASSUME NEW g \in Handlers
          PROVE  ch'[g] <= 1
        <3>1. ch[g] <= 1
            BY DEF ActorNeverBlocks
        <3>2. ch'[g] = 1 \/ ch'[g] = ch[g]
            BY <1>3
        <3> QED
            BY <3>1, <3>2
    <2> QED
        BY <2>1, <2>2 DEF ActorNeverBlocks
<1>8. PendingHasTimer'
    BY <1>2, <1>5 DEF PendingHasTimer, Kinds
<1>9. EndsForAReason
    BY <1>1, <1>3 DEF EndsForAReason, PendingShape
<1> QED
    BY <1>4, <1>5, <1>6, <1>7, <1>8, <1>9 DEF PendingShape

\* Every step keeps the invariant and ends a request only for a reason.
LEMMA NextInv == IndInv /\ [Next]_vars => IndInv' /\ EndsForAReason
<1> SUFFICES ASSUME IndInv, [Next]_vars
             PROVE  IndInv' /\ EndsForAReason
    OBVIOUS
<1> USE NamesAssumption, KindsAssumption, BoundAssumption
    DEF IndInv, TypeOK, PendingShape, QueuedShape, TimerShape,
        ActorNeverBlocks, PendingHasTimer, EndsForAReason, Kinds
<1>1. ASSUME NEW h \in Handlers, NEW q \in Kinds, NEW k \in Keys, Start(h, q, k)
      PROVE  IndInv' /\ EndsForAReason
    BY <1>1 DEF Start, Pending
<1>2. ASSUME NEW h \in Handlers, Answered(h)
      PROVE  IndInv' /\ EndsForAReason
    BY <1>2 DEF Answered
<1>3. ASSUME NEW h \in Handlers, TimedOut(h)
      PROVE  IndInv' /\ EndsForAReason
    BY <1>3 DEF TimedOut
<1>4. ASSUME NEW h \in Handlers, SendDebug(h)
      PROVE  IndInv' /\ EndsForAReason
    <2>1. PICK q \in Debug, k \in Keys : kind[h] = q /\ key[h] = k
        BY <1>4 DEF SendDebug
    <2>2. /\ h \in queued
          /\ old' \in SUBSET Handlers
          /\ armed' = IF q \in Debug THEN (armed \ {requests[q][k]}) \cup {h} ELSE armed
        BY <1>4, <2>1 DEF SendDebug
    <2> HIDE DEF IndInv, EndsForAReason
    <2> QED
        BY <1>4, <2>1, <2>2, ReplaceInv DEF SendDebug
<1>5. ASSUME NEW h \in Handlers, SendNodeInfo(h)
      PROVE  IndInv' /\ EndsForAReason
    <2>1. PICK q \in Kinds, k \in Keys : q = NodeInfo /\ kind[h] = q /\ key[h] = k
        BY <1>5 DEF SendNodeInfo
    <2>2. /\ h \in queued
          /\ old' \in SUBSET Handlers
          /\ armed' = IF q \in Debug THEN (armed \ {requests[q][k]}) \cup {h} ELSE armed
        BY <1>5, <2>1 DEF SendNodeInfo
    <2> HIDE DEF IndInv, EndsForAReason
    <2> QED
        BY <1>5, <2>1, <2>2, ReplaceInv DEF SendNodeInfo
<1>6. ASSUME NEW h \in Handlers, TimerFires(h)
      PROVE  IndInv' /\ EndsForAReason
    BY <1>6 DEF TimerFires
<1>7. ASSUME NEW h \in Handlers, Expire(h)
      PROVE  IndInv' /\ EndsForAReason
    <2>1. kind[h] \in Debug /\ key[h] \in Keys
        BY <1>7 DEF Expire
    <2>2. CASE requests[kind[h]][key[h]] = h
        <3>1. TypeOK'
            BY <1>7, <2>1, <2>2 DEF Expire
        <3>2. \A q \in Kinds, k \in Keys :
                 requests'[q][k] = requests[q][k] \/ (requests'[q][k] = None /\ requests[q][k] = h)
            BY <1>7, <2>1, <2>2 DEF Expire
        <3>3. \A q \in Kinds, k \in Keys : requests'[q][k] # h
            BY <1>7, <2>1, <2>2 DEF Expire
        <3> QED
            BY <1>7, <2>1, <3>1, <3>2, <3>3 DEF Expire
    <2>3. CASE requests[kind[h]][key[h]] # h
        <3>1. \A q \in Kinds, k \in Keys : requests[q][k] # h
            BY <2>3
        <3>2. /\ UNCHANGED requests
              /\ TypeOK'
            BY <1>7, <2>3 DEF Expire
        <3>3. PendingShape' /\ QueuedShape' /\ TimerShape' /\ ActorNeverBlocks'
            BY <1>7, <2>3, <3>2 DEF Expire
        <3>4. PendingHasTimer'
            BY <1>7, <2>3, <3>1, <3>2 DEF Expire
        <3> QED
            BY <3>2, <3>3, <3>4
    <2> QED
        BY <2>2, <2>3
<1>8. ASSUME NEW q \in Debug, NEW k \in Keys, HandleDebugResponse(q, k)
      PROVE  IndInv' /\ EndsForAReason
    <2>1. /\ q \in Kinds
          /\ old' \in SUBSET Handlers
          /\ armed' = IF q \in Debug THEN armed \ {requests[q][k]} ELSE armed
        BY <1>8 DEF HandleDebugResponse
    <2> HIDE DEF IndInv, EndsForAReason
    <2> QED
        BY <1>8, <2>1, AnswerInv DEF HandleDebugResponse
<1>9. ASSUME NEW k \in Keys, HandleNodeInfoResponse(k)
      PROVE  IndInv' /\ EndsForAReason
    <2>1. PICK q \in Kinds : q = NodeInfo
        OBVIOUS
    <2>2. /\ old' \in SUBSET Handlers
          /\ armed' = IF q \in Debug THEN armed \ {requests[q][k]} ELSE armed
        BY <1>9, <2>1 DEF HandleNodeInfoResponse
    <2> HIDE DEF IndInv, EndsForAReason
    <2> QED
        BY <1>9, <2>1, <2>2, AnswerInv DEF HandleNodeInfoResponse
<1>10. ASSUME NEW q \in Kinds, NEW k \in Keys, Network(q, k)
      PROVE  IndInv' /\ EndsForAReason
    <2>1. /\ reqs' \in [Kinds -> [Keys -> 0 .. MaxMessages]]
          /\ ress' \in [Kinds -> [Keys -> 0 .. MaxMessages]]
        <3>1. CASE HandleRequest(q, k)
            BY <3>1 DEF HandleRequest, Add1
        <3>2. CASE Unsolicited(q, k)
            BY <3>2 DEF Unsolicited
        <3>3. CASE Lose(q, k)
            <4>1. CASE reqs[q][k] > 0 /\ reqs' = [reqs EXCEPT ![q][k] = @ - 1] /\ UNCHANGED ress
                <5>1. reqs[q][k] - 1 \in 0 .. MaxMessages
                    BY <4>1
                <5> QED
                    BY <4>1, <5>1, EntryType
            <4>2. CASE ress[q][k] > 0 /\ ress' = [ress EXCEPT ![q][k] = @ - 1] /\ UNCHANGED reqs
                <5>1. ress[q][k] - 1 \in 0 .. MaxMessages
                    BY <4>2
                <5> QED
                    BY <4>2, <5>1, EntryType
            <4> QED
                BY <3>3, <4>1, <4>2 DEF Lose
        <3> QED
            BY <1>10, <3>1, <3>2, <3>3 DEF Network
    <2>2. UNCHANGED <<requests, kind, key, waiting, queued, armed, fired, old, ch>>
        BY <1>10 DEF Network, HandleRequest, Unsolicited, Lose
    <2> QED
        BY <2>1, <2>2
<1>11. ASSUME NEW k \in Keys, Ages(k)
      PROVE  IndInv' /\ EndsForAReason
    BY <1>11 DEF Ages
<1>12. CASE Cleanup
    BY <1>12 DEF Cleanup
<1>13. CASE UNCHANGED vars
    BY <1>13 DEF vars
<1> QED
    BY <1>1, <1>2, <1>3, <1>4, <1>5, <1>6, <1>7, <1>8, <1>9, <1>10, <1>11, <1>12, <1>13
    DEF Next, Handler, Actor

\* The invariant is inductive: it holds of every reachable state.
THEOREM Inductive == Spec => []IndInv
<1>1. Init => IndInv
    BY InitInv
<1>2. IndInv /\ [Next]_vars => IndInv'
    BY NextInv
<1> QED
    BY <1>1, <1>2, PTL DEF Spec

\* The tables and channels always hold what TypeOK says.
THEOREM TypeCorrect == Spec => []TypeOK
<1>1. IndInv => TypeOK
    BY DEF IndInv
<1> QED
    BY Inductive, <1>1, PTL

\* An actor never blocks on the channel of a handler: no callback of a request
\* is called twice, however handlers, timers and answers interleave.
THEOREM ActorsNeverBlock == Spec => []ActorNeverBlocks
<1>1. IndInv => ActorNeverBlocks
    BY DEF IndInv
<1> QED
    BY Inductive, <1>1, PTL

\* Every pending debug request has a timer running or its callback under way.
THEOREM PendingHaveTimers == Spec => []PendingHasTimer
<1>1. IndInv => PendingHasTimer
    BY DEF IndInv
<1> QED
    BY Inductive, <1>1, PTL

\* A pending request is never deleted by another request's late timer.
THEOREM RequestsNeverForgotten == Spec => NeverForgotten
<1>1. IndInv /\ [Next]_vars => [EndsForAReason]_vars
    BY NextInv
<1> QED
    BY Inductive, <1>1, PTL DEF Spec, NeverForgotten
=============================================================================
