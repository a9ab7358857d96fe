------------------------------ MODULE Requests ------------------------------
(***************************************************************************)
(* Requests to remote nodes (src/src/core/proto.go and nodeinfo.go): the   *)
(* admin handlers that ask a remote node about itself, its peers, its tree *)
(* or its node information and wait for the answer, the tables of pending  *)
(* requests that the actors protoHandler and nodeinfo keep, the timers     *)
(* that clean them, and the remote node that answers.                      *)
(*                                                                         *)
(* The debug requests have a timer each; the callbacks of nodeinfo have a  *)
(* time of creation and are swept every thirty seconds.  Otherwise the two *)
(* files do the same, and one module stands for both.                      *)
(*                                                                         *)
(* The body of every Act runs inside an actor and is one step.  An Act     *)
(* that has been sent but has not run is in `queued` (a request) or        *)
(* `fired` (the callback of a timer).  A request carries the name of the   *)
(* handler that made it.                                                   *)
(***************************************************************************)
EXTENDS Naturals

CONSTANTS
    Keys,         \* remote nodes
    Debug,        \* kinds of debug request: self, peers, tree
    NodeInfo,     \* the kind of the node information request
    Handlers,     \* calls of the admin handlers
    MaxMessages,  \* messages of one kind, between two nodes, on their way
    None

Kinds == Debug \cup {NodeInfo}

ASSUME KindsAssumption == NodeInfo \notin Debug
ASSUME NamesAssumption == None \notin Handlers
ASSUME BoundAssumption == MaxMessages \in Nat

VARIABLES
    requests,  \* selfRequests, peersRequests, treeRequests and callbacks:
               \* who made the pending request of a kind to a key
    kind, key, \* what a handler asks, and whom
    waiting,   \* handlers in their select
    queued,    \* handlers whose request the actor has not run yet
    armed,     \* debug requests whose timer is running
    fired,     \* debug requests with a timer callback in the actor's inbox
    old,       \* node information requests made more than a minute ago
    ch,        \* answers sent to a handler's channel and not received; the
               \* channel holds one, the sender of a second one blocks
    reqs,      \* requests on their way to a remote node
    ress       \* responses on their way back

vars == <<requests, kind, key, waiting, queued, armed, fired, old, ch, reqs, ress>>

\* What the tables and channels may hold.
TypeOK ==
    /\ requests \in [Kinds -> [Keys -> Handlers \cup {None}]]
    /\ kind \in [Handlers -> Kinds \cup {None}]
    /\ key \in [Handlers -> Keys \cup {None}]
    /\ waiting \in SUBSET Handlers
    /\ queued \in SUBSET Handlers
    /\ armed \in SUBSET Handlers
    /\ fired \in SUBSET Handlers
    /\ old \in SUBSET Handlers
    /\ ch \in [Handlers -> Nat]
    /\ reqs \in [Kinds -> [Keys -> 0 .. MaxMessages]]
    /\ ress \in [Kinds -> [Keys -> 0 .. MaxMessages]]

Init ==
    /\ requests = [q \in Kinds |-> [k \in Keys |-> None]]
    /\ kind = [h \in Handlers |-> None]
    /\ key = [h \in Handlers |-> None]
    /\ waiting = {}
    /\ queued = {}
    /\ armed = {}
    /\ fired = {}
    /\ old = {}
    /\ ch = [h \in Handlers |-> 0]
    /\ reqs = [q \in Kinds |-> [k \in Keys |-> 0]]
    /\ ress = [q \in Kinds |-> [k \in Keys |-> 0]]

\* The actor of a kind, protoHandler for all of Debug, is not stuck sending to a
\* full channel.
ActorRuns(q) ==
    \A h \in Handlers : kind[h] = q \/ {kind[h], q} \subseteq Debug => ch[h] <= 1

\* One more message on its way; a full network loses it.
Add1(n) == IF n < MaxMessages THEN n + 1 ELSE n

\* The request that h made is the pending one.
Pending(h) == \E q \in Kinds, k \in Keys : requests[q][k] = h

----------------------------------------------------------------------------
(* The admin handlers: getSelfHandler, getPeersHandler, getTreeHandler and *)
(* nodeInfoAdminHandler.  An argument that does not parse returns early.   *)

\* Make the channel, send the request to the actor, and wait.
Start(h, q, k) ==
    /\ h \notin waiting \cup queued \cup armed \cup fired
    /\ ~Pending(h)
    /\ kind' = [kind EXCEPT ![h] = q]
    /\ key' = [key EXCEPT ![h] = k]
    /\ ch' = [ch EXCEPT ![h] = 0]
    /\ waiting' = waiting \cup {h}
    /\ queued' = queued \cup {h}
    /\ UNCHANGED <<requests, armed, fired, old, reqs, ress>>

\* The answer arrives.
Answered(h) ==
    /\ h \in waiting
    /\ ch[h] > 0
    /\ ch' = [ch EXCEPT ![h] = @ - 1]
    /\ waiting' = waiting \ {h}
    /\ UNCHANGED <<requests, kind, key, queued, armed, fired, old, reqs, ress>>

\* Six seconds pass.  The request stays where it is.
TimedOut(h) ==
    /\ h \in waiting
    /\ waiting' = waiting \ {h}
    /\ UNCHANGED <<requests, kind, key, queued, armed, fired, old, ch, reqs, ress>>

----------------------------------------------------------------------------
(* The actors.                                                             *)

\* sendGetSelfRequest, sendGetPeersRequest and sendGetTreeRequest: stop the
\* timer of the pending request, if there is one, and take its place.
SendDebug(h) ==
    LET q == kind[h]
        k == key[h]
    IN  /\ h \in queued
        /\ q \in Debug
        /\ ActorRuns(q)
        /\ queued' = queued \ {h}
        /\ armed' = (armed \ {requests[q][k]}) \cup {h}
        /\ requests' = [requests EXCEPT ![q][k] = h]
        /\ reqs' = [reqs EXCEPT ![q][k] = Add1(@)]
        /\ UNCHANGED <<kind, key, waiting, fired, old, ch, ress>>

\* nodeinfo._sendReq: overwrite the callback of a pending request, and the time
\* of its creation with it.
SendNodeInfo(h) ==
    LET k == key[h]
    IN  /\ h \in queued
        /\ kind[h] = NodeInfo
        /\ ActorRuns(NodeInfo)
        /\ queued' = queued \ {h}
        /\ old' = old \ {requests[NodeInfo][k]}
        /\ requests' = [requests EXCEPT ![NodeInfo][k] = h]
        /\ reqs' = [reqs EXCEPT ![NodeInfo][k] = Add1(@)]
        /\ UNCHANGED <<kind, key, waiting, armed, fired, ch, ress>>

\* Calling a callback sends to the channel of the handler that made it.
Call(h) == ch' = IF h # None THEN [ch EXCEPT ![h] = @ + 1] ELSE ch

\* Mutant: the request is not deleted.
HandleDebugResponse_KeepsRequest(q, k) ==
    /\ ress[q][k] > 0
    /\ ActorRuns(q)
    /\ ress' = [ress EXCEPT ![q][k] = @ - 1]
    /\ Call(requests[q][k])
    /\ UNCHANGED <<requests, kind, key, waiting, queued, armed, fired, old, reqs>>

\* _handleGetSelfResponse and its like: stop the timer, call the callback of the
\* pending request and delete the request.  Anything else is ignored.
HandleDebugResponse(q, k) ==
    /\ ress[q][k] > 0
    /\ ActorRuns(q)
    /\ ress' = [ress EXCEPT ![q][k] = @ - 1]
    /\ armed' = armed \ {requests[q][k]}
    /\ Call(requests[q][k])
    /\ requests' = [requests EXCEPT ![q][k] = None]
    /\ UNCHANGED <<kind, key, waiting, queued, fired, old, reqs>>

\* nodeinfo._callback: the same without a timer.
HandleNodeInfoResponse(k) ==
    /\ ress[NodeInfo][k] > 0
    /\ ActorRuns(NodeInfo)
    /\ ress' = [ress EXCEPT ![NodeInfo][k] = @ - 1]
    /\ old' = old \ {requests[NodeInfo][k]}
    /\ Call(requests[NodeInfo][k])
    /\ requests' = [requests EXCEPT ![NodeInfo][k] = None]
    /\ UNCHANGED <<kind, key, waiting, queued, armed, fired, reqs>>

\* The timer of a debug request fires and sends its Act.
TimerFires(h) ==
    /\ h \in armed
    /\ armed' = armed \ {h}
    /\ fired' = fired \cup {h}
    /\ UNCHANGED <<requests, kind, key, waiting, queued, old, ch, reqs, ress>>

\* Mutant: the pending request is deleted, whosever it is.
Expire_AnyRequest(h) ==
    /\ h \in fired
    /\ ActorRuns(kind[h])
    /\ fired' = fired \ {h}
    /\ requests' = [requests EXCEPT ![kind[h]][key[h]] = None]
    /\ UNCHANGED <<kind, key, waiting, queued, armed, old, ch, reqs, ress>>

\* The Act of the timer: delete the request if it is still the pending one.
Expire(h) ==
    /\ h \in fired
    /\ ActorRuns(kind[h])
    /\ fired' = fired \ {h}
    /\ requests' = IF requests[kind[h]][key[h]] = h
                     THEN [requests EXCEPT ![kind[h]][key[h]] = None] ELSE requests
    /\ UNCHANGED <<kind, key, waiting, queued, armed, old, ch, reqs, ress>>

\* A minute has passed since a node information request was made.
Ages(k) ==
    /\ requests[NodeInfo][k] # None
    /\ requests[NodeInfo][k] \notin old
    /\ old' = old \cup {requests[NodeInfo][k]}
    /\ UNCHANGED <<requests, kind, key, waiting, queued, armed, fired, ch, reqs, ress>>

\* Mutant: the sweep only looks.
Cleanup_KeepsOld ==
    /\ ActorRuns(NodeInfo)
    /\ UNCHANGED vars

\* nodeinfo._cleanup, every thirty seconds.
Cleanup ==
    /\ ActorRuns(NodeInfo)
    /\ requests' = [requests EXCEPT ![NodeInfo] =
                       [k \in Keys |-> IF @[k] \in old THEN None ELSE @[k]]]
    /\ old' = {}
    /\ UNCHANGED <<kind, key, waiting, queued, armed, fired, ch, reqs, ress>>

----------------------------------------------------------------------------
(* The other side, and the network between.                                *)

\* _handleGetSelfRequest and its like, and _sendRes, of the remote node.
HandleRequest(q, k) ==
    /\ reqs[q][k] > 0
    /\ reqs' = [reqs EXCEPT ![q][k] = @ - 1]
    /\ ress' = [ress EXCEPT ![q][k] = Add1(@)]
    /\ UNCHANGED <<requests, kind, key, waiting, queued, armed, fired, old, ch>>

\* A remote node may answer what it was never asked (external).
Unsolicited(q, k) ==
    /\ ress[q][k] < MaxMessages
    /\ ress' = [ress EXCEPT ![q][k] = @ + 1]
    /\ UNCHANGED <<requests, kind, key, waiting, queued, armed, fired, old, ch, reqs>>

\* A packet is dropped on its way: WriteTo of ironwood promises nothing, and the
\* queue of a peering drops what exceeds its size.
Lose(q, k) ==
    /\ \/ /\ reqs[q][k] > 0
          /\ reqs' = [reqs EXCEPT ![q][k] = @ - 1]
          /\ UNCHANGED ress
       \/ /\ ress[q][k] > 0
          /\ ress' = [ress EXCEPT ![q][k] = @ - 1]
          /\ UNCHANGED reqs
    /\ UNCHANGED <<requests, kind, key, waiting, queued, armed, fired, old, ch>>

----------------------------------------------------------------------------
Handler(h) ==
    \/ \E q \in Kinds, k \in Keys : Start(h, q, k)
    \/ Answered(h)
    \/ TimedOut(h)

Actor(h) == SendDebug(h) \/ SendNodeInfo(h) \/ TimerFires(h) \/ Expire(h)

Network(q, k) == HandleRequest(q, k) \/ Unsolicited(q, k) \/ Lose(q, k)

Next ==
    \/ \E h \in Handlers : Handler(h) \/ Actor(h)
    \/ \E q \in Debug, k \in Keys : HandleDebugResponse(q, k)
    \/ \E k \in Keys : HandleNodeInfoResponse(k) \/ Ages(k)
    \/ Cleanup
    \/ \E q \in Kinds, k \in Keys : Network(q, k)

Spec == Init /\ [][Next]_vars

\* The actors run what is in their inboxes, time passes and timers fire.  The
\* network and the remote nodes owe nothing.
FairSpec ==
    /\ Spec
    /\ \A h \in Handlers :
          /\ WF_vars(Answered(h) \/ TimedOut(h))
          /\ WF_vars(SendDebug(h) \/ SendNodeInfo(h))
          /\ WF_vars(TimerFires(h))
          /\ WF_vars(Expire(h))
    /\ \A k \in Keys : WF_vars(Ages(k))
    /\ WF_vars(Cleanup)

----------------------------------------------------------------------------
(* Properties.                                                             *)

\* No callback is called twice, so `ch <- info` in a callback always finds room
\* and the actor, which serves every remote node, never blocks: not when the
\* handler has given up, when answers are repeated or when timers are late.
ActorNeverBlocks == \A h \in Handlers : ch[h] <= 1

\* A pending request of a debug kind has a timer or the callback of one.
PendingHasTimer ==
    \A q \in Debug, k \in Keys :
        requests[q][k] # None => requests[q][k] \in armed \cup fired

\* How a pending request may end: replaced, answered, or after its own minute.
EndsForAReason ==
    \A q \in Kinds, k \in Keys :
        LET h == requests[q][k]
        IN  h # None /\ requests'[q][k] = None =>
                ch'[h] = ch[h] + 1 \/ h \in fired \cup old

\* The late timer of a replaced request never deletes the request that replaced
\* it: the comparison in the timer's Act and the sweep by age see to that.
NeverForgotten == [][EndsForAReason]_vars

\* No request stays in the tables for ever.
PendingEnds ==
    \A q \in Kinds, k \in Keys, h \in Handlers :
        (requests[q][k] = h) ~> (requests[q][k] # h)
=============================================================================
