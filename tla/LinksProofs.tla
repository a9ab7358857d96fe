---------------------------- MODULE LinksProofs ----------------------------
(***************************************************************************)
(* Proofs about Links, for any number of peers, goroutines and linkInfos.  *)
(***************************************************************************)
EXTENDS Links, TLAPS

----------------------------------------------------------------------------
(* The inductive invariant, part by part.                                  *)

\* A running dialing goroutine uses its own link, made by add().
DialerShape ==
    \A d \in Dialers :
        /\ type[d] # "incoming"
        /\ pc[d] # "none" => info[d] \in DialInfos /\ state[d] = d /\ type[d] # "free"

\* An accepted connection's goroutine has a linkInfo from Accept on and a link
\* from Register on; its own link is not made before that.
AcceptShape ==
    \A a \in Accepts :
        /\ type[a] \in {"free", "incoming"}
        /\ pc[a] # "none" => info[a] \in AcceptInfos
        /\ pc[a] \in {"none", "register"} => state[a] = None
        /\ pc[a] \notin {"none", "register"} => state[a] # None
        /\ pc[a] = "register" => type[a] = "free"
        /\ state[a] # None => type[state[a]] # "free"

\* What the registry points to is a link, and a free name has no error.
LinkShape ==
    /\ \A i \in Infos : reg[i] # None => type[reg[i]] # "free"
    /\ \A g \in Goroutines : type[g] = "free" => err[g] = FALSE

\* The connection in handler() is the link's, whoever else knows the link.
DialerConn == \A d \in Dialers : InHandler(d) => conn[d] = d

\* With disjoint linkInfos, accepted connections use links of their own kind.
KindsApart ==
    Disjoint =>
        /\ \A i \in DialInfos : reg[i] \in Dialers \cup {None}
        /\ \A i \in AcceptInfos : reg[i] \in Accepts \cup {None}
        /\ \A a \in Accepts : state[a] \in Accepts \cup {None}

\* Only shared linkInfos belong to two accepted connections at once.
AcceptsApart ==
    \A a, b \in Accepts :
        pc[a] # "none" /\ pc[b] # "none" /\ info[a] = info[b] /\ a # b
            => info[a] \in SharedInfos

IndInv ==
    /\ TypeOK
    /\ DialerShape
    /\ AcceptShape
    /\ LinkShape
    /\ DialerConn
    /\ KindsApart
    /\ AcceptsApart
    /\ EntryOwned
    /\ UpHasNoError
    /\ DialerRegistered
    /\ LiveConnTracked

----------------------------------------------------------------------------
(* The invariant is inductive: one lemma for the steps of each kind, one   *)
(* step for each action.                                                   *)

\* The empty registry of links.init satisfies the invariant.
LEMMA InitInv == Init => IndInv
<1> SUFFICES ASSUME Init PROVE IndInv
  OBVIOUS
<1> USE NamesAssumption, InfosAssumption, BoundsAssumption
    DEF IndInv, TypeOK, Infos, Goroutines, LinkTypes, Dialing, Accepting, DialerShape,
          AcceptShape, LinkShape, DialerConn, KindsApart, AcceptsApart, EntryOwned,
          UpHasNoError, DialerRegistered, LiveConnTracked, InHandler, Disjoint
<1>1. backoff \in [Dialers -> -1 .. BackoffLimit]
  BY DEF Init
<1>2. TypeOK
  BY <1>1 DEF Init
<1>3. DialerShape /\ AcceptShape /\ LinkShape /\ DialerConn /\ AcceptsApart
  BY DEF Init
<1>4. KindsApart /\ EntryOwned /\ UpHasNoError /\ DialerRegistered /\ LiveConnTracked
  BY DEF Init
<1> QED
  BY <1>2, <1>3, <1>4

\* The steps of a dialing goroutine (add).
LEMMA DialStepInv ==
    ASSUME IndInv, NEW d \in Dialers, DialStep(d)
    PROVE  IndInv'
<1> USE NamesAssumption, InfosAssumption, BoundsAssumption
    DEF IndInv, TypeOK, Infos, Goroutines, LinkTypes, Dialing, Accepting, DialerShape,
          AcceptShape, LinkShape, DialerConn, KindsApart, AcceptsApart, EntryOwned,
          UpHasNoError, DialerRegistered, LiveConnTracked, InHandler, Disjoint,
          Goto, linkVars, HandlerReturns, Drop, Done, CoreDone
<1>1. CASE DialCheck(d)
  BY <1>1 DEF DialCheck
<1>2. CASE DialFail(d)
  <2>1. TypeOK'
    <3>1. CASE type[d] = "persistent"
      <4>1. /\ conn' = [conn EXCEPT ![d] = None]
            /\ err' = [err EXCEPT ![d] = TRUE]
            /\ pc' = [pc EXCEPT ![d] = "failed"]
        BY <1>2, <3>1 DEF DialFail
      <4>2. err' \in [Goroutines -> BOOLEAN]
        BY <4>1
      <4> QED
        BY <1>2, <4>1, <4>2 DEF DialFail
    <3>2. CASE type[d] # "persistent"
      BY <1>2, <3>2 DEF DialFail
    <3> QED
      BY <3>1, <3>2
  <2>2. DialerShape' /\ AcceptShape' /\ LinkShape' /\ DialerConn' /\ AcceptsApart'
    BY <1>2 DEF DialFail
  <2>3. KindsApart' /\ EntryOwned' /\ UpHasNoError' /\ DialerRegistered' /\ LiveConnTracked'
    BY <1>2 DEF DialFail
  <2> QED
    BY <2>1, <2>2, <2>3
<1>3. CASE DialOk(d)
  BY <1>3 DEF DialOk
<1>4. CASE DialStore(d)
  BY <1>4 DEF DialStore
<1>5. CASE HandshakeOk(d)
  BY <1>5 DEF HandshakeOk
<1>6. CASE HandshakeFail(d)
  BY <1>6 DEF HandshakeFail
<1>7. CASE HandshakeToSelf(d)
  BY <1>7 DEF HandshakeToSelf
<1>8. CASE SessionEnds(d)
  BY <1>8 DEF SessionEnds
<1>9. CASE DialTeardown(d)
  BY <1>9 DEF DialTeardown
<1>10. CASE BackoffNow(d)
  BY <1>10 DEF BackoffNow
<1>11. CASE BackoffTimeout(d)
  BY <1>11 DEF BackoffTimeout
<1>12. CASE BackoffCancelled(d)
  BY <1>12 DEF BackoffCancelled
<1>13. CASE DialExit(d)
  BY <1>13 DEF DialExit
<1> QED
  BY <1>1, <1>2, <1>3, <1>4, <1>5, <1>6, <1>7, <1>8, <1>9, <1>10, <1>11, <1>12, <1>13 DEF DialStep

\* The steps of an accepted connection's goroutine (listen).
LEMMA AcceptStepInv ==
    ASSUME IndInv, NEW a \in Accepts, AcceptStep(a)
    PROVE  IndInv'
<1> USE NamesAssumption, InfosAssumption, BoundsAssumption
    DEF IndInv, TypeOK, Infos, Goroutines, LinkTypes, Dialing, Accepting, DialerShape,
          AcceptShape, LinkShape, DialerConn, KindsApart, AcceptsApart, EntryOwned,
          UpHasNoError, DialerRegistered, LiveConnTracked, InHandler, Disjoint,
          Goto, linkVars, HandlerReturns, Drop
<1>1. CASE RegisterNew(a)
  BY <1>1 DEF RegisterNew
<1>2. CASE RegisterExisting(a)
  BY <1>2 DEF RegisterExisting
<1>3. CASE RegisterDuplicate(a)
  BY <1>3 DEF RegisterDuplicate
<1>4. CASE HandshakeOk(a)
  BY <1>4 DEF HandshakeOk
<1>5. CASE HandshakeFail(a)
  BY <1>5 DEF HandshakeFail
<1>6. CASE SessionEnds(a)
  BY <1>6 DEF SessionEnds
<1>7. CASE Unregister(a)
  BY <1>7 DEF Unregister
<1>8. CASE AcceptClose(a)
  BY <1>8 DEF AcceptClose
<1> QED
  BY <1>1, <1>2, <1>3, <1>4, <1>5, <1>6, <1>7, <1>8 DEF AcceptStep

\* The steps of Core.Stop.
LEMMA StopStepInv ==
    ASSUME IndInv, StopStep
    PROVE  IndInv'
<1> USE NamesAssumption, InfosAssumption, BoundsAssumption
    DEF IndInv, TypeOK, Infos, Goroutines, LinkTypes, Dialing, Accepting, DialerShape,
          AcceptShape, LinkShape, DialerConn, KindsApart, AcceptsApart, EntryOwned,
          UpHasNoError, DialerRegistered, LiveConnTracked, InHandler, Disjoint,
          linkVars, goVars, Closed
<1>1. CASE StopCancel
  BY <1>1 DEF StopCancel
<1>2. CASE Shutdown
  BY <1>2 DEF Shutdown
<1>3. CASE ClosePacketConn
  BY <1>3 DEF ClosePacketConn
<1> QED
  BY <1>1, <1>2, <1>3 DEF StopStep

\* add() of a linkInfo that is already configured.
LEMMA AddExistingInv ==
    ASSUME IndInv, NEW i \in DialInfos, AddExisting(i)
    PROVE  IndInv'
<1> USE NamesAssumption, InfosAssumption, BoundsAssumption
    DEF IndInv, TypeOK, Infos, Goroutines, LinkTypes, Dialing, Accepting, DialerShape,
          AcceptShape, LinkShape, DialerConn, KindsApart, AcceptsApart, EntryOwned,
          UpHasNoError, DialerRegistered, LiveConnTracked, InHandler, Disjoint,
          Goto, linkVars, Closed, Kickable, Done, CoreDone
<1> QED
  BY DEF AddExisting

\* add() of a new linkInfo.
LEMMA AddNewInv ==
    ASSUME IndInv, NEW i \in DialInfos, NEW t \in {"persistent", "ephemeral"},
           NEW d \in Dialers, AddNew(i, t, d)
    PROVE  IndInv'
<1> USE NamesAssumption, InfosAssumption, BoundsAssumption
    DEF IndInv, TypeOK, Infos, Goroutines, LinkTypes, Dialing, Accepting, DialerShape,
          AcceptShape, LinkShape, DialerConn, KindsApart, AcceptsApart, EntryOwned,
          UpHasNoError, DialerRegistered, LiveConnTracked, InHandler, Disjoint,
          Goto, linkVars, Closed, Kickable, Done, CoreDone
<1> QED
  BY DEF AddNew

\* remove().
LEMMA RemoveInv ==
    ASSUME IndInv, NEW i \in RemoveInfos, Remove(i)
    PROVE  IndInv'
<1> USE NamesAssumption, InfosAssumption, BoundsAssumption
    DEF IndInv, TypeOK, Infos, Goroutines, LinkTypes, Dialing, Accepting, DialerShape,
          AcceptShape, LinkShape, DialerConn, KindsApart, AcceptsApart, EntryOwned,
          UpHasNoError, DialerRegistered, LiveConnTracked, InHandler, Disjoint,
          Goto, linkVars, Closed, Kickable, Done, CoreDone
<1>1. Remove(i)
  OBVIOUS
<1>2. IndInv'
  <2>1. TypeOK'
    <3>1. CASE type[reg[i]] = "incoming"
      BY <1>1, <3>1 DEF Remove
    <3>2. CASE type[reg[i]] # "incoming"
      <4>1. reg[i] \in Dialers
        BY <1>1, <3>2 DEF Remove
      <4> QED
        BY <1>1, <3>2, <4>1 DEF Remove
    <3> QED
      BY <3>1, <3>2
  <2>2. DialerShape' /\ AcceptShape' /\ LinkShape' /\ DialerConn' /\ AcceptsApart'
    BY <1>1 DEF Remove
  <2>3. KindsApart' /\ EntryOwned' /\ UpHasNoError' /\ DialerRegistered' /\ LiveConnTracked'
    BY <1>1 DEF Remove
  <2> QED
    BY <2>1, <2>2, <2>3
<1> QED
  BY <1>2

\* RetryPeersNow().
LEMMA RetryInv ==
    ASSUME IndInv, RetryPeersNow
    PROVE  IndInv'
<1> USE NamesAssumption, InfosAssumption, BoundsAssumption
    DEF IndInv, TypeOK, Infos, Goroutines, LinkTypes, Dialing, Accepting, DialerShape,
          AcceptShape, LinkShape, DialerConn, KindsApart, AcceptsApart, EntryOwned,
          UpHasNoError, DialerRegistered, LiveConnTracked, InHandler, Disjoint,
          Goto, linkVars, Closed, Kickable, Done, CoreDone
<1> QED
  BY DEF RetryPeersNow

\* A connection is accepted.
LEMMA AcceptInv ==
    ASSUME IndInv, NEW a \in Accepts, NEW i \in AcceptInfos, Accept(a, i)
    PROVE  IndInv'
<1> USE NamesAssumption, InfosAssumption, BoundsAssumption
    DEF IndInv, TypeOK, Infos, Goroutines, LinkTypes, Dialing, Accepting, DialerShape,
          AcceptShape, LinkShape, DialerConn, KindsApart, AcceptsApart, EntryOwned,
          UpHasNoError, DialerRegistered, LiveConnTracked, InHandler, Disjoint,
          Goto, linkVars, Closed, Kickable, Done, CoreDone
<1> QED
  BY DEF Accept

\* A remote side closes.
LEMMA RemoteCloseInv ==
    ASSUME IndInv, NEW g \in Goroutines, RemoteClose(g)
    PROVE  IndInv'
<1> USE NamesAssumption, InfosAssumption, BoundsAssumption
    DEF IndInv, TypeOK, Infos, Goroutines, LinkTypes, Dialing, Accepting, DialerShape,
          AcceptShape, LinkShape, DialerConn, KindsApart, AcceptsApart, EntryOwned,
          UpHasNoError, DialerRegistered, LiveConnTracked, InHandler, Disjoint,
          Goto, linkVars, Closed, Kickable, Done, CoreDone
<1> QED
  BY DEF RemoteClose

\* A link is collected.
LEMMA CollectInv ==
    ASSUME IndInv, NEW g \in Goroutines, Collect(g)
    PROVE  IndInv'
<1> USE NamesAssumption, InfosAssumption, BoundsAssumption
    DEF IndInv, TypeOK, Infos, Goroutines, LinkTypes, Dialing, Accepting, DialerShape,
          AcceptShape, LinkShape, DialerConn, KindsApart, AcceptsApart, EntryOwned,
          UpHasNoError, DialerRegistered, LiveConnTracked, InHandler, Disjoint,
          Goto, linkVars, Closed, Kickable, Done, CoreDone
<1> QED
  BY DEF Collect

\* Every step preserves the invariant.
LEMMA NextInv == IndInv /\ [Next]_vars => IndInv'
<1> SUFFICES ASSUME IndInv, [Next]_vars PROVE IndInv'
  OBVIOUS
<1>1. CASE Next
  BY <1>1, DialStepInv, AcceptStepInv, StopStepInv, AddExistingInv, AddNewInv, RemoveInv,
     RetryInv, AcceptInv, RemoteCloseInv, CollectInv DEF Next
<1>2. CASE UNCHANGED vars
  BY <1>2 DEF vars, linkVars, goVars, IndInv, TypeOK, DialerShape, AcceptShape, LinkShape,
     DialerConn, KindsApart, AcceptsApart, EntryOwned, UpHasNoError, DialerRegistered,
     LiveConnTracked, InHandler
<1> QED
  BY <1>1, <1>2

\* The invariant holds in every reachable state.
THEOREM Inductive == Spec => []IndInv
  BY InitInv, NextInv, PTL DEF Spec

----------------------------------------------------------------------------
(* What follows from it.                                                   *)

\* The fields of the Go structs hold what TypeOK says, at every reachable state.
THEOREM TypeCorrect == Spec => []TypeOK
<1>1. IndInv => TypeOK
  BY DEF IndInv
<1> QED
  BY <1>1, Inductive, PTL

\* No entry of _links is ever left without a goroutine that will drop it, even
\* when outbound and accepted connections share linkInfos.
THEOREM EntriesAreOwned == Spec => []EntryOwned
<1>1. IndInv => EntryOwned
  BY DEF IndInv
<1> QED
  BY <1>1, Inductive, PTL

\* A link that getPeers reports as up has no error left from an earlier dial, even
\* when a dialing goroutine and an accepted connection share the struct.
THEOREM UpLinksHaveNoError == Spec => []UpHasNoError
<1>1. IndInv => UpHasNoError
  BY DEF IndInv
<1> QED
  BY <1>1, Inductive, PTL

\* A dialing goroutine is always the one registered for its linkInfo.
THEOREM DialersAreRegistered == Spec => []DialerRegistered
<1>1. IndInv => DialerRegistered
  BY DEF IndInv
<1> QED
  BY <1>1, Inductive, PTL

\* Every connection in handler() is the _conn of the registered link.
THEOREM LiveConnsAreTracked == Spec => []LiveConnTracked
<1>1. IndInv => LiveConnTracked
  BY DEF IndInv
<1> QED
  BY <1>1, Inductive, PTL

\* A removed link without a dial under way or a connection left is never dialed or
\* connected again, whatever timers, kicks and handshakes were going on.
THEOREM RemovedLinksStayDown == Spec => RemovedStaysDown
<1>1. ASSUME IndInv, Next PROVE KeepsRemovedDown
  <2> USE NamesAssumption DEF KeepsRemovedDown, Quiet, InHandler, Goto, IndInv, TypeOK,
            Infos, Goroutines, linkVars, goVars, DialerShape, DialerConn
  <2>1. CASE \E i \in RemoveInfos : Remove(i)
    BY <1>1, <2>1 DEF Remove, Closed
  <2>2. CASE \E d \in Dialers : DialStep(d)
    BY <1>1, <2>2 DEF DialStep, DialCheck, DialFail, DialOk, DialStore, HandshakeOk, HandshakeFail,
       HandshakeToSelf, SessionEnds, DialTeardown, BackoffNow, BackoffTimeout,
       BackoffCancelled, DialExit, HandlerReturns, Done
  <2>3. CASE \E a \in Accepts : AcceptStep(a)
    BY <1>1, <2>3 DEF AcceptStep, RegisterNew, RegisterExisting, RegisterDuplicate, HandshakeOk,
       HandshakeFail, SessionEnds, Unregister, AcceptClose, HandlerReturns
  <2>4. CASE \E a \in Accepts, i \in AcceptInfos : Accept(a, i)
    BY <1>1, <2>4 DEF Accept
  <2>5. CASE \E i \in DialInfos : AddExisting(i)
    BY <1>1, <2>5 DEF AddExisting, Kickable, Done
  <2>6. CASE \E i \in DialInfos, t \in {"persistent", "ephemeral"}, d \in Dialers :
                AddNew(i, t, d)
    BY <1>1, <2>6 DEF AddNew
  <2>7. CASE RetryPeersNow
    BY <1>1, <2>7 DEF RetryPeersNow, Kickable, Done
  <2>8. CASE \E g \in Goroutines : RemoteClose(g) \/ Collect(g)
    BY <1>1, <2>8 DEF RemoteClose, Collect
  <2>9. CASE StopStep
    BY <1>1, <2>9 DEF StopStep, StopCancel, Shutdown, ClosePacketConn, Closed
  <2> QED
    BY <1>1, <2>1, <2>2, <2>3, <2>4, <2>5, <2>6, <2>7, <2>8, <2>9 DEF Next
<1>2. IndInv /\ [Next]_vars => [KeepsRemovedDown]_vars
  BY <1>1
<1> QED
  BY <1>2, Inductive, PTL DEF Spec, RemovedStaysDown
=============================================================================
