------------------------------- MODULE Links -------------------------------
(***************************************************************************)
(* The link registry of a node (src/src/core/link.go): the map _links of   *)
(* the links actor, the goroutine that every add() spawns to dial and      *)
(* redial a peer, the goroutine that every accepted connection runs, and   *)
(* the three steps of Core.Stop.                                           *)
(*                                                                         *)
(* The body of every phony.Block(l, ...) runs inside the links actor and   *)
(* is one atomic step here.  What a goroutine does between two such bodies *)
(* is a step of its own, so the windows in which the registry may change   *)
(* under a goroutine's feet are all present.                               *)
(*                                                                         *)
(* A goroutine is a member of Dialers (spawned by add) or of Accepts       *)
(* (spawned for an accepted connection).  The connection it handles and    *)
(* the link struct that was made for it carry its name.  A name is reused  *)
(* once nothing refers to it (Collect).                                    *)
(***************************************************************************)
EXTENDS Integers, FiniteSets

CONSTANTS
    DialInfos,     \* linkInfo keys that add() is called with
    AcceptInfos,   \* linkInfo keys that accepted connections are given
    SharedInfos,   \* of AcceptInfos, those several accepted connections may have
                   \* at once (clients of a UNIX listener all have RemoteAddr "@")
    RemoveInfos,   \* linkInfo keys that remove() is called with
    ProxyInfos,    \* of DialInfos, those dialed through a SOCKS proxy
    Dialers, Accepts,
    BackoffLimit,  \* 32 in the code: the largest shift of the backoff duration
    None

Infos == DialInfos \cup AcceptInfos
Goroutines == Dialers \cup Accepts

ASSUME NamesAssumption ==
    /\ Dialers \cap Accepts = {}
    /\ None \notin Goroutines \cup Infos
ASSUME InfosAssumption ==
    /\ SharedInfos \subseteq AcceptInfos
    /\ RemoveInfos \subseteq Infos
    /\ ProxyInfos \subseteq DialInfos
ASSUME BoundsAssumption == BackoffLimit \in Nat

VARIABLES
    reg,        \* links._links: linkInfo -> link, None where there is no entry
    type,       \* link.linkType, "free" where there is no link of that name
    conn,       \* link._conn: the connection, None for nil
    err,        \* link._err # nil
    cancelled,  \* links whose cancel() was called by remove()
    pc,         \* where each goroutine is
    info,       \* the linkInfo it captured
    state,      \* the link it uses, the variable `state` of add and listen
    sock,       \* its connection, as this node sees it
    backoff,    \* the variable `backoff` of a dialing goroutine
    node,       \* the progress of Core._close
    crashed     \* the process died of a panic

linkVars == <<reg, type, conn, err, cancelled>>
goVars == <<pc, info, state, sock, backoff>>
vars == <<linkVars, goVars, node, crashed>>

LinkTypes == {"free", "persistent", "ephemeral", "incoming"}
Dialing == {"check", "dial", "store", "handshake", "up", "teardown",
            "failed", "wait", "exit"}
Accepting == {"register", "handshake", "up", "unregister", "close"}

\* One type invariant: what the fields of the Go structs may hold.
TypeOK ==
    /\ reg \in [Infos -> Goroutines \cup {None}]
    /\ type \in [Goroutines -> LinkTypes]
    /\ conn \in [Goroutines -> Goroutines \cup {None}]
    /\ err \in [Goroutines -> BOOLEAN]
    /\ cancelled \in SUBSET Dialers
    /\ pc \in [Goroutines -> Dialing \cup Accepting \cup {"none"}]
    /\ \A d \in Dialers : pc[d] \in Dialing \cup {"none"}
    /\ \A a \in Accepts : pc[a] \in Accepting \cup {"none"}
    /\ info \in [Goroutines -> Infos \cup {None}]
    /\ state \in [Goroutines -> Goroutines \cup {None}]
    /\ sock \in [Goroutines -> {"none", "open", "closed"}]
    /\ backoff \in [Dialers -> -1 .. BackoffLimit]
    /\ node \in {"running", "cancelled", "linksdown", "stopped"}
    /\ crashed \in BOOLEAN

Init ==
    /\ reg = [i \in Infos |-> None]
    /\ type = [g \in Goroutines |-> "free"]
    /\ conn = [g \in Goroutines |-> None]
    /\ err = [g \in Goroutines |-> FALSE]
    /\ cancelled = {}
    /\ pc = [g \in Goroutines |-> "none"]
    /\ info = [g \in Goroutines |-> None]
    /\ state = [g \in Goroutines |-> None]
    /\ sock = [g \in Goroutines |-> "none"]
    /\ backoff = [d \in Dialers |-> 0]
    /\ node = "running"
    /\ crashed = FALSE

----------------------------------------------------------------------------
(* Contexts, kicks and closing a connection.                               *)

\* core.ctx is done as soon as _close has called cancel().
CoreDone == node # "running"


\* A dialed link's context is derived from core.ctx and has its own cancel.
Done(d) == CoreDone \/ d \in cancelled

\* Closing a connection a second time, or after the remote side did, changes
\* nothing that matters: the handler's next read or write fails either way.
Closed(G) == [g \in Goroutines |->
                 IF g \in G /\ sock[g] = "open" THEN "closed" ELSE sock[g]]

\* The goroutine sits in the select of backoffNow, the only receiver of the
\* unbuffered channel kick.  A done context has already woken it.
Kickable(d) == d \in Dialers /\ pc[d] = "wait" /\ ~Done(d)

\* A goroutine holds a connection in handler().
InHandler(g) == pc[g] \in {"handshake", "up"}

Goto(g, label) == pc' = [pc EXCEPT ![g] = label]

----------------------------------------------------------------------------
(* The operations of the API: AddPeer and CallPeer, RemovePeer,            *)
(* RetryPeersNow.  Options that do not parse return before any change.     *)

AddExisting(i) ==
    /\ reg[i] # None
    /\ pc' = IF Kickable(reg[i]) THEN [pc EXCEPT ![reg[i]] = "check"] ELSE pc
    /\ UNCHANGED <<linkVars, info, state, sock, backoff, node, crashed>>

\* Mutant: add() does not look for an existing entry.
AddNew_Unchecked(i, t, d) ==
    /\ type[d] = "free"
    /\ reg' = [reg EXCEPT ![i] = d]
    /\ type' = [type EXCEPT ![d] = t]
    /\ info' = [info EXCEPT ![d] = i]
    /\ state' = [state EXCEPT ![d] = d]
    /\ Goto(d, "check")
    /\ UNCHANGED <<conn, err, cancelled, sock, backoff, node, crashed>>

AddNew(i, t, d) ==
    /\ reg[i] = None
    /\ type[d] = "free"
    /\ reg' = [reg EXCEPT ![i] = d]
    /\ type' = [type EXCEPT ![d] = t]
    /\ info' = [info EXCEPT ![d] = i]
    /\ state' = [state EXCEPT ![d] = d]
    /\ Goto(d, "check")
    /\ UNCHANGED <<conn, err, cancelled, sock, backoff, node, crashed>>

\* Mutant: remove() deletes the entry at once instead of leaving it to the goroutine.
Remove_Deletes(i) ==
    /\ reg[i] # None
    /\ reg' = [reg EXCEPT ![i] = None]
    /\ cancelled' = cancelled \cup {reg[i]}
    /\ sock' = Closed({conn[reg[i]]})
    /\ UNCHANGED <<type, conn, err, pc, info, state, backoff, node, crashed>>

\* The link of an accepted connection has no cancel function: calling the nil
\* function panics in the actor's goroutine, which ends the process.
Remove(i) ==
    /\ reg[i] # None
    /\ IF type[reg[i]] = "incoming"
         THEN crashed' = TRUE /\ UNCHANGED <<cancelled, sock>>
         ELSE /\ cancelled' = cancelled \cup {reg[i]}
              /\ sock' = Closed({conn[reg[i]]})
              /\ crashed' = crashed
    /\ UNCHANGED <<reg, type, conn, err, pc, info, state, backoff, node>>

RetryPeersNow ==
    LET kicked == {reg[i] : i \in {j \in Infos : reg[j] # None /\ Kickable(reg[j])}}
    IN  /\ pc' = [g \in Goroutines |-> IF g \in kicked THEN "check" ELSE pc[g]]
        /\ UNCHANGED <<linkVars, info, state, sock, backoff, node, crashed>>

----------------------------------------------------------------------------
(* The goroutine spawned by add(): dial, hand the connection to handler(), *)
(* back off, redial.                                                       *)

\* Mutant: the loop does not look at the context.
DialCheck_NoContext(d) ==
    /\ pc[d] = "check"
    /\ Goto(d, "dial")
    /\ UNCHANGED <<linkVars, info, state, sock, backoff, node, crashed>>

\* The top of the loop: give up once the context is done.
DialCheck(d) ==
    /\ pc[d] = "check"
    /\ Goto(d, IF Done(d) THEN "exit" ELSE "dial")
    /\ UNCHANGED <<linkVars, info, state, sock, backoff, node, crashed>>

\* connect() fails or times out.  A persistent link records the error in the
\* actor and backs off, an ephemeral one leaves the loop.
DialFail(d) ==
    /\ pc[d] = "dial"
    /\ IF type[d] = "persistent"
         THEN /\ conn' = [conn EXCEPT ![d] = None]
              /\ err' = [err EXCEPT ![d] = TRUE]
              /\ Goto(d, "failed")
         ELSE Goto(d, "exit") /\ UNCHANGED <<conn, err>>
    /\ UNCHANGED <<reg, type, cancelled, info, state, sock, backoff, node, crashed>>

\* connect() returns a connection.  Not every dialer looks at the context
\* (linkSOCKS.dial ignores it), and none looks again once it has succeeded.
DialOk(d) ==
    /\ pc[d] = "dial"
    /\ sock' = [sock EXCEPT ![d] = "open"]
    /\ Goto(d, "store")
    /\ UNCHANGED <<linkVars, info, state, backoff, node, crashed>>

\* The connection is stored in the link, even over one that came up in the
\* meantime; in that case the goroutine returns without closing its own.
DialStore(d) ==
    /\ pc[d] = "store"
    /\ conn' = [conn EXCEPT ![d] = d]
    /\ err' = [err EXCEPT ![d] = FALSE]
    /\ Goto(d, IF conn[d] # None THEN "exit" ELSE "handshake")
    /\ UNCHANGED <<reg, type, cancelled, info, state, sock, backoff, node, crashed>>

\* The handler has returned and the connection is closed: clear _conn.
DialTeardown(d) ==
    /\ pc[d] = "teardown"
    /\ conn' = [conn EXCEPT ![d] = None]
    /\ err' = [err EXCEPT ![d] = TRUE]
    /\ Goto(d, IF type[d] = "persistent" THEN "failed" ELSE "exit")
    /\ UNCHANGED <<reg, type, cancelled, info, state, sock, backoff, node, crashed>>

\* backoffNow: count the failure, then wait in the select.
BackoffNow(d) ==
    /\ pc[d] = "failed"
    /\ backoff' = [backoff EXCEPT ![d] =
                      IF @ >= 0 /\ @ < BackoffLimit THEN @ + 1 ELSE @]
    /\ Goto(d, "wait")
    /\ UNCHANGED <<linkVars, info, state, sock, node, crashed>>

\* The timer of the select; after ErrLinkToSelf there is none.
BackoffTimeout(d) ==
    /\ pc[d] = "wait"
    /\ ~Done(d)
    /\ backoff[d] >= 0
    /\ Goto(d, "check")
    /\ UNCHANGED <<linkVars, info, state, sock, backoff, node, crashed>>

BackoffCancelled(d) ==
    /\ pc[d] = "wait"
    /\ Done(d)
    /\ Goto(d, "exit")
    /\ UNCHANGED <<linkVars, info, state, sock, backoff, node, crashed>>

\* The deferred body of add and of listen: drop the registry entry if it is
\* still that of the link the goroutine used.
Drop(g) ==
    reg' = IF reg[info[g]] = state[g] THEN [reg EXCEPT ![info[g]] = None] ELSE reg

\* Mutant: the deferred body of add() leaves the entry.
DialExit_KeepsEntry(d) ==
    /\ pc[d] = "exit"
    /\ Goto(d, "none")
    /\ UNCHANGED <<linkVars, info, state, sock, backoff, node, crashed>>

DialExit(d) ==
    /\ pc[d] = "exit"
    /\ Drop(d)
    /\ Goto(d, "none")
    /\ UNCHANGED <<type, conn, err, cancelled, info, state, sock, backoff, node, crashed>>

----------------------------------------------------------------------------
(* handler(): the metadata and confirmation exchange under a six second    *)
(* deadline, then HandleConn for the life of the connection.               *)

\* Where the goroutine continues when handler() returns, the connection closed.
HandlerReturns(g) ==
    /\ sock' = [sock EXCEPT ![g] = "closed"]
    /\ Goto(g, IF g \in Dialers THEN "teardown" ELSE "unregister")

\* Mutant: success() does not reset the backoff.
HandshakeOk_KeepsBackoff(g) ==
    /\ pc[g] = "handshake"
    /\ sock[g] = "open"
    /\ IF node = "stopped"
         THEN HandlerReturns(g)
         ELSE Goto(g, "up") /\ UNCHANGED sock
    /\ UNCHANGED <<linkVars, info, state, backoff, node, crashed>>

\* All checks pass.  success() resets the backoff; HandleConn refuses a peer
\* once the PacketConn is closed (external: ironwood peers.addPeer).
HandshakeOk(g) ==
    /\ pc[g] = "handshake"
    /\ sock[g] = "open"
    /\ backoff' = IF g \in Dialers THEN [backoff EXCEPT ![g] = 0] ELSE backoff
    /\ IF node = "stopped"
         THEN HandlerReturns(g)
         ELSE Goto(g, "up") /\ UNCHANGED sock
    /\ UNCHANGED <<linkVars, info, state, node, crashed>>

\* A read or write fails, the deadline passes, or a check rejects the remote.
HandshakeFail(g) ==
    /\ pc[g] = "handshake"
    /\ HandlerReturns(g)
    /\ UNCHANGED <<linkVars, info, state, backoff, node, crashed>>

\* The remote key is this node's own: a dialing goroutine will wait without a
\* timer.  For an accepted connection this is HandshakeFail.
HandshakeToSelf(d) ==
    /\ pc[d] = "handshake"
    /\ sock[d] = "open"
    /\ HandlerReturns(d)
    /\ backoff' = [backoff EXCEPT ![d] = -1]
    /\ UNCHANGED <<linkVars, info, state, node, crashed>>

\* HandleConn returns because the connection is closed on either side.
SessionEnds(g) ==
    /\ pc[g] = "up"
    /\ sock[g] # "open"
    /\ HandlerReturns(g)
    /\ UNCHANGED <<linkVars, info, state, backoff, node, crashed>>

\* The remote side, the network or a peer timeout ends the connection.
RemoteClose(g) ==
    /\ sock[g] = "open"
    /\ sock' = [sock EXCEPT ![g] = "closed"]
    /\ UNCHANGED <<linkVars, pc, info, state, backoff, node, crashed>>

----------------------------------------------------------------------------
(* The goroutine of an accepted connection (listen).  The listeners        *)
(* themselves are module Listeners; here one may accept at any time.       *)

\* Accept returns a connection.  The linkInfo is made from its remote address,
\* which no other accepted connection has at the same time unless it is shared.
Accept(a, i) ==
    /\ pc[a] = "none"
    /\ type[a] = "free"
    /\ i \in SharedInfos \/ \A b \in Accepts : pc[b] # "none" => info[b] # i
    /\ info' = [info EXCEPT ![a] = i]
    /\ sock' = [sock EXCEPT ![a] = "open"]
    /\ Goto(a, "register")
    /\ UNCHANGED <<linkVars, state, backoff, node, crashed>>

\* No entry for the linkInfo: make a link and register it.
RegisterNew(a) ==
    /\ pc[a] = "register"
    /\ reg[info[a]] = None
    /\ type' = [type EXCEPT ![a] = "incoming"]
    /\ conn' = [conn EXCEPT ![a] = a]
    /\ reg' = [reg EXCEPT ![info[a]] = a]
    /\ state' = [state EXCEPT ![a] = a]
    /\ Goto(a, "handshake")
    /\ UNCHANGED <<err, cancelled, info, sock, backoff, node, crashed>>

\* An entry without a connection: lend it this one.
RegisterExisting(a) ==
    LET l == reg[info[a]]
    IN  /\ pc[a] = "register"
        /\ l # None
        /\ conn[l] = None
        /\ conn' = [conn EXCEPT ![l] = a]
        /\ err' = [err EXCEPT ![l] = FALSE]
        /\ state' = [state EXCEPT ![a] = l]
        /\ Goto(a, "handshake")
        /\ UNCHANGED <<reg, type, cancelled, info, sock, backoff, node, crashed>>

\* An entry with a connection: drop the new one, deferred body included.
RegisterDuplicate(a) ==
    LET l == reg[info[a]]
    IN  /\ pc[a] = "register"
        /\ l # None
        /\ conn[l] # None
        /\ state' = [state EXCEPT ![a] = l]
        /\ Goto(a, "unregister")
        /\ UNCHANGED <<linkVars, info, sock, backoff, node, crashed>>

\* The deferred body, which was deferred before the duplicate returned.
Unregister(a) ==
    /\ pc[a] = "unregister"
    /\ Drop(a)
    /\ Goto(a, "close")
    /\ UNCHANGED <<type, conn, err, cancelled, info, state, sock, backoff, node, crashed>>

\* The deferred conn.Close(), and the end of the goroutine.
AcceptClose(a) ==
    /\ pc[a] = "close"
    /\ Goto(a, "none")
    /\ sock' = [sock EXCEPT ![a] = "none"]
    /\ info' = [info EXCEPT ![a] = None]
    /\ state' = [state EXCEPT ![a] = None]
    /\ UNCHANGED <<linkVars, backoff, node, crashed>>

\* The garbage collector (external): the name of a link that nothing refers to
\* is free again, and a connection only it referred to is closed with it.
Collect(l) ==
    /\ type[l] # "free"
    /\ pc[l] = "none"
    /\ \A i \in Infos : reg[i] # l
    /\ \A a \in Accepts : state[a] # l
    /\ type' = [type EXCEPT ![l] = "free"]
    /\ conn' = [conn EXCEPT ![l] = None]
    /\ err' = [err EXCEPT ![l] = FALSE]
    /\ cancelled' = cancelled \ {l}
    /\ info' = [info EXCEPT ![l] = None]
    /\ state' = [state EXCEPT ![l] = None]
    /\ sock' = [sock EXCEPT ![l] = "none"]
    /\ backoff' = IF l \in Dialers THEN [backoff EXCEPT ![l] = 0] ELSE backoff
    /\ UNCHANGED <<reg, pc, node, crashed>>

----------------------------------------------------------------------------
(* Core.Stop: _close cancels the context, shuts the links down and closes  *)
(* the PacketConn, in that order.                                          *)

StopCancel ==
    /\ node = "running"
    /\ node' = "cancelled"
    /\ UNCHANGED <<linkVars, goVars, crashed>>

\* shutdown(): close the connection of every registered link.
Shutdown ==
    /\ node = "cancelled"
    /\ node' = "linksdown"
    /\ sock' = Closed({conn[reg[i]] : i \in {j \in Infos : reg[j] # None}})
    /\ UNCHANGED <<linkVars, pc, info, state, backoff, crashed>>

\* PacketConn.Close closes the connection of every peer it has (external).
ClosePacketConn ==
    /\ node = "linksdown"
    /\ node' = "stopped"
    /\ sock' = Closed({g \in Goroutines : pc[g] = "up"})
    /\ UNCHANGED <<linkVars, pc, info, state, backoff, crashed>>

----------------------------------------------------------------------------
DialStep(d) ==
    \/ DialCheck(d) \/ DialFail(d) \/ DialOk(d) \/ DialStore(d)
    \/ HandshakeOk(d) \/ HandshakeFail(d) \/ HandshakeToSelf(d) \/ SessionEnds(d)
    \/ DialTeardown(d) \/ BackoffNow(d) \/ BackoffTimeout(d) \/ BackoffCancelled(d)
    \/ DialExit(d)

AcceptStep(a) ==
    \/ RegisterNew(a) \/ RegisterExisting(a) \/ RegisterDuplicate(a)
    \/ HandshakeOk(a) \/ HandshakeFail(a) \/ SessionEnds(a)
    \/ Unregister(a) \/ AcceptClose(a)

StopStep == StopCancel \/ Shutdown \/ ClosePacketConn

Next ==
    /\ ~crashed
    /\ \/ \E i \in DialInfos : AddExisting(i)
       \/ \E i \in DialInfos, t \in {"persistent", "ephemeral"}, d \in Dialers : AddNew(i, t, d)
       \/ \E i \in RemoveInfos : Remove(i)
       \/ RetryPeersNow
       \/ \E d \in Dialers : DialStep(d)
       \/ \E a \in Accepts, i \in AcceptInfos : Accept(a, i)
       \/ \E a \in Accepts : AcceptStep(a)
       \/ \E g \in Goroutines : RemoteClose(g) \/ Collect(g)
       \/ StopStep

Spec == Init /\ [][Next]_vars

\* The goroutine waits for a SOCKS proxy.  linkSOCKS.dial drops the context and
\* proxy.Dial sets no deadline once it is connected: a silent proxy keeps it.
InProxy(g) == g \in Dialers /\ pc[g] = "dial" /\ info[g] \in ProxyInfos

\* What the goroutine of a link is in must end.  Of a dial this is certain only
\* once its context is done, which every dialer but linkSOCKS looks at.
Obliged(d) == pc[d] = "dial" => Done(d) /\ info[d] \notin ProxyInfos

\* The goroutines run, the timers fire and the deadline of handler(), of six
\* seconds, passes.  Nothing obliges the remote side, the operator, a dial whose
\* context is not done or Accept to do anything.
Fairness ==
    /\ \A d \in Dialers : WF_vars(~crashed /\ Obliged(d) /\ DialStep(d))
    /\ \A a \in Accepts : WF_vars(~crashed /\ AcceptStep(a))
    /\ WF_vars(~crashed /\ (Shutdown \/ ClosePacketConn))

FairSpec == Spec /\ Fairness

----------------------------------------------------------------------------
(* Properties.                                                             *)

\* No outbound peering has the linkInfo of an accepted connection: the remote
\* ports of accepted connections are not the ports peers listen on.
Disjoint == DialInfos \cap AcceptInfos = {}

\* Every entry of _links is one that a running goroutine will look at again in
\* its deferred body (add, listen): no entry is left behind to be reported by
\* getPeers and to answer "already configured" for ever.
EntryOwned ==
    \A i \in Infos : reg[i] # None =>
        \E g \in Goroutines :
            pc[g] \notin {"none", "register", "close"} /\ info[g] = i /\ state[g] = reg[i]

\* A dialing goroutine is reachable through _links as long as it runs, so
\* remove() and RetryPeersNow find it and a peer is never dialed by two
\* goroutines at once, whatever the order of adds, removes and failures.
DialerRegistered ==
    Disjoint => \A d \in Dialers : pc[d] # "none" => reg[info[d]] = d

\* Every connection in handler() is the _conn of the registered link of its
\* linkInfo: remove(), shutdown() and getPeers reach every live peering.
LiveConnTracked ==
    Disjoint => \A g \in Goroutines :
        InHandler(g) /\ info[g] \notin SharedInfos =>
            reg[info[g]] = state[g] /\ conn[state[g]] = g

\* getPeers never reports a peering that is up together with a last error:
\* every assignment to _conn keeps _err consistent (add, listen).
UpHasNoError == \A l \in Goroutines : conn[l] # None => ~err[l]

\* A link with no connection that could still be used, and no dial under way.
Quiet(d) == pc[d] \notin {"dial", "store"} /\ (InHandler(d) => sock[d] # "open")

\* A step leaves a removed link quiet if it was.
KeepsRemovedDown == \A d \in cancelled \cap cancelled' : Quiet(d) => Quiet(d)'

\* A removed link that has neither a dial under way nor a connection left is
\* never dialed or connected again: not by its timer, by add(), by RetryPeersNow
\* or by a handshake that was still going on.  When remove() gets it there is
\* left open: it closes the stored connection at once, while api.go says of
\* RemovePeer "The peer is not disconnected immediately".
RemovedStaysDown == [][KeepsRemovedDown]_vars

\* What the comment in listen() says of the check for an existing connection:
\* "This prevents duplicate peerings."
NoDuplicatePeering ==
    \A a, b \in Accepts :
        /\ InHandler(a) /\ sock[a] = "open"
        /\ InHandler(b) /\ sock[b] = "open"
        /\ info[a] = info[b]
        => a = b

\* What the comment in remove() says: "we will close the connection and stop it
\* from retrying".  The goroutine of a removed link ends.
RemovedDisconnects ==
    \A d \in Dialers : (d \in cancelled /\ pc[d] # "none") ~> (pc[d] = "none")

\* remove() of a configured linkInfo returns; it never ends the process.
RemoveReturns == ~crashed


\* AddPeer: "so that they will be called again if the connection drops".
RedialsAfterDrop ==
    \A d \in Dialers :
        (pc[d] = "up" /\ type[d] = "persistent" /\ sock[d] # "open")
            ~> (pc[d] = "dial" \/ d \in cancelled \/ CoreDone)
=============================================================================
