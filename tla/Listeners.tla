----------------------------- MODULE Listeners -----------------------------
(***************************************************************************)
(* The listeners of a node: links.listen() of src/src/core/link.go from    *)
(* the bound socket to the deferred body of the accept loop, the Cancel    *)
(* that listen() returns to its caller, and links.shutdown() under         *)
(* Core.Stop.  What an accepted connection does is module Links.           *)
(*                                                                         *)
(* The listeners of the ws, wss and quic carriers hand over connections on *)
(* a channel that nobody closes, so their Accept never returns an error    *)
(* (link_ws.go, link_quic.go): these are ChanListeners.                    *)
(*                                                                         *)
(* No listen() is under way when Core.Stop is called: the configured       *)
(* listeners are made before anything else, and multicast, the only other  *)
(* caller in the programs of this repository, is stopped first.  Module    *)
(* Multicast has both and shows it (StopsInOrder); Next below says so for  *)
(* any user.  shutdown() leaves no mark that a later listen() could see,   *)
(* so without this a listener that is bound before or after it, and        *)
(* registered after it, stays open.                                        *)
(***************************************************************************)
EXTENDS Naturals

CONSTANTS
    Listeners,      \* the listeners of the node, by name
    ChanListeners   \* the ones of the ws, wss and quic carriers

ASSUME ListenersAssumption == ChanListeners \subseteq Listeners

VARIABLES
    lpc,        \* where listen() and then its accept loop is
    lsock,      \* the listeners whose socket is open
    listeners,  \* links._listeners
    node        \* the progress of Core._close

vars == <<lpc, lsock, listeners, node>>

\* What the state of listen() may hold; _listeners only knows the listeners
\* whose accept loop has started and not ended.
TypeOK ==
    /\ lpc \in [Listeners -> {"idle", "bound", "leaked", "accepting", "exiting"}]
    /\ lsock \in SUBSET Listeners
    /\ listeners \in SUBSET {s \in Listeners : lpc[s] \in {"accepting", "exiting"}}
    /\ node \in {"running", "cancelled", "linksdown"}

Init ==
    /\ lpc = [s \in Listeners |-> "idle"]
    /\ lsock = {}
    /\ listeners = {}
    /\ node = "running"

CoreDone == node # "running"
Goto(s, label) == lpc' = [lpc EXCEPT ![s] = label]

\* protocol.listen() has opened the socket.
Bind(s) ==
    /\ lpc[s] = "idle"
    /\ Goto(s, "bound")
    /\ lsock' = lsock \cup {s}
    /\ UNCHANGED <<listeners, node>>

\* An option does not parse: listen() returns and leaves the socket open.
BadOption(s) ==
    /\ lpc[s] = "bound"
    /\ Goto(s, "leaked")
    /\ UNCHANGED <<lsock, listeners, node>>

\* Mutant: the listener is not recorded.
Register_Unrecorded(s) ==
    /\ lpc[s] = "bound"
    /\ Goto(s, "accepting")
    /\ UNCHANGED <<lsock, listeners, node>>

\* The actor records the listener; the accept loop starts.
Register(s) ==
    /\ lpc[s] = "bound"
    /\ Goto(s, "accepting")
    /\ listeners' = listeners \cup {s}
    /\ UNCHANGED <<lsock, node>>

\* The caller of listen() calls Cancel, more than once if it likes.
Cancel(s) ==
    /\ lpc[s] \in {"accepting", "exiting"}
    /\ lsock' = lsock \ {s}
    /\ UNCHANGED <<lpc, listeners, node>>

\* Accept returns an error: a passing one ends the loop too, and it returns
\* nothing else once the socket is closed.
AcceptError(s) ==
    /\ lpc[s] = "accepting"
    /\ s \notin ChanListeners
    /\ Goto(s, "exiting")
    /\ UNCHANGED <<lsock, listeners, node>>

\* Mutant: the accept loop ends without deleting its entry.
Exit_KeepsEntry(s) ==
    /\ lpc[s] = "exiting"
    /\ lsock' = lsock \ {s}
    /\ Goto(s, "idle")
    /\ UNCHANGED <<listeners, node>>

\* The deferred body of the accept loop.
Exit(s) ==
    /\ lpc[s] = "exiting"
    /\ lsock' = lsock \ {s}
    /\ listeners' = listeners \ {s}
    /\ Goto(s, "idle")
    /\ UNCHANGED node

StopCancel ==
    /\ node = "running"
    /\ \A s \in Listeners : lpc[s] # "bound"
    /\ node' = "cancelled"
    /\ UNCHANGED <<lpc, lsock, listeners>>

\* shutdown(): cancel every registered listener.
Shutdown ==
    /\ node = "cancelled"
    /\ node' = "linksdown"
    /\ lsock' = lsock \ listeners
    /\ UNCHANGED <<lpc, listeners>>

Next ==
    \/ \E s \in Listeners :
          \/ ~CoreDone /\ Bind(s)
          \/ BadOption(s) \/ Register(s) \/ Cancel(s) \/ AcceptError(s) \/ Exit(s)
    \/ StopCancel
    \/ Shutdown

Spec == Init /\ [][Next]_vars

----------------------------------------------------------------------------
(* Properties.                                                             *)

\* Once shutdown() has run no listener that listen() returned is open, whatever
\* was cancelled, failed or exited around it.
ShutdownClosesAll ==
    node = "linksdown" =>
        \A s \in lsock : lpc[s] \notin {"bound", "accepting", "exiting"}

\* After Core.Stop the accept loop of every listener ends and its entry in
\* _listeners goes away, for the carriers whose Accept can fail.
StopEndsLoops ==
    \A s \in Listeners \ ChanListeners :
        (CoreDone /\ s \in listeners) ~> (s \notin listeners)
=============================================================================
