-------------------------------- MODULE Node --------------------------------
(***************************************************************************)
(* The life of the daemon, main() of src/cmd/uqda/main.go, from the point  *)
(* where the core runs: the admin socket is set up, handlers are added     *)
(* while it is already served, multicast and TUN are started, privileges   *)
(* are dropped, a signal stops all of it in order.  Several processes may  *)
(* be started on one socket path, each may be killed at any time.          *)
(***************************************************************************)
EXTENDS AdminSocket

VARIABLES
    pc,         \* where main() of a process is
    excused,    \* two processes have looked after the socket file at the same time, or
                \* one that may not open the socket of another took it for dead
    settled     \* the clients that connected to a process that was ready

vars == <<adminVars, pc, excused, settled>>

\* main() up to the socket it listens on, then in the order of the code.
Securing == {"stat", "dial", "remove", "listen"}
Stages == {"off", "chmod", "core", "admin", "multicast", "multicastHandlers",
           "tun", "tunHandlers", "chuser", "ready", "stopping"}
            \cup Securing

Goto(p, l) == pc' = [pc EXCEPT ![p] = l]
From(p, l) == pc[p] = l /\ UNCHANGED settled

\* Everything about connections and tables stays.
NoChange == UNCHANGED <<adminVars, excused>>

\* What the variables may hold.
NTypeOK ==
    /\ ATypeOK
    /\ pc \in [Procs -> Stages]
    /\ excused \in BOOLEAN
    /\ settled \in SUBSET Clients

Init ==
    /\ AInit
    /\ pc = [p \in Procs |-> "off"]
    /\ excused = FALSE
    /\ settled = {}

----------------------------------------------------------------------------
(* admin.New.                                                              *)

Start(p) ==
    /\ From(p, "off") /\ Goto(p, "stat")
    /\ excused' = (excused \/ \E q \in Procs : pc[q] \in Securing)
    /\ UNCHANGED adminVars

\* AdminListen is "none": New returns nil.
StartWithoutAdmin(p) ==
    /\ From(p, "off") /\ Goto(p, "multicast")
    /\ NoChange

Stat(p) ==
    /\ From(p, "stat") /\ Goto(p, IF file # None THEN "dial" ELSE "listen")
    /\ NoChange

\* os.Exit or a panic of main().
Exits(p) == Goto(p, "off") /\ ProcessGone(p) /\ UNCHANGED <<excused, settled>>

\* Mutant: whether somebody listens is not asked.
Dial_Skipped(p) ==
    /\ pc[p] = "dial"
    /\ Goto(p, "remove") /\ NoChange /\ UNCHANGED settled

\* Somebody answers or the dial times out: exit.  Any other error means that the file
\* may be removed: nobody listens, or the process may not open the socket.
Dial(p) ==
    /\ pc[p] = "dial"
    /\ \/ InUse /\ Exits(p)
       \/ /\ Goto(p, "remove")
          /\ excused' = (excused \/ InUse)
          /\ UNCHANGED <<adminVars, settled>>

\* os.Remove: whosever file is there by now; exit if there is none, or if the process
\* may not remove it.
Remove(p) ==
    /\ pc[p] = "remove"
    /\ \/ Exits(p)
       \/ /\ file # None
          /\ Goto(p, "listen")
          /\ file' = None
          /\ UNCHANGED <<procVars, connVars, excused, settled>>

ListenOk(p) ==
    /\ From(p, "listen") /\ Goto(p, "chmod")
    /\ Listen(p)
    /\ UNCHANGED <<serving, handlers, writing, connVars, excused>>

\* There is a file again, or listening fails for another reason.
ListenFails(p) == pc[p] = "listen" /\ Exits(p)

\* The socket is chmoded, "list" is registered, the goroutine that accepts is
\* started, and SetAdmin begins to register the handlers of the core.
ChmodOk(p) ==
    /\ From(p, "chmod") /\ Goto(p, "core")
    /\ SecureUnixSocket
    /\ handlers' = [handlers EXCEPT ![p] = {"list"}]
    /\ serving' = serving \cup {p}
    /\ writing' = writing \cup {p}
    /\ UNCHANGED <<file, listening, connVars, excused>>

\* Chmod fails: the listener is closed and main() panics.
ChmodFails(p) ==
    /\ pc[p] = "chmod"
    /\ Goto(p, "off")
    /\ file' = None
    /\ listening' = [listening EXCEPT ![p] = "none"]
    /\ Lose(p, {"backlog"})
    /\ UNCHANGED <<serving, handlers, writing, excused, settled>>

----------------------------------------------------------------------------
(* Handlers, multicast, TUN.                                               *)

\* Whether p has an admin socket.
HasAdmin(p) == listening[p] # "none"

Registers(p, group) ==
    /\ handlers' = [handlers EXCEPT ![p] = @ \cup {group}]
    /\ UNCHANGED <<file, listening, serving, connVars, excused>>

\* SetAdmin ends; SetupAdminHandlers of the admin socket follows.
RegisterCore(p) ==
    /\ From(p, "core") /\ Goto(p, "admin")
    /\ Registers(p, "core") /\ UNCHANGED writing

RegisterAdmin(p) ==
    /\ From(p, "admin") /\ Goto(p, "multicast")
    /\ Registers(p, "admin") /\ writing' = writing \ {p}

\* The modules begin to register their handlers if there is an admin socket.
BeginsHandlers(p, handlersAt, next) ==
    /\ IF HasAdmin(p)
         THEN Goto(p, handlersAt) /\ writing' = writing \cup {p}
         ELSE Goto(p, next) /\ UNCHANGED writing
    /\ UNCHANGED <<file, listening, serving, handlers, connVars, excused>>

MulticastOk(p) ==
    From(p, "multicast") /\ BeginsHandlers(p, "multicastHandlers", "tun")

\* Mutant: the handlers of multicast are not registered.
RegisterMulticast_Skipped(p) ==
    /\ From(p, "multicastHandlers") /\ Goto(p, "tun")
    /\ writing' = writing \ {p}
    /\ UNCHANGED <<file, listening, serving, handlers, connVars, excused>>

RegisterMulticast(p) ==
    /\ From(p, "multicastHandlers") /\ Goto(p, "tun")
    /\ Registers(p, "multicast") /\ writing' = writing \ {p}

TunOk(p) == From(p, "tun") /\ BeginsHandlers(p, "tunHandlers", "chuser")

RegisterTun(p) ==
    /\ From(p, "tunHandlers") /\ Goto(p, "chuser")
    /\ Registers(p, "tun") /\ writing' = writing \ {p}

\* multicast.New or tun.New fails, or a regular expression does not compile.
ModuleFails(p) == pc[p] \in {"multicast", "tun"} /\ Exits(p)

\* chuser, if asked for: it needs the socket file that it hands to the user.
ChuserOk(p) == From(p, "chuser") /\ Goto(p, "ready") /\ NoChange
ChuserFails(p) == pc[p] = "chuser" /\ Exits(p)

----------------------------------------------------------------------------
(* The end.                                                                *)

\* A signal: admin.Stop closes done and the listener, if there is one.
StopAdmin(p) ==
    /\ From(p, "ready") /\ Goto(p, "stopping")
    /\ IF HasAdmin(p) THEN CloseListener(p) ELSE UNCHANGED <<file, listening, connVars>>
    /\ UNCHANGED <<serving, handlers, writing, excused>>

\* Stop of multicast, of the TUN adapter and of the core, none of which touches the
\* admin socket, and main() returns.
StopRest(p) == pc[p] = "stopping" /\ Exits(p)

Kill(p) == pc[p] # "off" /\ Exits(p)

\* The runtime finds that a map is read while it is written.
Fault(p) == Races(p) /\ Exits(p)

----------------------------------------------------------------------------
Main(p) ==
    \/ Stat(p) \/ Dial(p) \/ Remove(p) \/ ListenOk(p) \/ ListenFails(p)
    \/ ChmodOk(p) \/ ChmodFails(p) \/ RegisterCore(p) \/ RegisterAdmin(p)
    \/ MulticastOk(p) \/ RegisterMulticast(p) \/ TunOk(p) \/ RegisterTun(p)
    \/ ModuleFails(p) \/ ChuserOk(p) \/ ChuserFails(p)
    \/ StopRest(p)

Environment(p) ==
    Start(p) \/ StartWithoutAdmin(p) \/ StopAdmin(p) \/ Kill(p) \/ Fault(p)

\* Connecting also notes whether the process was ready.
ClientConnects(c) ==
    /\ \E r \in Requests : Connect(c, r)
    /\ settled' = IF conn'[c] # None /\ pc[file] = "ready" THEN settled \cup {c} ELSE settled \ {c}

\* What uqdactl or a tool has to do, and what it may do.
ClientGoesOn(c) == (Receive(c) \/ ReceiveEOF(c)) /\ UNCHANGED settled
ClientChoice(c) ==
    /\ (\E r \in Requests : AskAgain(c, r)) \/ Hangup(c) \/ NextClient(c)
    /\ UNCHANGED settled

Serve(c) ==
    /\ \/ Accept(c) \/ ReadRequest(c) \/ ReadEnd(c) \/ Lookup(c)
       \/ \E a \in Answers : Handle(c, a)
    /\ UNCHANGED settled

Next ==
    \/ \E p \in Procs : Main(p) \/ Environment(p)
    \/ \E p \in Procs : AcceptError(p) /\ UNCHANGED <<pc, excused, settled>>
    \/ \E c \in Clients : /\ ClientConnects(c) \/ ClientGoesOn(c) \/ ClientChoice(c) \/ Serve(c)
                          /\ UNCHANGED <<pc, excused>>

Spec == Init /\ [][Next]_vars

\* main() does not stand still on its way up or down, connections are accepted and
\* served, and handlers return: remote requests time out after six seconds.
\* Nobody has to start, stop or ask anything.
FairSpec ==
    /\ Spec
    /\ \A p \in Procs : WF_vars(Main(p))
    /\ \A c \in Clients :
         WF_vars(Serve(c) /\ UNCHANGED <<pc, excused>>)
         /\ WF_vars(ClientGoesOn(c) /\ UNCHANGED <<pc, excused>>)

----------------------------------------------------------------------------
(* Properties.                                                             *)

Running == Stages \ (Securing \cup {"off", "stopping"})

\* The socket file leads to the process that serves it: as long as no two starts
\* overlap and none is refused by a socket that it may not open, a process that has its
\* socket is reachable until it stops, through crashes that leave a stale file,
\* restarts, starts of a second daemon and stops of either.  The two are excluded
\* because the code checks the file and removes it in two steps, and because every
\* error of the dial but a timeout counts as "not in use".
Reachable ==
    ~excused => \A p \in Procs : (pc[p] \in Running /\ HasAdmin(p)) => file = p

\* A client that connects to a process that is ready is never told that a handler
\* the process has does not exist, and never finds the table being written: all
\* handlers are there before main() waits for a signal, and stay.
Settled ==
    \A c \in settled : conn[c] # None =>
        /\ conn[c] \notin writing
        /\ srv[c] = "lookup" /\ asked[c].name \notin {"unknown", "malformed"} =>
             GroupOf(asked[c].name) \in handlers[conn[c]]

\* The exit code of uqdactl tells how its request went: 2 is a diagnosis with
\* warnings, 1 an error, a failure or nobody to ask, and 0 a success, or a daemon
\* that went away without an answer.
CodesAgree ==
    \A c \in Clients :
        /\ code[c] = 2 => answer[c] = "warning"
        /\ code[c] = 1 => answer[c] \in {"error", "failure"} \/ asked[c] = None
        /\ code[c] = 0 => answer[c] \in {"success", None}

\* Every client gets an answer or loses its connection; none waits for ever, not in
\* the backlog of a process that is starting or stopping, nor on an open connection
\* that Stop leaves alone.
ClientServed == \A c \in Clients : (cpc[c] = "waiting") ~> (cpc[c] # "waiting")
=============================================================================
