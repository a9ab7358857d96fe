---------------------------- MODULE AdminSocket ----------------------------
(***************************************************************************)
(* The admin socket, src/src/admin/admin.go, on a unix socket: the file,   *)
(* the listening sockets of the processes that use its path, the handler   *)
(* table, the goroutine of each connection, and the clients: uqdactl       *)
(* (src/cmd/uqdactl/main.go), and tools that keep a connection alive.      *)
(*                                                                         *)
(* The operations on the file and the table are steps of the program, see  *)
(* Node; the rest are actions of their own.  A handler is its outcome; what*)
(* remote requests do is in Requests, what doctor says in Doctor.          *)
(***************************************************************************)
EXTENDS Naturals, FiniteSets

CONSTANTS
    Procs,     \* processes that may be started
    Clients,
    Requests,  \* the requests that clients send
    None

\* Handlers by the call that registers them: New, SetAdmin and the three
\* SetupAdminHandlers.  A request is malformed, or names a handler or nothing.
Groups == {"list", "core", "admin", "multicast", "tun"}
Names == Groups \cup {"doctor", "unknown", "malformed"}
GroupOf(name) == IF name = "doctor" THEN "admin" ELSE name
Answers == {"success", "warning", "failure", "error"}

ASSUME AdminAssumption ==
    /\ Requests \subseteq [name: Names, keep: BOOLEAN]
    /\ None \notin Procs /\ None \notin Requests /\ None \notin Answers
    /\ None \notin 0 .. 2 /\ None # "stale" /\ "stale" \notin Procs

VARIABLES
    file,      \* the socket file: the process that bound it, "stale" if that is gone
    listening, \* a process's listening socket: "none", "open", "closed"
    serving,   \* the processes whose goroutine listen() runs
    handlers,  \* the groups registered in a process's table
    writing,   \* the processes in the middle of AddHandler
    cpc,       \* a client: "idle", "waiting", "open", "gone", "done"
    conn,      \* the process a connection leads to
    srv,       \* its goroutine there: "none", "backlog", "read", "lookup", "handle"
    asked,     \* the request that was sent
    answer,    \* the answer that was sent back
    code       \* the exit code of uqdactl

procVars == <<listening, serving, handlers, writing>>
connVars == <<cpc, conn, srv, asked, answer, code>>
adminVars == <<file, procVars, connVars>>

\* What the variables may hold; only a process with a socket serves it or adds
\* handlers, and a connection has a goroutine or a place in the backlog while it is open.
ATypeOK ==
    /\ file \in Procs \cup {"stale", None}
    /\ listening \in [Procs -> {"none", "open", "closed"}]
    /\ serving \in SUBSET Procs
    /\ handlers \in [Procs -> SUBSET Groups]
    /\ writing \in SUBSET Procs
    /\ cpc \in [Clients -> {"idle", "waiting", "open", "gone", "done"}]
    /\ conn \in [Clients -> Procs \cup {None}]
    /\ srv \in [Clients -> {"none", "backlog", "read", "lookup", "handle"}]
    /\ asked \in [Clients -> Requests \cup {None}]
    /\ answer \in [Clients -> Answers \cup {None}]
    /\ code \in [Clients -> 0 .. 2 \cup {None}]
    /\ \A p \in serving \cup writing : listening[p] # "none"
    /\ \A c \in Clients : srv[c] = "none" <=> conn[c] = None

AInit ==
    /\ file \in {"stale", None}
    /\ listening = [p \in Procs |-> "none"]
    /\ serving = {}
    /\ handlers = [p \in Procs |-> {}]
    /\ writing = {}
    /\ cpc = [c \in Clients |-> "idle"]
    /\ conn = [c \in Clients |-> None]
    /\ srv = [c \in Clients |-> "none"]
    /\ asked = [c \in Clients |-> None]
    /\ answer = [c \in Clients |-> None]
    /\ code = [c \in Clients |-> None]

----------------------------------------------------------------------------
(* Operations of New and Stop, for the steps of a process.                 *)

\* Somebody listens on the file's socket: DialTimeout succeeds or times out, unless
\* the caller may not open the socket, which is its owner's alone.
InUse == file \in Procs /\ listening[file] = "open"

\* The connections that lose their server: all of them, or the ones that were
\* not accepted yet.
Lose(p, lost) ==
    LET gone == {c \in Clients : conn[c] = p /\ srv[c] \in lost}
    IN  /\ conn' = [c \in Clients |-> IF c \in gone THEN None ELSE conn[c]]
        /\ srv' = [c \in Clients |-> IF c \in gone THEN "none" ELSE srv[c]]
        /\ UNCHANGED <<cpc, asked, answer, code>>

\* net.Listen: fails if there is a file.
Listen(p) ==
    /\ file = None
    /\ file' = p
    /\ listening' = [listening EXCEPT ![p] = "open"]

\* secureUnixSocket: chmod of whosever file is there, if there is one.  Until then the
\* file has the mode that the umask gives it, and its clients are in the backlog.
SecureUnixSocket == file # None

\* listener.Close: unlinks the path, whosever file is there, and closes the socket;
\* connections in the backlog are reset, accepted ones stay.
CloseListener(p) ==
    /\ file' = None
    /\ listening' = [listening EXCEPT ![p] = "closed"]
    /\ Lose(p, {"backlog"})

\* A process ends, in whichever way: its sockets are closed, its file stays.
ProcessGone(p) ==
    /\ file' = IF file = p THEN "stale" ELSE file
    /\ listening' = [listening EXCEPT ![p] = "none"]
    /\ serving' = serving \ {p}
    /\ handlers' = [handlers EXCEPT ![p] = {}]
    /\ writing' = writing \ {p}
    /\ Lose(p, {"backlog", "read", "lookup", "handle"})

----------------------------------------------------------------------------
(* Clients.                                                                *)

\* uqdactl, or another tool, connects and sends its request; or nobody listens or it
\* may not open the socket, and it reports that and exits.
Connect(c, r) ==
    /\ cpc[c] = "idle" /\ conn[c] = None
    /\ \/ /\ InUse
          /\ cpc' = [cpc EXCEPT ![c] = "waiting"]
          /\ conn' = [conn EXCEPT ![c] = file]
          /\ srv' = [srv EXCEPT ![c] = "backlog"]
          /\ asked' = [asked EXCEPT ![c] = r]
          /\ UNCHANGED code
       \/ /\ cpc' = [cpc EXCEPT ![c] = "done"]
          /\ code' = [code EXCEPT ![c] = 1]
          /\ UNCHANGED <<conn, srv, asked>>
    /\ UNCHANGED <<file, procVars, answer>>

\* Mutant: the diagnosis is printed and not looked at.
ExitCode_ErrorsOnly(a) == IF a = "error" THEN 1 ELSE 0

\* The exit code of run(): 1 for an error, doctorExitCode for a diagnosis.
ExitCode(a) == IF a \in {"error", "failure"} THEN 1 ELSE IF a = "warning" THEN 2 ELSE 0

\* The answer arrives.  uqdactl exits and its connection is closed; a tool that
\* keeps the connection alive goes on.
Receive(c) ==
    /\ cpc[c] = "waiting" /\ answer[c] # None
    /\ IF asked[c].keep
         THEN /\ cpc' = [cpc EXCEPT ![c] = "open"]
              /\ UNCHANGED code
         ELSE /\ cpc' = [cpc EXCEPT ![c] = "done"]
              /\ code' = [code EXCEPT ![c] = ExitCode(answer[c])]
    /\ UNCHANGED <<file, procVars, conn, srv, asked, answer>>

\* The connection ends without an answer: Decode fails, run() panics, and the
\* deferred function that recovers loses the code it returns: run() returns 0.
ReceiveEOF(c) ==
    /\ cpc[c] \in {"waiting", "open"} /\ conn[c] = None
    /\ cpc[c] = "waiting" => answer[c] = None
    /\ cpc' = [cpc EXCEPT ![c] = "done"]
    /\ code' = [code EXCEPT ![c] = IF asked[c].keep THEN None ELSE 0]
    /\ UNCHANGED <<file, procVars, conn, srv, asked, answer>>

\* The next request on a connection that is kept alive.
AskAgain(c, r) ==
    /\ cpc[c] = "open" /\ conn[c] # None
    /\ cpc' = [cpc EXCEPT ![c] = "waiting"]
    /\ asked' = [asked EXCEPT ![c] = r]
    /\ answer' = [answer EXCEPT ![c] = None]
    /\ UNCHANGED <<file, procVars, conn, srv, code>>

\* The tool closes it, or a client is interrupted while it waits.
Hangup(c) ==
    /\ cpc[c] \in {"waiting", "open"} /\ conn[c] # None
    /\ cpc' = [cpc EXCEPT ![c] = "gone"]
    /\ UNCHANGED <<file, procVars, conn, srv, asked, answer, code>>

\* The next client takes the name.
NextClient(c) ==
    /\ cpc[c] \in {"done", "gone"} /\ conn[c] = None
    /\ cpc' = [cpc EXCEPT ![c] = "idle"]
    /\ asked' = [asked EXCEPT ![c] = None]
    /\ answer' = [answer EXCEPT ![c] = None]
    /\ code' = [code EXCEPT ![c] = None]
    /\ UNCHANGED <<file, procVars, conn, srv>>

----------------------------------------------------------------------------
(* listen() and handleRequest().                                           *)

Accept(c) ==
    /\ srv[c] = "backlog" /\ conn[c] \in serving
    /\ srv' = [srv EXCEPT ![c] = "read"]
    /\ UNCHANGED <<file, procVars, cpc, conn, asked, answer, code>>

\* Mutant: the loop ends on any error.
AcceptError_Ends(p) ==
    /\ p \in serving
    /\ serving' = serving \ {p}
    /\ UNCHANGED <<file, listening, handlers, writing, connVars>>

\* Accept fails: the loop ends if Stop has closed done, and goes on otherwise.
AcceptError(p) ==
    /\ p \in serving
    /\ serving' = IF listening[p] = "closed" THEN serving \ {p} ELSE serving
    /\ UNCHANGED <<file, listening, handlers, writing, connVars>>

\* What is left of a round: the answer is sent; the connection is closed unless the
\* request asks to keep it.
Reply(c, a) ==
    /\ answer' = [answer EXCEPT ![c] = a]
    /\ srv' = [srv EXCEPT ![c] = IF asked[c].keep THEN "read" ELSE "none"]
    /\ conn' = [conn EXCEPT ![c] = IF asked[c].keep THEN @ ELSE None]
    /\ UNCHANGED <<file, procVars, cpc, asked, code>>

\* A request is decoded.
ReadRequest(c) ==
    /\ srv[c] = "read" /\ answer[c] = None
    /\ IF asked[c].name = "malformed"
         THEN Reply(c, "error")
         ELSE /\ srv' = [srv EXCEPT ![c] = "lookup"]
              /\ UNCHANGED <<file, procVars, cpc, conn, asked, answer, code>>

\* The client has gone: Decode fails, the error goes nowhere, the new req has no
\* KeepAlive.
ReadEnd(c) ==
    /\ srv[c] = "read" /\ cpc[c] = "gone" /\ answer[c] # None
    /\ srv' = [srv EXCEPT ![c] = "none"]
    /\ conn' = [conn EXCEPT ![c] = None]
    /\ UNCHANGED <<file, procVars, cpc, asked, answer, code>>

\* What reading the table may find while it is being written, if the process lives.
MayFind(c) ==
    IF conn[c] \in writing THEN BOOLEAN
    ELSE {GroupOf(asked[c].name) \in handlers[conn[c]]}

Lookup(c) ==
    /\ srv[c] = "lookup"
    /\ \E found \in MayFind(c) :
         IF found
           THEN /\ srv' = [srv EXCEPT ![c] = "handle"]
                /\ UNCHANGED <<file, procVars, cpc, conn, asked, answer, code>>
           ELSE Reply(c, "error")

\* The handler returns.  Only doctor has more than one kind of success.
Handle(c, a) ==
    /\ srv[c] = "handle"
    /\ a \in {"warning", "failure"} => asked[c].name = "doctor"
    /\ Reply(c, a)

\* A goroutine reads the table while AddHandler writes it; doctor does so again when
\* it calls other handlers, and so does list.
ReadsTable(c) ==
    \/ srv[c] = "lookup"
    \/ srv[c] = "handle" /\ asked[c].name \in {"doctor", "list"}
Races(p) == p \in writing /\ \E c \in Clients : conn[c] = p /\ ReadsTable(c)
=============================================================================
