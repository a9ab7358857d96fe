----------------------------- MODULE Multicast -----------------------------
(***************************************************************************)
(* Local discovery, src/src/multicast/multicast.go, on top of the          *)
(* listeners of the node (module Listeners), and the order in which        *)
(* cmd/uqda/main.go and contrib/mobile start and stop the two.             *)
(*                                                                         *)
(* The Multicast actor runs what is in its inbox, first come first served: *)
(* _announce (from New, from the timer, from AnnounceNow), the bodies of   *)
(* AnnounceNow and Stop, and the look at _interfaces by the goroutine that *)
(* reads beacons.  _announce calls listen() for one interface after the    *)
(* other, and each such call is two steps here as it is in Listeners, so   *)
(* that everything else may happen in between.                             *)
(*                                                                         *)
(* When a beacon is due (listenerInfo.interval) and what is in it are left *)
(* out: sending one changes no state.  So is _multicastStarted, which only *)
(* talks to the system, on Apple platforms.                                *)
(***************************************************************************)
EXTENDS Listeners, Sequences, FiniteSets

CONSTANTS
    Local,    \* the listeners that multicast may make, by name
    Ifaces,   \* interfaces of the system
    Addrs,    \* link-local addresses
    Rules,    \* config._interfaces in the order of the configuration file
    Beacons,  \* what other nodes send
    Callers,  \* the goroutines of the program that call AnnounceNow
    None

RuleType == [match: SUBSET Ifaces, beacon: BOOLEAN, listen: BOOLEAN, password: STRING]

\* zone is where a beacon arrives, valid that it decodes, is of this version and
\* not the node's own, and password what its hash was made with.
BeaconType == [zone: Ifaces, valid: BOOLEAN, password: STRING]

ASSUME LocalAssumption ==
    /\ Local \subseteq Listeners \ ChanListeners
    /\ None \notin Listeners \cup (Ifaces \X Local)
ASSUME CallersAssumption == Callers \cap {"announce", "stop", "look"} = {}
ASSUME RulesAssumption ==
    /\ \A r \in 1..Len(Rules) : Rules[r] \in RuleType
    /\ Beacons \subseteq BeaconType

VARIABLES
    stage,    \* how far the program has got
    running,  \* m.running
    sock,     \* m.sock is open
    ifaces,   \* m._interfaces: the rule and the addresses of an interface
    tracked,  \* m._listeners
    laddr,    \* the address a listener was bound to
    timer,    \* m._timer
    inbox,    \* the inbox of the actor; a caller stands for the body of AnnounceNow
    apc,      \* where the actor is
    todo,     \* the interfaces _announce has not come to
    binding,  \* the interface and the listener in ListenLocal
    now,      \* the callers that wait in AnnounceNow
    rpc,      \* where listen() is
    adv       \* the beacon it has read

actor == <<running, sock, ifaces, tracked, laddr, timer, apc, todo, binding>>
reader == <<rpc, adv>>
lvars == <<lpc, lsock, listeners, node>>
mvars == <<lvars, actor, reader, stage, inbox, now>>

Infos == [rule: 1..Len(Rules), addrs: SUBSET Addrs]

MTypeOK ==
    /\ TypeOK
    /\ stage \in {"core", "up", "stopping", "stopped"}
    /\ running \in BOOLEAN /\ sock \in BOOLEAN /\ now \subseteq Callers
    /\ \A i \in Ifaces : ifaces[i] # None => ifaces[i] \in Infos
    /\ \A i \in Ifaces : tracked[i] # None => tracked[i] \in Local /\ laddr[tracked[i]] \in Addrs
    /\ timer \in {"none", "armed", "spent"}
    /\ \A n \in 1..Len(inbox) : inbox[n] \in {"announce", "stop", "look"} \cup Callers
    /\ apc \in {"idle", "announce", "blocked"}
    /\ todo \subseteq Ifaces
    /\ rpc \in {"off", "read", "look", "call", "done"}
    /\ adv \in Beacons \cup {None}

MInit ==
    /\ Init
    /\ stage = "core"
    /\ running = FALSE /\ sock = FALSE /\ now = {}
    /\ ifaces = [i \in Ifaces |-> None]
    /\ tracked = [i \in Ifaces |-> None]
    /\ laddr = [s \in Local |-> None]
    /\ timer = "none"
    /\ inbox = <<>>
    /\ apc = "idle"
    /\ todo = {}
    /\ binding = None
    /\ rpc = "off" /\ adv = None

----------------------------------------------------------------------------
(* The program.                                                            *)

\* core.New: the configured listeners, one after the other.  One that fails is
\* logged and left.
ConfigListen ==
    /\ stage = "core"
    /\ \E s \in Listeners \ Local :
          \/ Bind(s) /\ \A t \in Listeners : lpc[t] # "bound"
          \/ BadOption(s)
          \/ Register(s)
    /\ UNCHANGED <<actor, reader, stage, inbox, now>>

Enabled(r) == Rules[r].beacon \/ Rules[r].listen

\* multicast.New: _start() opens the socket, starts listen() and the first
\* announcement; it does neither if no rule is enabled or the socket fails.
Start ==
    /\ stage = "core"
    /\ \A s \in Listeners : lpc[s] # "bound"
    /\ stage' = "up"
    /\ \/ /\ \E r \in 1..Len(Rules) : Enabled(r)
          /\ running' = TRUE /\ sock' = TRUE
          /\ rpc' = "read"
          /\ inbox' = Append(inbox, "announce")
       \/ UNCHANGED <<running, sock, rpc, inbox>>
    /\ UNCHANGED <<lvars, ifaces, tracked, laddr, timer, apc, todo, binding, adv, now>>

\* The program is told to stop and calls Stop.
CallStop ==
    /\ stage = "up"
    /\ stage' = "stopping"
    /\ inbox' = Append(inbox, "stop")
    /\ UNCHANGED <<lvars, actor, reader, now>>

\* Stop has returned: Core.Stop.
CancelCore ==
    /\ stage = "stopped"
    /\ node = "running"
    /\ node' = "cancelled"
    /\ UNCHANGED <<lpc, lsock, listeners, actor, reader, stage, inbox, now>>

ShutdownCore ==
    /\ Shutdown
    /\ UNCHANGED <<actor, reader, stage, inbox, now>>

\* Accept loops fail and end.
AcceptLoop ==
    /\ \E s \in Listeners : AcceptError(s) \/ Exit(s)
    /\ UNCHANGED <<actor, reader, stage, inbox, now>>

----------------------------------------------------------------------------
(* The actor.                                                              *)

\* The actor takes a message of the inbox.
Take(msg) == apc = "idle" /\ inbox # <<>> /\ Head(inbox) = msg

\* AnnounceNow is called.
CallNow(c) ==
    /\ stage # "core"
    /\ c \notin now
    /\ now' = now \cup {c}
    /\ inbox' = Append(inbox, c)
    /\ UNCHANGED <<lvars, actor, reader, stage>>

\* Mutant: the timer is left running.
Now_KeepsTimer(c) ==
    /\ Take(c)
    /\ inbox' = Append(Tail(inbox), "announce")
    /\ now' = now \ {c}
    /\ UNCHANGED <<lvars, actor, reader, stage>>

\* The body of AnnounceNow.  A timer that cannot be stopped has fired or was
\* stopped before, and the actor goes on to receive from its channel; timers of
\* time.AfterFunc have none, and a receive from nil never returns.
Now(c) ==
    /\ Take(c)
    /\ IF timer = "spent"
         THEN /\ apc' = "blocked"
              /\ UNCHANGED <<inbox, now, timer>>
         ELSE /\ timer' = IF timer = "armed" THEN "spent" ELSE timer
              /\ inbox' = Append(Tail(inbox), "announce")
              /\ now' = now \ {c}
              /\ UNCHANGED apc
    /\ UNCHANGED <<lvars, running, sock, ifaces, tracked, laddr, todo, binding, reader, stage>>

\* Mutant: the socket is closed and the module stays started.
Stop_KeepsRunning ==
    /\ Take("stop")
    /\ sock' = FALSE
    /\ inbox' = Tail(inbox)
    /\ stage' = "stopped"
    /\ UNCHANGED <<lvars, running, ifaces, tracked, laddr, timer, apc, todo, binding, reader, now>>

\* Mutant: the socket is left open.
Stop_KeepsSocket ==
    /\ Take("stop")
    /\ running' = FALSE
    /\ inbox' = Tail(inbox)
    /\ stage' = "stopped"
    /\ UNCHANGED <<lvars, sock, ifaces, tracked, laddr, timer, apc, todo, binding, reader, now>>

\* Mutant: what else is in the inbox is thrown away.
Stop_DropsInbox ==
    /\ Take("stop")
    /\ running' = FALSE
    /\ sock' = FALSE
    /\ inbox' = <<>>
    /\ stage' = "stopped"
    /\ UNCHANGED <<lvars, ifaces, tracked, laddr, timer, apc, todo, binding, reader, now>>

\* _stop().  The listeners and the timer stay as they are.
Stop ==
    /\ Take("stop")
    /\ running' = FALSE
    /\ sock' = FALSE
    /\ inbox' = Tail(inbox)
    /\ stage' = "stopped"
    /\ UNCHANGED <<lvars, ifaces, tracked, laddr, timer, apc, todo, binding, reader, now>>

\* The rules _getAllowedInterfaces may come upon for an interface: it ranges
\* over a map, skips rules that are not enabled and takes the first that matches.
Matching(i) == {r \in 1..Len(Rules) : Enabled(r) /\ i \in Rules[r].match}

\* What _updateInterfaces may find: the system has any of its interfaces up, with
\* any addresses.  If it fails to list them there are none.
Scan == {found \in [Ifaces -> Infos \cup {None}] :
            \A i \in Ifaces : found[i] # None => found[i].rule \in Matching(i)}

AddrsOf(i) == IF ifaces[i] = None THEN {} ELSE ifaces[i].addrs

\* Mutant: a listener is only stopped when its interface is gone.
Stale_AddressKept(i) == tracked[i] # None /\ ifaces[i] = None

\* The listener of an interface that is gone, or that has lost the address.
Stale(i) == tracked[i] # None /\ laddr[tracked[i]] \notin AddrsOf(i)

\* _announce of a module that is not running.
AnnounceSkip ==
    /\ Take("announce")
    /\ ~running
    /\ inbox' = Tail(inbox)
    /\ UNCHANGED <<lvars, actor, reader, stage, now>>

\* _announce: look at the interfaces.
AnnounceStart ==
    /\ Take("announce")
    /\ running
    /\ inbox' = Tail(inbox)
    /\ apc' = "announce"
    /\ ifaces' \in Scan
    /\ todo' = {i \in Ifaces : AddrsOf(i)' # {} /\ Rules[ifaces'[i].rule].beacon}
    /\ UNCHANGED <<lvars, running, sock, tracked, laddr, timer, binding, reader, stage, now>>

\* Stop a listener that is stale; its accept loop may have ended by itself.
AnnounceCancel(i) ==
    /\ apc = "announce"
    /\ Stale(i)
    /\ IF lpc[tracked[i]] = "idle" THEN UNCHANGED lvars ELSE Cancel(tracked[i])
    /\ tracked' = [tracked EXCEPT ![i] = None]
    /\ UNCHANGED <<running, sock, ifaces, laddr, timer, apc, todo, binding>>
    /\ UNCHANGED <<reader, stage, inbox, now>>

\* The stale listeners are gone, and ListenLocal is not under way.
Ready == apc = "announce" /\ binding = None /\ \A j \in Ifaces : ~Stale(j)

\* An interface that has a listener, or for which ListenLocal fails on every
\* address.
AnnounceNext(i) ==
    /\ Ready
    /\ i \in todo
    /\ todo' = todo \ {i}
    /\ UNCHANGED <<lvars, running, sock, ifaces, tracked, laddr, timer, apc, binding>>
    /\ UNCHANGED <<reader, stage, inbox, now>>

\* ListenLocal opens a socket on an address of the interface.
AnnounceBind(i, s) ==
    /\ Ready
    /\ i \in todo
    /\ tracked[i] = None
    /\ \A j \in Ifaces : tracked[j] # s
    /\ Bind(s)
    /\ \E a \in AddrsOf(i) : laddr' = [laddr EXCEPT ![s] = a]
    /\ binding' = <<i, s>>
    /\ UNCHANGED <<running, sock, ifaces, tracked, timer, apc, todo>>
    /\ UNCHANGED <<reader, stage, inbox, now>>

\* ListenLocal returns and the listener is stored.
AnnounceRegister ==
    /\ binding # None
    /\ LET i == binding[1] s == binding[2] IN
          /\ Register(s)
          /\ tracked' = [tracked EXCEPT ![i] = s]
          /\ todo' = todo \ {i}
    /\ binding' = None
    /\ UNCHANGED <<running, sock, ifaces, laddr, timer, apc, reader, stage, inbox, now>>

\* Mutant: a timer that is there is not started again.
AnnounceDone_Once ==
    /\ Ready
    /\ todo = {}
    /\ apc' = "idle"
    /\ timer' = IF timer = "none" THEN "armed" ELSE timer
    /\ UNCHANGED <<lvars, running, sock, ifaces, tracked, laddr, todo, binding>>
    /\ UNCHANGED <<reader, stage, inbox, now>>

\* Every interface is done: start the timer again.
AnnounceDone ==
    /\ Ready
    /\ todo = {}
    /\ apc' = "idle"
    /\ timer' = "armed"
    /\ UNCHANGED <<lvars, running, sock, ifaces, tracked, laddr, todo, binding>>
    /\ UNCHANGED <<reader, stage, inbox, now>>

\* The timer of the latest announcement.
TimerFires ==
    /\ timer = "armed"
    /\ timer' = "spent"
    /\ inbox' = Append(inbox, "announce")
    /\ UNCHANGED <<lvars, running, sock, ifaces, tracked, laddr, apc, todo, binding>>
    /\ UNCHANGED <<reader, stage, now>>

----------------------------------------------------------------------------
(* listen(): the goroutine that reads beacons.                             *)

\* The next round of the loop.
Resume == rpc' = IF running THEN "read" ELSE "done"

\* A beacon arrives; only a valid one is looked at.
ReadBeacon(b) ==
    /\ rpc = "read"
    /\ sock
    /\ IF b.valid
         THEN rpc' = "look" /\ adv' = b /\ inbox' = Append(inbox, "look")
         ELSE Resume /\ UNCHANGED <<adv, inbox>>
    /\ UNCHANGED <<lvars, actor, stage, now>>

\* ReadFrom fails, as it always does once the socket is closed.
ReadError ==
    /\ rpc = "read"
    /\ Resume
    /\ UNCHANGED <<lvars, actor, adv, stage, inbox, now>>

\* The interface listens, and the hash is that of the beacon's key under the
\* password of the interface.
Matches(b) ==
    /\ ifaces[b.zone] # None
    /\ Rules[ifaces[b.zone].rule].listen
    /\ Rules[ifaces[b.zone].rule].password = b.password

\* The actor hands out _interfaces, and listen() compares.
Look ==
    /\ Take("look")
    /\ inbox' = Tail(inbox)
    /\ IF Matches(adv)
         THEN rpc' = "call" /\ UNCHANGED adv
         ELSE Resume /\ adv' = None
    /\ UNCHANGED <<lvars, actor, stage, now>>

\* CallPeer has returned; what it does is links.add() of module Links.
CallPeer ==
    /\ rpc = "call"
    /\ Resume
    /\ adv' = None
    /\ UNCHANGED <<lvars, actor, stage, inbox, now>>

----------------------------------------------------------------------------
Actor ==
    \/ Stop \/ AnnounceSkip \/ AnnounceStart \/ AnnounceRegister \/ AnnounceDone \/ Look
    \/ \E c \in Callers : Now(c)
    \/ \E i \in Ifaces : AnnounceCancel(i) \/ AnnounceNext(i) \/ \E s \in Local : AnnounceBind(i, s)

Reader == ReadError \/ CallPeer \/ \E b \in Beacons : ReadBeacon(b)

MNext ==
    \/ ConfigListen \/ Start \/ CallStop \/ CancelCore \/ ShutdownCore \/ AcceptLoop
    \/ TimerFires \/ Actor \/ Reader
    \/ \E c \in Callers : CallNow(c)

MSpec == MInit /\ [][MNext]_mvars

\* The program goes on after Stop, actors run their inboxes, timers fire, and
\* calls on closed sockets return.  Nothing is assumed of interfaces, beacons and
\* callers.
MFairSpec ==
    /\ MSpec
    /\ WF_mvars(Actor)
    /\ WF_mvars(TimerFires)
    /\ WF_mvars(CallPeer \/ (~sock /\ ReadError))
    /\ WF_mvars(CancelCore \/ ShutdownCore)
    /\ \A s \in Listeners \ ChanListeners :
          WF_mvars(AcceptLoop /\ ((s \notin lsock /\ AcceptError(s)) \/ Exit(s)))

----------------------------------------------------------------------------
(* Properties.                                                             *)

\* Core.Stop never comes while a listen() is under way, which module Listeners
\* assumes: Stop of multicast goes through the actor, and an announcement that is
\* still in the inbox finds the module stopped.
StopsInOrder == Spec

\* As long as the module runs there is never more than one announcement on its way: in
\* the inbox, running or in the timer, whoever calls AnnounceNow and how often.
\* Otherwise the beacons would multiply, and _timer would forget timers that still run.
\* A module that does not run drops what is in the inbox.
OneAnnouncement ==
    running =>
        Cardinality({n \in 1..Len(inbox) : inbox[n] = "announce"})
          + (IF timer = "armed" THEN 1 ELSE 0) + (IF apc = "announce" THEN 1 ELSE 0) <= 1

\* Between announcements an open listener of multicast is one that _listeners has,
\* at an address that the interface had when it was last looked at: none is
\* forgotten when interfaces go, come back and change their addresses.
NoStaleListener ==
    apc # "announce" => \A s \in Local \cap lsock : \E i \in Ifaces :
        tracked[i] = s /\ laddr[s] \in AddrsOf(i)

\* Whoever waits for the actor in phony.Block gets its turn, unless AnnounceNow has
\* blocked the actor: the goroutine that reads beacons, the program in Stop, and every
\* caller of AnnounceNow, however announcements, timers and Stop come in between.
CallersReturn ==
    /\ (rpc = "look") ~> (rpc # "look" \/ apc = "blocked")
    /\ (stage = "stopping") ~> (stage = "stopped" \/ apc = "blocked")
    /\ \A c \in Callers : (c \in now) ~> (c \notin now \/ apc = "blocked")

\* After Stop the goroutine that reads beacons ends, unless AnnounceNow has
\* blocked the actor.
StopEndsReader == (stage = "stopped") ~> (rpc \in {"off", "done"} \/ apc = "blocked")

\* After Stop of multicast and of the core every goroutine of theirs that listens or
\* reads ends, see StopEndsLoops for the exception.
StopEndsAll == StopEndsLoops /\ StopEndsReader

\* Announcements go on as long as the module runs, unless AnnounceNow has blocked
\* the actor: no order of timers, calls and beacons loses the timer.
AnnouncesOn == running ~> (apc \in {"announce", "blocked"} \/ ~running)

\* PROJECT_GUIDE.md: "Multicast discovery periodically examines matching, active,
\* multicast-capable interfaces", as long as the module runs.
PeriodicallyExamines == []<>(apc = "announce" \/ ~running)

\* configuration-reference.md, of the rules: "first matching rule wins".
FirstRuleWins ==
    \A i \in Ifaces : ifaces[i] # None =>
        \A r \in 1..(ifaces[i].rule - 1) : i \notin Rules[r].match
=============================================================================
