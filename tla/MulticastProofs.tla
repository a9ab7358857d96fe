-------------------------- MODULE MulticastProofs --------------------------
(***************************************************************************)
(* Proofs about Multicast and the listeners under it, for any interfaces,  *)
(* addresses, rules, beacons and listeners.                                *)
(***************************************************************************)
EXTENDS Multicast, SequenceTheorems, FiniteSetTheorems, TLAPS

Messages == {"announce", "stop", "look"} \cup Callers

\* The place n of a box holds msg.
At(box, n, msg) == n \in 1 .. Len(box) /\ box[n] = msg

\* What the variables of this module hold; functions are functions.
Types ==
    /\ stage \in {"core", "up", "stopping", "stopped"}
    /\ running \in BOOLEAN /\ sock \in BOOLEAN /\ now \in SUBSET Callers
    /\ ifaces \in [Ifaces -> Infos \cup {None}]
    /\ tracked \in [Ifaces -> Local \cup {None}]
    /\ laddr \in [Local -> Addrs \cup {None}]
    /\ timer \in {"none", "armed", "spent"}
    /\ inbox \in Seq(Messages)
    /\ apc \in {"idle", "announce", "blocked"}
    /\ todo \in SUBSET Ifaces
    /\ rpc \in {"off", "read", "look", "call", "done"}
    /\ adv \in Beacons \cup {None}

\* A listen() is under way only before multicast starts or inside an announcement;
\* a loop that runs has an entry, one that has ended has no socket.
ListenInv ==
    \A s \in Listeners :
        /\ lpc[s] = "bound" =>
              stage = "core" \/ \E i \in Ifaces, t \in Local : binding = <<i, t>> /\ t = s
        /\ lpc[s] \in {"accepting", "exiting"} => s \in listeners
        /\ lpc[s] = "idle" => s \notin lsock
        /\ s \in Local => lpc[s] # "leaked"

\* Announcements run between Start and Stop of the module, and Core.Stop comes last.
StageInv ==
    /\ apc = "announce" => running
    /\ running => stage \in {"up", "stopping"}
    /\ stage = "core" => inbox = <<>> /\ timer = "none" /\ rpc = "off"
    /\ binding # None => apc = "announce"
    /\ node # "running" => stage = "stopped"

\* The listener that is being made, the ones that are tracked, and their addresses.
TrackInv ==
    /\ binding # None => \E i \in Ifaces, s \in Local :
          binding = <<i, s>> /\ tracked[i] = None /\ laddr[s] \in Addrs
    /\ \A i \in Ifaces : tracked[i] # None => laddr[tracked[i]] \in Addrs
    /\ \A s \in Local \cap lsock :
          (\E i \in Ifaces : tracked[i] = s) \/ (\E i \in Ifaces : binding = <<i, s>>)
    /\ apc # "announce" => \A i \in Ifaces : ~Stale(i)

\* One announcement, and before the first one ends it is ahead of any caller of
\* AnnounceNow.
AnnounceInv ==
    running =>
        /\ \A n, m \in Nat : At(inbox, n, "announce") /\ At(inbox, m, "announce") => n = m
        /\ timer = "armed" \/ apc = "announce" => \A n \in Nat : ~At(inbox, n, "announce")
        /\ ~(timer = "armed" /\ apc = "announce")
        /\ timer = "none" /\ apc # "announce" =>
              \E n \in Nat : /\ At(inbox, n, "announce")
                             /\ \A m \in Nat, c \in Callers : At(inbox, m, c) => n < m

\* Who waits in phony.Block, by the message that is in the inbox for it.
Waiters == Callers \cup {"look", "stop"}
Waits(x) ==
    x \in now \/ (x = "look" /\ rpc = "look") \/ (x = "stop" /\ stage = "stopping")

\* Whoever waits has its message in the inbox, once.
Queued == \A x \in Waiters : Waits(x) => \E n \in Nat : At(inbox, n, x)
QueueInv ==
    /\ Queued
    /\ \A x \in Waiters, n \in Nat : At(inbox, n, x) => Waits(x)
    /\ \A x \in Waiters, n, m \in Nat : At(inbox, n, x) /\ At(inbox, m, x) => n = m

IndInv ==
    /\ TypeOK /\ Types /\ ListenInv /\ StageInv /\ TrackInv /\ AnnounceInv /\ QueueInv
    /\ ShutdownClosesAll

\* None stands for no listen() under way.
LEMMA NoneIsNoPair == \A i \in Ifaces, s \in Local : <<i, s>> # None
BY LocalAssumption

\* The initial state satisfies the invariant.
LEMMA InitInv == MInit => IndInv
<1> SUFFICES ASSUME MInit PROVE IndInv
  OBVIOUS
<1> USE DEF MInit, Init
<1>1. TypeOK
  BY DEF TypeOK
<1>2. Types
  BY EmptySeq DEF Types
<1>3. ListenInv
  BY DEF ListenInv
<1>4. StageInv
  BY DEF StageInv
<1>5. TrackInv
  BY DEF TrackInv, Stale
<1>6. AnnounceInv /\ QueueInv
  <2>1. \A n \in Nat, msg \in Messages : ~At(inbox, n, msg)
    BY EmptySeq DEF At
  <2> QED BY <2>1 DEF AnnounceInv, QueueInv, Queued, Waits, Waiters, Messages
<1>8. ShutdownClosesAll
  BY DEF ShutdownClosesAll
<1> QED BY <1>1, <1>2, <1>3, <1>4, <1>5, <1>6, <1>8 DEF IndInv

----------------------------------------------------------------------------
(* What leaves a part of the invariant alone.                              *)

\* Steps that touch no listener.
LEMMA ListenersFrame ==
    ASSUME TypeOK, ShutdownClosesAll, UNCHANGED lvars
    PROVE  TypeOK' /\ ShutdownClosesAll'
BY DEF TypeOK, ShutdownClosesAll, lvars

\* Steps that leave listeners, stage and ListenLocal as they are.
LEMMA ListenFrame ==
    ASSUME ListenInv, UNCHANGED <<lpc, lsock, listeners, stage, binding>>
    PROVE  ListenInv'
BY DEF ListenInv

\* Steps outside an announcement that leave open sockets and interfaces as they are.
LEMMA TrackFrame ==
    ASSUME TrackInv, UNCHANGED <<binding, tracked, laddr, lsock, apc, ifaces>>
    PROVE  TrackInv'
BY DEF TrackInv, Stale, AddrsOf

\* Steps without a message, a timer or an announcement.
LEMMA AnnounceFrame ==
    ASSUME AnnounceInv, UNCHANGED <<inbox, timer, apc, running>>
    PROVE  AnnounceInv'
BY DEF AnnounceInv

\* Steps without a message, after which the same goroutines wait.
LEMMA QueueFrame ==
    ASSUME QueueInv, inbox' = inbox, \A x \in Waiters : Waits(x)' <=> Waits(x)
    PROVE  QueueInv'
BY DEF QueueInv, Queued

----------------------------------------------------------------------------
(* The inbox.                                                              *)

\* A message is appended.
LEMMA AppendAt ==
    ASSUME NEW box \in Seq(Messages), NEW msg \in Messages
    PROVE  /\ Append(box, msg) \in Seq(Messages)
           /\ Len(box) \in Nat
           /\ \A n \in Nat, x \in Messages :
                 At(Append(box, msg), n, x) <=> At(box, n, x) \/ (n = Len(box) + 1 /\ x = msg)
           /\ \A n \in Nat, x \in Messages : At(box, n, x) => n <= Len(box)
<1>1. /\ Append(box, msg) \in Seq(Messages)
      /\ Len(Append(box, msg)) = Len(box) + 1
      /\ \A i \in 1 .. Len(box) : Append(box, msg)[i] = box[i]
      /\ Append(box, msg)[Len(box) + 1] = msg
  BY AppendProperties
<1>2. Len(box) \in Nat
  OBVIOUS
<1> QED BY <1>1, <1>2 DEF At

\* The first message is taken.
LEMMA TailAt ==
    ASSUME NEW box \in Seq(Messages), box # <<>>
    PROVE  /\ Tail(box) \in Seq(Messages)
           /\ Len(box) \in Nat /\ Len(Tail(box)) + 1 = Len(box)
           /\ At(box, 1, Head(box)) /\ Head(box) \in Messages
           /\ \A n \in Nat, x \in Messages : At(Tail(box), n, x) <=> n # 0 /\ At(box, n + 1, x)
<1>1. /\ Head(box) \in Messages /\ Tail(box) \in Seq(Messages)
      /\ Len(Tail(box)) = Len(box) - 1
      /\ \A i \in 1 .. Len(Tail(box)) : Tail(box)[i] = box[i + 1]
  BY HeadTailProperties
<1>2. Len(box) \in Nat /\ Len(box) > 0 /\ Head(box) = box[1]
  BY EmptySeq
<1> QED BY <1>1, <1>2 DEF At

\* Waiters and messages.
LEMMA WaitersAreMessages ==
    Waiters \subseteq Messages /\ "announce" \notin Waiters
BY CallersAssumption DEF Waiters, Messages

\* A message is appended: whoever it is for begins to wait.
LEMMA QueueAppend ==
    ASSUME Types, QueueInv, NEW y \in Messages, inbox' = Append(inbox, y),
           \A x \in Waiters : x # y => (Waits(x)' <=> Waits(x)),
           y \in Waiters => ~Waits(y) /\ Waits(y)'
    PROVE  QueueInv' /\ inbox' \in Seq(Messages)
<1>1. /\ inbox' \in Seq(Messages) /\ Len(inbox) + 1 \in Nat
      /\ \A n \in Nat, x \in Messages :
            At(inbox', n, x) <=> At(inbox, n, x) \/ (n = Len(inbox) + 1 /\ x = y)
  BY AppendAt DEF Types
<1>2. ASSUME NEW x \in Waiters
      PROVE  /\ Waits(x)' => \E n \in Nat : At(inbox', n, x)
             /\ \A n \in Nat : At(inbox', n, x) => Waits(x)'
             /\ \A n, m \in Nat : At(inbox', n, x) /\ At(inbox', m, x) => n = m
  <2>1. x \in Messages
    BY WaitersAreMessages
  <2>2. CASE x = y
    <3>1. \A n \in Nat : ~At(inbox, n, x)
      BY <2>2 DEF QueueInv
    <3>2. \A n \in Nat : At(inbox', n, x) <=> n = Len(inbox) + 1
      BY <1>1, <2>1, <2>2, <3>1
    <3> QED BY <1>1, <2>2, <3>2
  <2>3. CASE x # y
    <3>1. \A n \in Nat : At(inbox', n, x) <=> At(inbox, n, x)
      BY <1>1, <2>1, <2>3
    <3> QED BY <2>3, <3>1 DEF QueueInv, Queued
  <2> QED BY <2>2, <2>3
<1> QED BY <1>1, <1>2 DEF QueueInv, Queued

\* The message h is taken: whoever it is for waits no longer.
LEMMA QueueShift ==
    ASSUME QueueInv, NEW h, At(inbox, 1, h),
           \A n \in Nat, x \in Waiters : At(inbox', n, x) <=> n # 0 /\ At(inbox, n + 1, x),
           \A x \in Waiters : x # h => (Waits(x)' <=> Waits(x)),
           h \in Waiters => ~Waits(h)'
    PROVE  QueueInv'
<1>1. ASSUME NEW x \in Waiters
      PROVE  /\ Waits(x)' => \E n \in Nat : At(inbox', n, x)
             /\ \A n \in Nat : At(inbox', n, x) => Waits(x)'
             /\ \A n, m \in Nat : At(inbox', n, x) /\ At(inbox', m, x) => n = m
  <2>1. CASE x = h
    <3>1. \A n \in Nat : n + 1 \in Nat /\ (n + 1 = 1 => n = 0)
      OBVIOUS
    <3>2. \A n \in Nat : ~At(inbox', n, x)
      BY <2>1, <3>1 DEF QueueInv
    <3> QED BY <2>1, <3>2
  <2>2. CASE x # h
    <3>1. Waits(x)' <=> Waits(x)
      BY <2>2
    <3>2. ASSUME Waits(x) PROVE \E n \in Nat : At(inbox', n, x)
      <4>1. PICK m \in Nat : At(inbox, m, x)
        BY <3>2 DEF QueueInv, Queued
      <4>2. m # 1 /\ m # 0
        BY <2>2, <4>1 DEF At
      <4>3. m - 1 \in Nat /\ m - 1 # 0 /\ (m - 1) + 1 = m
        BY <4>2
      <4> QED BY <4>1, <4>3
    <3>3. \A n, m \in Nat : n + 1 \in Nat /\ (n + 1 = m + 1 => n = m)
      OBVIOUS
    <3>4. \A n \in Nat : At(inbox', n, x) => Waits(x)
      BY <3>3 DEF QueueInv
    <3>5. \A n, m \in Nat : At(inbox', n, x) /\ At(inbox', m, x) => n = m
      BY <3>3 DEF QueueInv
    <3> QED BY <3>1, <3>2, <3>4, <3>5
  <2> QED BY <2>1, <2>2
<1> QED BY <1>1 DEF QueueInv, Queued

\* Another message than an announcement is appended.
LEMMA AnnounceAppend ==
    ASSUME Types, AnnounceInv, NEW y \in Messages, y # "announce", inbox' = Append(inbox, y),
           UNCHANGED <<timer, apc, running>>
    PROVE  AnnounceInv'
<1>1. /\ Len(inbox) \in Nat
      /\ \A n \in Nat, x \in Messages :
            At(inbox', n, x) <=> At(inbox, n, x) \/ (n = Len(inbox) + 1 /\ x = y)
      /\ \A n \in Nat, x \in Messages : At(inbox, n, x) => n <= Len(inbox)
  BY AppendAt DEF Types
<1>2. \A n \in Nat : At(inbox', n, "announce") <=> At(inbox, n, "announce")
  BY <1>1 DEF Messages
<1>3. \A n, m \in Nat, c \in Callers :
        At(inbox, n, "announce") /\ At(inbox', m, c) => At(inbox, m, c) \/ n < m
  <2> SUFFICES ASSUME NEW n \in Nat, NEW m \in Nat, NEW c \in Callers,
                      At(inbox, n, "announce"), At(inbox', m, c)
               PROVE  At(inbox, m, c) \/ n < m
    OBVIOUS
  <2>1. n <= Len(inbox) /\ (At(inbox, m, c) \/ m = Len(inbox) + 1)
    BY <1>1 DEF Messages
  <2> QED BY <1>1, <2>1
<1> QED BY <1>2, <1>3 DEF AnnounceInv

\* Another message than an announcement is taken.
LEMMA AnnounceTail ==
    ASSUME Types, AnnounceInv, inbox # <<>>, Head(inbox) # "announce", inbox' = Tail(inbox),
           UNCHANGED <<timer, apc, running>>
    PROVE  AnnounceInv'
<1>1. /\ At(inbox, 1, Head(inbox))
      /\ \A n \in Nat, x \in Messages : At(inbox', n, x) <=> n # 0 /\ At(inbox, n + 1, x)
  BY TailAt DEF Types
<1>2. \A n, m \in Nat : n + 1 \in Nat /\ (n + 1 = m + 1 => n = m) /\ (n + 1 < m + 1 => n < m)
  OBVIOUS
<1>3. \A n \in Nat : At(inbox', n, "announce") => At(inbox, n + 1, "announce")
  BY <1>1 DEF Messages
<1>4. \A m \in Nat, c \in Callers : At(inbox', m, c) => At(inbox, m + 1, c)
  BY <1>1 DEF Messages
<1>5. ASSUME NEW n \in Nat, At(inbox, n, "announce"),
             \A m \in Nat, c \in Callers : At(inbox, m, c) => n < m
      PROVE  \E k \in Nat : /\ At(inbox', k, "announce")
                            /\ \A m \in Nat, c \in Callers : At(inbox', m, c) => k < m
  <2>1. n # 0 /\ n # 1
    BY <1>1, <1>5 DEF At
  <2>2. n - 1 \in Nat /\ n - 1 # 0 /\ (n - 1) + 1 = n
    BY <2>1
  <2>3. At(inbox', n - 1, "announce")
    BY <1>1, <1>5, <2>2 DEF Messages
  <2>4. \A m \in Nat, c \in Callers : At(inbox', m, c) => n - 1 < m
    <3> SUFFICES ASSUME NEW m \in Nat, NEW c \in Callers, At(inbox', m, c) PROVE n - 1 < m
      OBVIOUS
    <3>1. n < m + 1
      BY <1>2, <1>4, <1>5
    <3> QED BY <2>2, <3>1
  <2> QED BY <2>2, <2>3, <2>4
<1> QED BY <1>2, <1>3, <1>5 DEF AnnounceInv

----------------------------------------------------------------------------
(* The steps.                                                              *)

\* Before multicast starts, a configured listener is made.
LEMMA ConfigListenInv ==
    ASSUME IndInv, ConfigListen
    PROVE  IndInv'
<1> USE DEF IndInv
<1>0. PICK s \in Listeners \ Local : Bind(s) \/ BadOption(s) \/ Register(s)
  BY DEF ConfigListen
<1>1. TypeOK' /\ ShutdownClosesAll'
  <2>1. TypeOK'
    BY <1>0 DEF TypeOK, Bind, BadOption, Register, Goto
  <2>2. node = "running"
    BY DEF ConfigListen, StageInv
  <2>3. ShutdownClosesAll'
    BY <1>0, <2>2 DEF ShutdownClosesAll, Bind, BadOption, Register
  <2> QED BY <2>1, <2>3
<1>2. Types'
  BY DEF Types, ConfigListen, actor, reader
<1>3. ListenInv'
  <2>1. stage' = "core"
    BY DEF ConfigListen
  <2>2. TypeOK
    OBVIOUS
  <2> QED BY <1>0, <2>1, <2>2 DEF ListenInv, Bind, BadOption, Register, Goto, TypeOK
<1>4. StageInv'
  BY <1>0 DEF StageInv, ConfigListen, Bind, BadOption, Register, actor, reader
<1>5. TrackInv'
  <2>1. Local \cap lsock' = Local \cap lsock
    BY <1>0 DEF Bind, BadOption, Register
  <2> QED BY <2>1 DEF TrackInv, Stale, AddrsOf, ConfigListen, actor
<1>6. AnnounceInv'
  BY AnnounceFrame DEF ConfigListen, actor, reader
<1>7. QueueInv'
  BY QueueFrame DEF Waits, ConfigListen, actor, reader
<1> QED BY <1>1, <1>2, <1>3, <1>4, <1>5, <1>6, <1>7

\* multicast.New.
LEMMA StartInv ==
    ASSUME IndInv, Start
    PROVE  IndInv'
<1> USE DEF IndInv
<1>a. \A n \in Nat, x \in Messages : ~At(inbox, n, x)
  BY EmptySeq DEF Start, StageInv, At
<1>b. /\ Len(inbox) + 1 \in Nat
      /\ \A n \in Nat, x \in Messages :
            At(inbox', n, x) => n = Len(inbox) + 1 /\ x = "announce"
      /\ running' => At(inbox', Len(inbox) + 1, "announce")
  <2>0. "announce" \in Messages /\ inbox \in Seq(Messages)
    BY DEF Types, Messages
  <2>1. CASE inbox' = Append(inbox, "announce")
    BY <1>a, <2>0, <2>1, AppendAt
  <2>2. CASE inbox' = inbox /\ running' = running
    BY <1>a, <2>0, <2>2 DEF Start, StageInv
  <2> QED BY <2>1, <2>2 DEF Start
<1>c. Waiters \subseteq Messages /\ "announce" \notin Waiters
  BY WaitersAreMessages
<1>1. TypeOK' /\ ShutdownClosesAll'
  BY ListenersFrame DEF Start
<1>2. Types'
  <2>1. inbox' \in Seq(Messages)
    BY AppendAt DEF Start, Types, Messages
  <2> QED BY <2>1 DEF Types, Start
<1>3. ListenInv'
  BY DEF ListenInv, Start, lvars
<1>4. StageInv'
  BY DEF StageInv, Start, lvars
<1>5. TrackInv'
  BY TrackFrame DEF Start, lvars
<1>6. AnnounceInv'
  <2>1. timer' = "none" /\ apc' # "announce"
    BY DEF Start, StageInv
  <2>2. \A m \in Nat, c \in Callers : ~At(inbox', m, c)
    BY <1>b, CallersAssumption DEF Messages
  <2>3. \A n \in Nat : At(inbox', n, "announce") => n = Len(inbox) + 1
    BY <1>b DEF Messages
  <2> QED BY <1>b, <2>1, <2>2, <2>3 DEF AnnounceInv
<1>7. QueueInv'
  <2>1. \A x \in Waiters, n \in Nat : ~At(inbox', n, x)
    BY <1>b, <1>c
  <2>2. \A x \in Waiters : ~Waits(x)
    BY <1>a, <1>c DEF QueueInv, Queued
  <2>3. now' = now /\ rpc' # "look" /\ stage' # "stopping"
    BY DEF Start, StageInv
  <2>4. \A x \in Waiters : ~Waits(x)'
    BY <2>2, <2>3 DEF Waits
  <2> QED BY <2>1, <2>4 DEF QueueInv, Queued
<1> QED BY <1>1, <1>2, <1>3, <1>4, <1>5, <1>6, <1>7

\* The program calls Stop.
LEMMA CallStopInv ==
    ASSUME IndInv, CallStop
    PROVE  IndInv'
<1> USE DEF IndInv
<1>1. TypeOK' /\ ShutdownClosesAll'
  BY ListenersFrame DEF CallStop, actor, reader
<1>2. Types'
  <2>1. inbox' \in Seq(Messages)
    BY AppendAt DEF CallStop, actor, reader, Types, Messages
  <2> QED BY <2>1 DEF Types, CallStop, actor, reader
<1>3. ListenInv'
  BY DEF ListenInv, CallStop, lvars, actor
<1>4. StageInv'
  BY DEF StageInv, CallStop, actor, reader, lvars
<1>5. TrackInv'
  BY TrackFrame DEF CallStop, actor, reader, lvars
<1>6. AnnounceInv'
  BY AnnounceAppend DEF CallStop, actor, Messages
<1>7. QueueInv'
  <2>1. "stop" \in Messages /\ "stop" \notin now /\ stage = "up" /\ stage' = "stopping"
    BY CallersAssumption DEF CallStop, Types, Messages
  <2>2. UNCHANGED <<now, rpc>> /\ inbox' = Append(inbox, "stop")
    BY DEF CallStop, reader
  <2> QED BY <2>1, <2>2, QueueAppend DEF Waits
<1> QED BY <1>1, <1>2, <1>3, <1>4, <1>5, <1>6, <1>7

\* AnnounceNow is called.
LEMMA CallNowInv ==
    ASSUME IndInv, NEW c \in Callers, CallNow(c)
    PROVE  IndInv'
<1> USE DEF IndInv
<1>1. TypeOK' /\ ShutdownClosesAll'
  BY ListenersFrame DEF CallNow, actor, reader
<1>2. Types'
  <2>1. inbox' \in Seq(Messages)
    BY AppendAt DEF CallNow, actor, reader, Types, Messages
  <2> QED BY <2>1 DEF Types, CallNow, actor, reader
<1>3. ListenInv'
  BY ListenFrame DEF CallNow, actor, reader, lvars
<1>4. StageInv'
  BY DEF StageInv, CallNow, actor, reader, lvars
<1>5. TrackInv'
  BY TrackFrame DEF CallNow, actor, reader, lvars
<1>6. AnnounceInv'
  BY CallersAssumption, AnnounceAppend DEF CallNow, actor, Messages
<1>7. QueueInv'
  <2>1. c \in Messages /\ c \notin {"look", "stop"} /\ c \notin now /\ now' = now \cup {c}
    BY CallersAssumption DEF CallNow, Messages
  <2>2. UNCHANGED <<stage, rpc>> /\ inbox' = Append(inbox, c)
    BY DEF CallNow, reader
  <2> QED BY <2>1, <2>2, QueueAppend DEF Waits
<1> QED BY <1>1, <1>2, <1>3, <1>4, <1>5, <1>6, <1>7

\* The timer fires.
LEMMA TimerFiresInv ==
    ASSUME IndInv, TimerFires
    PROVE  IndInv'
<1> USE DEF IndInv
<1>1. TypeOK' /\ ShutdownClosesAll'
  BY ListenersFrame DEF TimerFires, reader
<1>2. Types'
  <2>1. inbox' \in Seq(Messages)
    BY AppendAt DEF TimerFires, reader, Types, Messages
  <2> QED BY <2>1 DEF Types, TimerFires, reader
<1>3. ListenInv'
  BY ListenFrame DEF TimerFires, reader, lvars
<1>4. StageInv'
  BY DEF StageInv, TimerFires, reader, lvars
<1>5. TrackInv'
  BY TrackFrame DEF TimerFires, reader, lvars
<1>6. AnnounceInv'
  <2>0. "announce" \in Messages /\ inbox \in Seq(Messages) /\ inbox' = Append(inbox, "announce")
    BY DEF TimerFires, Types, Messages
  <2>1. \A n \in Nat :
          At(inbox', n, "announce") => At(inbox, n, "announce") \/ n = Len(inbox) + 1
    BY <2>0, AppendAt
  <2>2. running => \A n \in Nat : ~At(inbox, n, "announce")
    BY DEF TimerFires, AnnounceInv
  <2>3. timer = "armed" /\ timer' = "spent" /\ UNCHANGED <<apc, running>>
    BY DEF TimerFires
  <2> QED BY <2>1, <2>2, <2>3 DEF AnnounceInv
<1>7. QueueInv'
  <2>1. "announce" \in Messages
    BY DEF Messages
  <2>2. UNCHANGED <<stage, rpc, now>> /\ inbox' = Append(inbox, "announce")
    BY DEF TimerFires, reader
  <2> QED BY <2>1, <2>2, WaitersAreMessages, QueueAppend DEF Waits
<1> QED BY <1>1, <1>2, <1>3, <1>4, <1>5, <1>6, <1>7

\* Core.Stop begins.
LEMMA CancelCoreInv ==
    ASSUME IndInv, CancelCore
    PROVE  IndInv'
<1> USE DEF IndInv
<1>1. TypeOK' /\ ShutdownClosesAll'
  BY DEF TypeOK, ShutdownClosesAll, CancelCore
<1>2. Types'
  BY DEF Types, CancelCore, actor, reader
<1>3. ListenInv'
  BY ListenFrame DEF CancelCore, actor
<1>4. StageInv'
  BY DEF StageInv, CancelCore, actor, reader
<1>5. TrackInv'
  BY TrackFrame DEF CancelCore, actor
<1>6. AnnounceInv'
  BY AnnounceFrame DEF CancelCore, actor, reader
<1>7. QueueInv'
  BY QueueFrame DEF Waits, CancelCore, actor, reader
<1> QED BY <1>1, <1>2, <1>3, <1>4, <1>5, <1>6, <1>7

\* shutdown().
LEMMA ShutdownInv ==
    ASSUME IndInv, ShutdownCore
    PROVE  IndInv'
<1> USE DEF IndInv
<1>1. TypeOK' /\ ShutdownClosesAll'
  <2>1. TypeOK'
    BY DEF TypeOK, ShutdownCore, Shutdown
  <2>2. stage = "stopped" /\ binding = None
    BY DEF ShutdownCore, Shutdown, StageInv
  <2>3. \A s \in Listeners : lpc[s] # "bound"
    BY <2>2, NoneIsNoPair DEF ListenInv
  <2>4. ShutdownClosesAll'
    BY <2>3 DEF ShutdownClosesAll, ShutdownCore, Shutdown, ListenInv, TypeOK
  <2> QED BY <2>1, <2>4
<1>2. Types'
  BY DEF Types, ShutdownCore, Shutdown, actor, reader
<1>3. ListenInv'
  BY DEF ListenInv, ShutdownCore, Shutdown, actor
<1>4. StageInv'
  BY DEF StageInv, ShutdownCore, Shutdown, actor, reader
<1>5. TrackInv'
  BY DEF TrackInv, Stale, AddrsOf, ShutdownCore, Shutdown, actor
<1>6. AnnounceInv'
  BY AnnounceFrame DEF ShutdownCore, Shutdown, actor, reader
<1>7. QueueInv'
  BY QueueFrame DEF Waits, ShutdownCore, Shutdown, actor, reader
<1> QED BY <1>1, <1>2, <1>3, <1>4, <1>5, <1>6, <1>7

\* Accept fails, and an accept loop ends.
LEMMA AcceptLoopInv ==
    ASSUME IndInv, AcceptLoop
    PROVE  IndInv'
<1> USE DEF IndInv
<1>0. PICK s \in Listeners : AcceptError(s) \/ Exit(s)
  BY DEF AcceptLoop
<1> USE <1>0
<1>1. TypeOK' /\ ShutdownClosesAll'
  <2>1. TypeOK'
    BY DEF TypeOK, AcceptError, Exit, Goto
  <2>2. ShutdownClosesAll'
    BY DEF ShutdownClosesAll, AcceptError, Exit, Goto, TypeOK
  <2> QED BY <2>1, <2>2
<1>2. Types'
  BY DEF Types, AcceptLoop, actor, reader
<1>3. ListenInv'
  BY DEF ListenInv, AcceptLoop, AcceptError, Exit, Goto, TypeOK, actor
<1>4. StageInv'
  BY DEF StageInv, AcceptLoop, AcceptError, Exit, actor, reader
<1>5. TrackInv'
  BY DEF TrackInv, Stale, AddrsOf, AcceptLoop, AcceptError, Exit, actor
<1>6. AnnounceInv'
  BY AnnounceFrame DEF AcceptLoop, actor, reader
<1>7. QueueInv'
  BY QueueFrame DEF Waits, AcceptLoop, actor, reader
<1> QED BY <1>1, <1>2, <1>3, <1>4, <1>5, <1>6, <1>7

\* _stop().
LEMMA StopInv ==
    ASSUME IndInv, Stop
    PROVE  IndInv'
<1> USE DEF IndInv
<1>a. /\ apc = "idle" /\ inbox' = Tail(inbox) /\ inbox # <<>> /\ inbox \in Seq(Messages)
      /\ At(inbox, 1, "stop")
  BY TailAt DEF Stop, Take, Types
<1>b. /\ inbox' \in Seq(Messages)
      /\ \A n \in Nat, x \in Messages : At(inbox', n, x) <=> n # 0 /\ At(inbox, n + 1, x)
  BY <1>a, TailAt
<1>c. \A n \in Nat, x \in Waiters : At(inbox', n, x) <=> n # 0 /\ At(inbox, n + 1, x)
  BY <1>b, WaitersAreMessages
<1>e. stage # "core"
  BY <1>a DEF StageInv
<1>1. TypeOK' /\ ShutdownClosesAll'
  BY ListenersFrame DEF Stop, reader
<1>2. Types'
  BY <1>b DEF Types, Stop, reader
<1>3. ListenInv'
  BY <1>e DEF ListenInv, Stop, lvars
<1>4. StageInv'
  BY <1>a, <1>e DEF StageInv, Stop, reader, lvars
<1>5. TrackInv'
  BY TrackFrame DEF Stop, reader, lvars
<1>6. AnnounceInv'
  BY DEF AnnounceInv, Stop
<1>7. QueueInv'
  <2>1. stage' = "stopped" /\ UNCHANGED <<now, rpc>> /\ "stop" \notin now
    BY CallersAssumption DEF Stop, reader, Types
  <2> QED BY <1>a, <1>c, <2>1, QueueShift DEF Waits
<1> QED BY <1>1, <1>2, <1>3, <1>4, <1>5, <1>6, <1>7

\* An announcement finds the module stopped.
LEMMA AnnounceSkipInv ==
    ASSUME IndInv, AnnounceSkip
    PROVE  IndInv'
<1> USE DEF IndInv
<1>a. /\ apc = "idle" /\ inbox' = Tail(inbox) /\ inbox # <<>> /\ inbox \in Seq(Messages)
      /\ At(inbox, 1, "announce")
  BY TailAt DEF AnnounceSkip, Take, Types
<1>b. /\ inbox' \in Seq(Messages)
      /\ \A n \in Nat, x \in Messages : At(inbox', n, x) <=> n # 0 /\ At(inbox, n + 1, x)
  BY <1>a, TailAt
<1>c. \A n \in Nat, x \in Waiters : At(inbox', n, x) <=> n # 0 /\ At(inbox, n + 1, x)
  BY <1>b, WaitersAreMessages
<1>e. stage # "core"
  BY <1>a DEF StageInv
<1>1. TypeOK' /\ ShutdownClosesAll'
  BY ListenersFrame DEF AnnounceSkip, actor, reader
<1>2. Types'
  BY <1>b DEF Types, AnnounceSkip, actor, reader
<1>3. ListenInv'
  BY ListenFrame DEF AnnounceSkip, actor, reader, lvars
<1>4. StageInv'
  BY <1>a, <1>e DEF StageInv, AnnounceSkip, actor, reader, lvars
<1>5. TrackInv'
  BY TrackFrame DEF AnnounceSkip, actor, reader, lvars
<1>6. AnnounceInv'
  BY DEF AnnounceInv, AnnounceSkip, actor
<1>7. QueueInv'
  <2>1. UNCHANGED <<now, rpc, stage>>
    BY DEF AnnounceSkip, reader
  <2> QED BY <1>a, <1>c, <2>1, WaitersAreMessages, QueueShift DEF Waits
<1> QED BY <1>1, <1>2, <1>3, <1>4, <1>5, <1>6, <1>7

\* An announcement looks at the interfaces.
LEMMA AnnounceStartInv ==
    ASSUME IndInv, AnnounceStart
    PROVE  IndInv'
<1> USE DEF IndInv
<1>a. /\ apc = "idle" /\ inbox' = Tail(inbox) /\ inbox # <<>> /\ inbox \in Seq(Messages)
      /\ At(inbox, 1, "announce")
  BY TailAt DEF AnnounceStart, Take, Types
<1>b. /\ inbox' \in Seq(Messages)
      /\ \A n \in Nat, x \in Messages : At(inbox', n, x) <=> n # 0 /\ At(inbox, n + 1, x)
  BY <1>a, TailAt
<1>c. \A n \in Nat, x \in Waiters : At(inbox', n, x) <=> n # 0 /\ At(inbox, n + 1, x)
  BY <1>b, WaitersAreMessages
<1>e. stage # "core"
  BY <1>a DEF StageInv
<1>1. TypeOK' /\ ShutdownClosesAll'
  BY ListenersFrame DEF AnnounceStart, reader
<1>2. Types'
  BY <1>b DEF Types, AnnounceStart, Scan, reader
<1>3. ListenInv'
  BY ListenFrame DEF AnnounceStart, reader, lvars
<1>4. StageInv'
  BY <1>a, <1>e DEF StageInv, AnnounceStart, reader, lvars
<1>5. TrackInv'
  BY DEF TrackInv, AnnounceStart, lvars
<1>6. AnnounceInv'
  <2>0. running /\ running' = running /\ timer' = timer /\ apc' = "announce"
    BY DEF AnnounceStart
  <2>1. timer # "armed"
    BY <1>a, <2>0 DEF AnnounceInv
  <2>2. \A n \in Nat : ~At(inbox', n, "announce")
    <3> SUFFICES ASSUME NEW n \in Nat, At(inbox', n, "announce") PROVE FALSE
      OBVIOUS
    <3>1. n # 0 /\ At(inbox, n + 1, "announce")
      BY <1>b DEF Messages
    <3>2. n + 1 = 1
      BY <1>a, <2>0, <3>1 DEF AnnounceInv
    <3> QED BY <3>1, <3>2
  <2> QED BY <2>0, <2>1, <2>2 DEF AnnounceInv
<1>7. QueueInv'
  <2>1. UNCHANGED <<now, rpc, stage>>
    BY DEF AnnounceStart, reader
  <2> QED BY <1>a, <1>c, <2>1, WaitersAreMessages, QueueShift DEF Waits
<1> QED BY <1>1, <1>2, <1>3, <1>4, <1>5, <1>6, <1>7

\* The actor hands out the interfaces.
LEMMA LookStepInv ==
    ASSUME IndInv, Look
    PROVE  IndInv'
<1> USE DEF IndInv
<1>a. /\ apc = "idle" /\ inbox' = Tail(inbox) /\ inbox # <<>> /\ inbox \in Seq(Messages)
      /\ At(inbox, 1, "look")
  BY TailAt DEF Look, Take, Types
<1>b. /\ inbox' \in Seq(Messages)
      /\ \A n \in Nat, x \in Messages : At(inbox', n, x) <=> n # 0 /\ At(inbox, n + 1, x)
  BY <1>a, TailAt
<1>c. \A n \in Nat, x \in Waiters : At(inbox', n, x) <=> n # 0 /\ At(inbox, n + 1, x)
  BY <1>b, WaitersAreMessages
<1>e. stage # "core"
  BY <1>a DEF StageInv
<1>1. TypeOK' /\ ShutdownClosesAll'
  BY ListenersFrame DEF Look, actor
<1>2. Types'
  BY <1>b DEF Types, Look, Resume, actor
<1>3. ListenInv'
  BY ListenFrame DEF Look, actor, lvars
<1>4. StageInv'
  BY <1>a, <1>e DEF StageInv, Look, actor, lvars
<1>5. TrackInv'
  BY TrackFrame DEF Look, actor, lvars
<1>6. AnnounceInv'
  BY AnnounceTail DEF Look, Take, actor
<1>7. QueueInv'
  <2>1. UNCHANGED <<now, stage>> /\ "look" \notin now
    BY CallersAssumption DEF Look, Types
  <2>2. rpc' # "look"
    BY DEF Look, Resume
  <2>3. rpc = "look"
    BY <1>a, <2>1 DEF QueueInv, Waits, Waiters
  <2> QED BY <1>a, <1>c, <2>1, <2>2, <2>3, QueueShift DEF Waits
<1> QED BY <1>1, <1>2, <1>3, <1>4, <1>5, <1>6, <1>7

\* The body of AnnounceNow.
LEMMA NowInv ==
    ASSUME IndInv, NEW c \in Callers, Now(c)
    PROVE  IndInv'
<1> USE DEF IndInv
<1>a. apc = "idle" /\ inbox # <<>> /\ inbox \in Seq(Messages) /\ At(inbox, 1, c)
  BY TailAt DEF Now, Take, Types
<1>b. /\ Tail(inbox) \in Seq(Messages)
      /\ Len(Tail(inbox)) \in Nat
      /\ \A n \in Nat, x \in Messages : At(Tail(inbox), n, x) <=> n # 0 /\ At(inbox, n + 1, x)
  BY <1>a, TailAt, LenProperties
<1>c. CASE timer = "spent"
  <2>1. apc' = "blocked" /\ UNCHANGED <<inbox, now, timer>>
    BY <1>c DEF Now
  <2>2. /\ UNCHANGED <<lvars, running, sock, ifaces, tracked, laddr, todo, binding, reader, stage>>
        /\ UNCHANGED <<lpc, lsock, listeners, node, rpc, adv>>
    BY DEF Now, lvars, reader
  <2>3. TypeOK' /\ ShutdownClosesAll'
    BY <2>2, ListenersFrame
  <2>4. Types'
    BY <2>1, <2>2 DEF Types
  <2>5. ListenInv'
    BY <2>2, ListenFrame
  <2>6. StageInv'
    BY <1>a, <2>1, <2>2 DEF StageInv
  <2>7. TrackInv'
    BY <1>a, <2>1, <2>2 DEF TrackInv, Stale, AddrsOf
  <2>8. AnnounceInv'
    BY <1>a, <1>c, <2>1, <2>2 DEF AnnounceInv
  <2>9. QueueInv'
    BY <2>1, <2>2, QueueFrame DEF Waits
  <2> QED BY <2>3, <2>4, <2>5, <2>6, <2>7, <2>8, <2>9
<1> SUFFICES ASSUME timer # "spent" PROVE IndInv'
  BY <1>c
<1>d. /\ inbox' = Append(Tail(inbox), "announce") /\ now' = now \ {c}
      /\ timer' = (IF timer = "armed" THEN "spent" ELSE timer)
      /\ UNCHANGED <<apc, stage, running, sock, ifaces, tracked, laddr, todo, binding>>
      /\ UNCHANGED lvars /\ UNCHANGED <<lpc, lsock, listeners, node, rpc, adv>>
  BY DEF Now, lvars, reader
<1>e. /\ inbox' \in Seq(Messages)
      /\ \A n \in Nat, x \in Messages :
            At(inbox', n, x) <=> \/ n # 0 /\ At(inbox, n + 1, x)
                                 \/ n = Len(Tail(inbox)) + 1 /\ x = "announce"
  <2>1. "announce" \in Messages
    BY DEF Messages
  <2> QED BY <1>b, <1>d, <2>1, AppendAt
<1>f. timer \in {"none", "armed"}
  BY DEF Types
<1>g. running => timer = "armed" /\ \A n \in Nat : ~At(inbox, n, "announce")
  <2> SUFFICES ASSUME running PROVE timer = "armed" /\ \A n \in Nat : ~At(inbox, n, "announce")
    OBVIOUS
  <2>1. ASSUME timer = "none" PROVE FALSE
    <3>1. PICK n \in Nat : At(inbox, n, "announce") /\ n < 1
      BY <1>a, <2>1 DEF AnnounceInv
    <3> QED BY <3>1 DEF At
  <2> QED BY <1>f, <2>1 DEF AnnounceInv
<1>h. stage # "core"
  BY <1>a DEF StageInv
<1>1. TypeOK' /\ ShutdownClosesAll'
  BY <1>d, ListenersFrame
<1>2. Types'
  BY <1>d, <1>e, <1>f DEF Types
<1>3. ListenInv'
  BY <1>d, ListenFrame
<1>4. StageInv'
  BY <1>a, <1>d, <1>h DEF StageInv
<1>5. TrackInv'
  BY <1>d, TrackFrame
<1>6. AnnounceInv'
  <2> SUFFICES ASSUME running' PROVE AnnounceInv'
    BY DEF AnnounceInv
  <2>1. timer' = "spent" /\ apc' # "announce"
    BY <1>a, <1>d, <1>g
  <2>2. \A n \in Nat : n + 1 \in Nat
    OBVIOUS
  <2>3. \A n \in Nat : At(inbox', n, "announce") => n = Len(Tail(inbox)) + 1
    BY <1>d, <1>e, <1>g, <2>2 DEF Messages
  <2> QED BY <2>1, <2>3 DEF AnnounceInv
<1>7. QueueInv'
  <2>1. \A n \in Nat, x \in Waiters : At(inbox', n, x) <=> n # 0 /\ At(inbox, n + 1, x)
    BY <1>e, WaitersAreMessages
  <2>2. c \notin {"look", "stop"} /\ c \in Waiters
    BY CallersAssumption DEF Waiters
  <2> QED BY <1>a, <1>d, <2>1, <2>2, QueueShift DEF Waits
<1> QED BY <1>1, <1>2, <1>3, <1>4, <1>5, <1>6, <1>7

\* A stale listener is stopped.
LEMMA AnnounceCancelInv ==
    ASSUME IndInv, NEW i \in Ifaces, AnnounceCancel(i)
    PROVE  IndInv'
<1> USE DEF IndInv
<1>0. /\ lpc' = lpc /\ listeners' = listeners /\ node' = node /\ apc = "announce"
      /\ UNCHANGED <<running, sock, ifaces, laddr, timer, apc, todo, binding>>
      /\ UNCHANGED <<stage, inbox, now, rpc, adv>>
      /\ tracked[i] \in Local /\ tracked[i] \in Listeners
      /\ lsock' \in {lsock, lsock \ {tracked[i]}}
      /\ lpc[tracked[i]] # "idle" => lsock' = lsock \ {tracked[i]}
  BY LocalAssumption DEF AnnounceCancel, Cancel, Types, lvars, Stale, reader
<1>a. /\ tracked' = [tracked EXCEPT ![i] = None]
      /\ tracked \in [Ifaces -> Local \cup {None}]
  BY DEF AnnounceCancel, Types
<1>b. tracked[i] \notin lsock'
  BY <1>0 DEF ListenInv
<1>1. TypeOK' /\ ShutdownClosesAll'
  BY <1>0 DEF TypeOK, ShutdownClosesAll
<1>2. Types'
  BY <1>0, <1>a DEF Types
<1>3. ListenInv'
  BY <1>0 DEF ListenInv
<1>4. StageInv'
  BY <1>0 DEF StageInv
<1>5. TrackInv'
  <2>1. binding # None => \E j \in Ifaces, s \in Local :
          binding = <<j, s>> /\ tracked'[j] = None /\ laddr[s] \in Addrs
    BY <1>a DEF TrackInv
  <2>2. \A j \in Ifaces : tracked'[j] # None => laddr[tracked'[j]] \in Addrs
    BY <1>a DEF TrackInv
  <2>3. \A s \in Local \cap lsock' :
          (\E j \in Ifaces : tracked'[j] = s) \/ (\E j \in Ifaces : binding = <<j, s>>)
    BY <1>0, <1>a, <1>b DEF TrackInv
  <2> QED BY <1>0, <2>1, <2>2, <2>3 DEF TrackInv
<1>6. AnnounceInv'
  BY <1>0, AnnounceFrame
<1>7. QueueInv'
  BY <1>0, QueueFrame DEF Waits
<1> QED BY <1>1, <1>2, <1>3, <1>4, <1>5, <1>6, <1>7

\* An interface is done with.
LEMMA AnnounceNextInv ==
    ASSUME IndInv, NEW i \in Ifaces, AnnounceNext(i)
    PROVE  IndInv'
<1> USE DEF IndInv
<1>1. TypeOK' /\ ShutdownClosesAll'
  BY ListenersFrame DEF AnnounceNext, reader
<1>2. Types'
  BY DEF Types, AnnounceNext, reader
<1>3. ListenInv'
  BY ListenFrame DEF AnnounceNext, reader, lvars
<1>4. StageInv'
  BY DEF StageInv, AnnounceNext, reader, lvars
<1>5. TrackInv'
  BY TrackFrame DEF AnnounceNext, reader, lvars
<1>6. AnnounceInv'
  BY AnnounceFrame DEF AnnounceNext, reader
<1>7. QueueInv'
  BY QueueFrame DEF Waits, AnnounceNext, reader
<1> QED BY <1>1, <1>2, <1>3, <1>4, <1>5, <1>6, <1>7

\* ListenLocal opens a socket.
LEMMA AnnounceBindInv ==
    ASSUME IndInv, NEW i \in Ifaces, NEW s \in Local, AnnounceBind(i, s)
    PROVE  IndInv'
<1> USE DEF IndInv
<1>0. PICK a \in AddrsOf(i) : laddr' = [laddr EXCEPT ![s] = a]
  BY DEF AnnounceBind
<1>a. a \in Addrs
  BY <1>0 DEF AddrsOf, Types, Infos
<1>b. /\ binding = None /\ binding' = <<i, s>> /\ tracked[i] = None /\ apc = "announce"
      /\ \A j \in Ifaces : tracked[j] # s
      /\ UNCHANGED <<running, sock, ifaces, tracked, timer, apc, todo>>
      /\ UNCHANGED <<stage, inbox, now, rpc, adv>>
  BY DEF AnnounceBind, Ready, reader
<1>c. /\ s \in Listeners /\ lpc[s] = "idle" /\ lpc' = [lpc EXCEPT ![s] = "bound"]
      /\ node = "running" /\ lsock' = lsock \cup {s} /\ UNCHANGED <<listeners, node>>
  BY LocalAssumption DEF AnnounceBind, Ready, StageInv, Bind, Goto, TypeOK
<1>1. TypeOK' /\ ShutdownClosesAll'
  BY <1>c DEF TypeOK, ShutdownClosesAll
<1>2. Types'
  BY <1>0, <1>a, <1>b DEF Types
<1>3. ListenInv'
  <2>1. \A t \in Listeners : t # s => lpc'[t] = lpc[t] /\ (t \in lsock' <=> t \in lsock)
    BY <1>c DEF TypeOK
  <2>2. \A t \in Listeners : t # s /\ lpc[t] = "bound" => stage = "core"
    BY <1>b, NoneIsNoPair DEF ListenInv
  <2>3. lpc'[s] = "bound" /\ \E j \in Ifaces, t \in Local : binding' = <<j, t>> /\ t = s
    BY <1>b, <1>c DEF TypeOK
  <2> QED BY <1>b, <1>c, <2>1, <2>2, <2>3 DEF ListenInv
<1>4. StageInv'
  BY <1>b, <1>c DEF StageInv
<1>5. TrackInv'
  <2>1. laddr'[s] \in Addrs
    BY <1>0, <1>a DEF Types
  <2>2. \A j \in Ifaces : tracked[j] # None => laddr'[tracked[j]] = laddr[tracked[j]]
    BY <1>0, <1>b DEF Types
  <2>3. \A t \in Local \cap lsock' : t = s \/ \E j \in Ifaces : tracked[j] = t
    BY <1>b, <1>c, NoneIsNoPair DEF TrackInv
  <2> QED BY <1>b, <2>1, <2>2, <2>3 DEF TrackInv
<1>6. AnnounceInv'
  BY <1>b, AnnounceFrame
<1>7. QueueInv'
  BY <1>b, QueueFrame DEF Waits
<1> QED BY <1>1, <1>2, <1>3, <1>4, <1>5, <1>6, <1>7

\* ListenLocal returns.
LEMMA AnnounceRegisterInv ==
    ASSUME IndInv, AnnounceRegister
    PROVE  IndInv'
<1> USE DEF IndInv
<1>0. PICK i \in Ifaces, s \in Local :
        binding = <<i, s>> /\ tracked[i] = None /\ laddr[s] \in Addrs
  BY DEF AnnounceRegister, TrackInv
<1>a. binding[1] = i /\ binding[2] = s
  BY <1>0
<1>b. /\ Register(s) /\ tracked' = [tracked EXCEPT ![i] = s] /\ todo' = todo \ {i}
      /\ binding' = None
      /\ UNCHANGED <<running, sock, ifaces, laddr, timer, apc, stage, inbox, now, rpc, adv>>
  BY <1>a DEF AnnounceRegister, reader
<1>c. /\ s \in Listeners /\ lpc[s] = "bound" /\ lpc' = [lpc EXCEPT ![s] = "accepting"]
      /\ listeners' = listeners \cup {s} /\ UNCHANGED <<lsock, node>>
  BY <1>b, LocalAssumption DEF Register, Goto
<1>d. apc = "announce" /\ stage # "core"
  BY DEF AnnounceRegister, StageInv
<1>1. TypeOK' /\ ShutdownClosesAll'
  BY <1>c DEF TypeOK, ShutdownClosesAll
<1>2. Types'
  BY <1>0, <1>b DEF Types
<1>3. ListenInv'
  <2>1. \A t \in Listeners : t # s => lpc'[t] = lpc[t] /\ (t \in listeners' <=> t \in listeners)
    BY <1>c DEF TypeOK
  <2>2. \A t \in Listeners : t # s => lpc[t] # "bound"
    BY <1>0, <1>d DEF ListenInv
  <2>3. lpc'[s] = "accepting" /\ s \in listeners'
    BY <1>c DEF TypeOK
  <2> QED BY <1>b, <1>c, <2>1, <2>2, <2>3 DEF ListenInv
<1>4. StageInv'
  BY <1>b, <1>c DEF StageInv
<1>5. TrackInv'
  <2>1. tracked'[i] = s /\ \A j \in Ifaces : j # i => tracked'[j] = tracked[j]
    BY <1>b DEF Types
  <2>2. \A j \in Ifaces : tracked'[j] # None => laddr[tracked'[j]] \in Addrs
    BY <1>0, <2>1 DEF TrackInv
  <2>3. \A t \in Local \cap lsock : \E j \in Ifaces : tracked'[j] = t
    <3> SUFFICES ASSUME NEW t \in Local \cap lsock PROVE \E j \in Ifaces : tracked'[j] = t
      OBVIOUS
    <3>1. CASE \E j \in Ifaces : binding = <<j, t>>
      BY <1>0, <2>1, <3>1
    <3>2. CASE \E j \in Ifaces : tracked[j] = t
      BY <1>0, <2>1, <3>2, LocalAssumption
    <3> QED BY <3>1, <3>2 DEF TrackInv
  <2> QED BY <1>b, <1>c, <1>d, <2>2, <2>3 DEF TrackInv
<1>6. AnnounceInv'
  BY <1>b, AnnounceFrame
<1>7. QueueInv'
  BY <1>b, QueueFrame DEF Waits
<1> QED BY <1>1, <1>2, <1>3, <1>4, <1>5, <1>6, <1>7

\* The announcement ends and starts the timer.
LEMMA AnnounceDoneInv ==
    ASSUME IndInv, AnnounceDone
    PROVE  IndInv'
<1> USE DEF IndInv
<1>0. stage # "core" /\ apc = "announce" /\ binding = None
  BY DEF AnnounceDone, Ready, StageInv
<1>1. TypeOK' /\ ShutdownClosesAll'
  BY ListenersFrame DEF AnnounceDone, reader
<1>2. Types'
  BY DEF Types, AnnounceDone, reader
<1>3. ListenInv'
  BY ListenFrame DEF AnnounceDone, reader, lvars
<1>4. StageInv'
  BY <1>0 DEF StageInv, AnnounceDone, lvars, reader
<1>5. TrackInv'
  BY DEF TrackInv, AnnounceDone, Ready, Stale, AddrsOf, lvars
<1>6. AnnounceInv'
  <2>1. running /\ running' = running /\ inbox' = inbox /\ apc' = "idle" /\ timer' = "armed"
    BY <1>0 DEF AnnounceDone, StageInv
  <2> QED BY <1>0, <2>1 DEF AnnounceInv
<1>7. QueueInv'
  BY QueueFrame DEF Waits, AnnounceDone, reader
<1> QED BY <1>1, <1>2, <1>3, <1>4, <1>5, <1>6, <1>7

\* ReadFrom fails.
LEMMA ReadErrorInv ==
    ASSUME IndInv, ReadError
    PROVE  IndInv'
<1> USE DEF IndInv
<1>1. TypeOK' /\ ShutdownClosesAll'
  BY ListenersFrame DEF ReadError, actor
<1>2. Types'
  BY DEF Types, ReadError, Resume, actor
<1>3. ListenInv'
  BY ListenFrame DEF ReadError, actor, lvars
<1>4. StageInv'
  BY DEF StageInv, ReadError, Resume, lvars, actor
<1>5. TrackInv'
  BY TrackFrame DEF ReadError, actor, lvars
<1>6. AnnounceInv'
  BY AnnounceFrame DEF ReadError, actor
<1>7. QueueInv'
  <2>1. rpc # "look" /\ rpc' # "look" /\ UNCHANGED <<inbox, now, stage>>
    BY DEF ReadError, Resume
  <2> QED BY <2>1, QueueFrame DEF Waits
<1> QED BY <1>1, <1>2, <1>3, <1>4, <1>5, <1>6, <1>7

\* CallPeer returns.
LEMMA CallPeerInv ==
    ASSUME IndInv, CallPeer
    PROVE  IndInv'
<1> USE DEF IndInv
<1>1. TypeOK' /\ ShutdownClosesAll'
  BY ListenersFrame DEF CallPeer, actor
<1>2. Types'
  BY DEF Types, CallPeer, Resume, actor
<1>3. ListenInv'
  BY ListenFrame DEF CallPeer, actor, lvars
<1>4. StageInv'
  BY DEF StageInv, CallPeer, Resume, lvars, actor
<1>5. TrackInv'
  BY TrackFrame DEF CallPeer, actor, lvars
<1>6. AnnounceInv'
  BY AnnounceFrame DEF CallPeer, actor
<1>7. QueueInv'
  <2>1. rpc # "look" /\ rpc' # "look" /\ UNCHANGED <<inbox, now, stage>>
    BY DEF CallPeer, Resume
  <2> QED BY <2>1, QueueFrame DEF Waits
<1> QED BY <1>1, <1>2, <1>3, <1>4, <1>5, <1>6, <1>7

\* A beacon arrives.
LEMMA ReadBeaconInv ==
    ASSUME IndInv, NEW b \in Beacons, ReadBeacon(b)
    PROVE  IndInv'
<1> USE DEF IndInv
<1>0. /\ rpc = "read"
      /\ UNCHANGED <<lpc, lsock, listeners, node, running, sock, ifaces, tracked>>
      /\ UNCHANGED <<laddr, timer, apc, todo, binding, stage, now>> /\ UNCHANGED lvars
      /\ \/ inbox' = Append(inbox, "look") /\ rpc' = "look" /\ adv' = b
         \/ inbox' = inbox /\ rpc' \in {"read", "done"} /\ adv' = adv
  BY DEF ReadBeacon, Resume, lvars, actor
<1>a. QueueInv' /\ AnnounceInv' /\ inbox' \in Seq(Messages)
  <2>0. "look" \in Messages /\ "look" \notin now /\ inbox \in Seq(Messages)
    BY CallersAssumption DEF Types, Messages
  <2>1. CASE inbox' = Append(inbox, "look") /\ rpc' = "look"
    <3>1. QueueInv' /\ inbox' \in Seq(Messages)
      BY <1>0, <2>0, <2>1, QueueAppend DEF Waits
    <3>2. AnnounceInv'
      BY <1>0, <2>0, <2>1, AnnounceAppend
    <3> QED BY <3>1, <3>2
  <2>2. CASE inbox' = inbox /\ rpc' \in {"read", "done"}
    <3>1. QueueInv'
      BY <1>0, <2>2, QueueFrame DEF Waits
    <3>2. AnnounceInv'
      BY <1>0, <2>2, AnnounceFrame
    <3> QED BY <2>0, <2>2, <3>1, <3>2
  <2> QED BY <1>0, <2>1, <2>2
<1>b. stage # "core"
  BY <1>0 DEF StageInv
<1>1. TypeOK' /\ ShutdownClosesAll'
  BY <1>0, ListenersFrame
<1>2. Types'
  BY <1>0, <1>a DEF Types
<1>3. ListenInv'
  BY <1>0, ListenFrame
<1>4. StageInv'
  BY <1>0, <1>b DEF StageInv
<1>5. TrackInv'
  BY <1>0, TrackFrame
<1>6. AnnounceInv'
  BY <1>a
<1>7. QueueInv'
  BY <1>a
<1> QED BY <1>1, <1>2, <1>3, <1>4, <1>5, <1>6, <1>7

\* Nothing happens.
LEMMA StutterInv == ASSUME IndInv, UNCHANGED mvars PROVE IndInv'
<1>1. /\ UNCHANGED lvars /\ UNCHANGED <<lpc, lsock, listeners, node>>
      /\ UNCHANGED <<running, sock, ifaces, tracked, laddr, timer, apc, todo, binding>>
      /\ UNCHANGED <<rpc, adv, stage, inbox, now>>
  BY DEF mvars, lvars, actor, reader
<1>2. TypeOK' /\ ShutdownClosesAll'
  BY <1>1, ListenersFrame DEF IndInv
<1>3. Types'
  BY <1>1 DEF IndInv, Types
<1>4. ListenInv'
  BY <1>1, ListenFrame DEF IndInv
<1>5. StageInv'
  BY <1>1 DEF IndInv, StageInv
<1>6. TrackInv'
  BY <1>1, TrackFrame DEF IndInv
<1>7. AnnounceInv'
  BY <1>1, AnnounceFrame DEF IndInv
<1>8. QueueInv'
  BY <1>1, QueueFrame DEF IndInv, Waits
<1> QED BY <1>2, <1>3, <1>4, <1>5, <1>6, <1>7, <1>8 DEF IndInv

\* Every step keeps the invariant.
LEMMA NextInv == IndInv /\ [MNext]_mvars => IndInv'
<1> SUFFICES ASSUME IndInv, [MNext]_mvars PROVE IndInv'
  OBVIOUS
<1>1. CASE UNCHANGED mvars
  BY <1>1, StutterInv
<1>2. CASE ConfigListen
  BY <1>2, ConfigListenInv
<1>3. CASE Start
  BY <1>3, StartInv
<1>4. CASE CallStop
  BY <1>4, CallStopInv
<1>5. CASE CancelCore
  BY <1>5, CancelCoreInv
<1>6. CASE ShutdownCore
  BY <1>6, ShutdownInv
<1>7. CASE AcceptLoop
  BY <1>7, AcceptLoopInv
<1>8. CASE \E c \in Callers : CallNow(c)
  BY <1>8, CallNowInv
<1>9. CASE TimerFires
  BY <1>9, TimerFiresInv
<1>10. CASE Actor
  BY <1>10, NowInv, StopInv, AnnounceSkipInv, AnnounceStartInv, AnnounceRegisterInv,
     AnnounceDoneInv, LookStepInv, AnnounceCancelInv, AnnounceNextInv, AnnounceBindInv
  DEF Actor
<1>11. CASE Reader
  BY <1>11, ReadErrorInv, CallPeerInv, ReadBeaconInv DEF Reader
<1> QED BY <1>1, <1>2, <1>3, <1>4, <1>5, <1>6, <1>7, <1>8, <1>9, <1>10, <1>11 DEF MNext

----------------------------------------------------------------------------
(* The theorems.                                                           *)

\* The strengthened invariant holds in every state of multicast.go.
THEOREM Inductive == MSpec => []IndInv
BY InitInv, NextInv, PTL DEF MSpec

\* The fields of the Multicast actor keep their types, and a tracked listener has an
\* address (_listeners).
THEOREM TypeCorrect == MSpec => []MTypeOK
<1>1. IndInv => MTypeOK
  <2> SUFFICES ASSUME IndInv PROVE MTypeOK
    OBVIOUS
  <2>1. \A n \in 1 .. Len(inbox) : inbox[n] \in Messages
    BY DEF IndInv, Types
  <2>2. \A i \in Ifaces : tracked[i] # None => tracked[i] \in Local /\ laddr[tracked[i]] \in Addrs
    BY DEF IndInv, Types, TrackInv
  <2>3. \A i \in Ifaces : ifaces[i] # None => ifaces[i] \in Infos
    BY DEF IndInv, Types
  <2> QED BY <2>1, <2>2, <2>3 DEF IndInv, Types, MTypeOK, Messages
<1> QED BY <1>1, Inductive, PTL

\* However many interfaces, timers and callers of AnnounceNow there are, at most one
\* announcement of a running module is on its way.
THEOREM OnlyOneAnnouncement == MSpec => []OneAnnouncement
<1>1. IndInv => OneAnnouncement
  <2> SUFFICES ASSUME IndInv, running PROVE OneAnnouncement
    BY DEF OneAnnouncement
  <2> DEFINE S == {n \in 1 .. Len(inbox) : inbox[n] = "announce"}
  <2>1. Len(inbox) \in Nat
    BY DEF IndInv, Types
  <2>2. \A n \in S : n \in Nat /\ At(inbox, n, "announce")
    BY <2>1 DEF At
  <2>3. \A n, m \in S : n = m
    BY <2>2 DEF IndInv, AnnounceInv
  <2>4. CASE S = {}
    <3>1. Cardinality(S) = 0
      BY <2>4, FS_EmptySet
    <3> QED BY <3>1 DEF OneAnnouncement, IndInv, AnnounceInv
  <2>5. CASE S # {}
    <3>1. PICK x \in S : S = {x}
      BY <2>3, <2>5
    <3>2. Cardinality(S) = 1
      BY <3>1, FS_Singleton
    <3>3. timer # "armed" /\ apc # "announce"
      BY <2>2, <3>1 DEF IndInv, AnnounceInv
    <3> QED BY <3>2, <3>3 DEF OneAnnouncement
  <2> QED BY <2>4, <2>5
<1> QED BY <1>1, Inductive, PTL

\* Between announcements every open listener of multicast is tracked at an address
\* that its interface has.
THEOREM NoListenerIsStale == MSpec => []NoStaleListener
<1>1. IndInv => NoStaleListener
  <2> SUFFICES ASSUME IndInv, apc # "announce", NEW s \in Local \cap lsock
               PROVE  \E i \in Ifaces : tracked[i] = s /\ laddr[s] \in AddrsOf(i)
    BY DEF NoStaleListener
  <2>1. binding = None
    BY DEF IndInv, StageInv
  <2>2. PICK i \in Ifaces : tracked[i] = s
    BY <2>1, NoneIsNoPair DEF IndInv, TrackInv
  <2>3. tracked[i] # None
    BY <2>2, LocalAssumption
  <2> QED BY <2>2, <2>3 DEF IndInv, TrackInv, Stale
<1> QED BY <1>1, Inductive, PTL

\* Whoever waits in phony.Block, the reader of beacons, the program in Stop or a caller
\* of AnnounceNow, has its message in the inbox of the actor: none is lost.
THEOREM WaitersAreQueued == MSpec => []Queued
<1>1. IndInv => Queued
  BY DEF IndInv, QueueInv
<1> QED BY <1>1, Inductive, PTL

\* shutdown() closes every listener that listen() returned, to the configuration or
\* to multicast.
THEOREM ListenersAreClosed == MSpec => []ShutdownClosesAll
<1>1. IndInv => ShutdownClosesAll
  BY DEF IndInv
<1> QED BY <1>1, Inductive, PTL

\* Multicast and the programs around it use listen(), Cancel and Core.Stop as module
\* Listeners assumes: no listen() is under way when Core.Stop begins.
THEOREM ListenersUsedInOrder == MSpec => StopsInOrder
<1>1. MInit => Init
  BY DEF MInit
<1>2. ASSUME IndInv, [MNext]_mvars PROVE [Next]_vars
  <2> USE DEF vars
  <2>0. UNCHANGED lvars => UNCHANGED vars
    BY DEF lvars
  <2>1. CASE ConfigListen
    <3>1. ~CoreDone
      BY <1>2, <2>1 DEF ConfigListen, IndInv, StageInv, CoreDone
    <3> QED BY <2>1, <3>1 DEF ConfigListen, Next
  <2>2. CASE CancelCore
    <3>1. binding = None /\ stage # "core"
      BY <2>2, <1>2 DEF CancelCore, IndInv, StageInv
    <3>2. \A s \in Listeners : lpc[s] # "bound"
      BY <1>2, <3>1, NoneIsNoPair DEF IndInv, ListenInv
    <3> QED BY <2>2, <3>2 DEF CancelCore, StopCancel, Next
  <2>3. CASE ShutdownCore
    BY <2>3 DEF ShutdownCore, Next
  <2>4. CASE AcceptLoop
    BY <2>4 DEF AcceptLoop, Next
  <2>5. ASSUME NEW i \in Ifaces, AnnounceCancel(i) PROVE [Next]_vars
    <3>1. tracked[i] \in Listeners
      BY <1>2, <2>5, LocalAssumption DEF AnnounceCancel, Stale, IndInv, Types
    <3> QED BY <2>0, <2>5, <3>1 DEF AnnounceCancel, Next
  <2>6. ASSUME NEW i \in Ifaces, NEW s \in Local, AnnounceBind(i, s) PROVE [Next]_vars
    <3>1. ~CoreDone
      BY <1>2, <2>6 DEF AnnounceBind, Ready, IndInv, StageInv, CoreDone
    <3> QED BY <2>6, <3>1, LocalAssumption DEF AnnounceBind, Next
  <2>7. CASE AnnounceRegister
    <3>1. binding[2] \in Listeners
      BY <1>2, <2>7, LocalAssumption DEF AnnounceRegister, IndInv, TrackInv
    <3> QED BY <2>7, <3>1 DEF AnnounceRegister, Next
  <2>8. CASE Start \/ CallStop \/ TimerFires \/ Stop \/ AnnounceSkip
               \/ \E c \in Callers : CallNow(c) \/ Now(c)
    BY <2>0, <2>8 DEF Start, CallStop, CallNow, TimerFires, Now, Stop, AnnounceSkip
  <2>9. CASE AnnounceStart \/ AnnounceDone \/ Look \/ \E i \in Ifaces : AnnounceNext(i)
    BY <2>0, <2>9 DEF AnnounceStart, AnnounceDone, Look, AnnounceNext
  <2>10. CASE Reader
    BY <2>0, <2>10 DEF Reader, ReadError, CallPeer, ReadBeacon
  <2>11. CASE UNCHANGED mvars
    BY <2>0, <2>11 DEF mvars
  <2> QED BY <1>2, <2>1, <2>2, <2>3, <2>4, <2>5, <2>6, <2>7, <2>8, <2>9, <2>10, <2>11
        DEF MNext, Actor
<1> QED BY <1>1, <1>2, Inductive, PTL DEF MSpec, StopsInOrder, Spec
=============================================================================
