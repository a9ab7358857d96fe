-------------------------------- MODULE Tun --------------------------------
(***************************************************************************)
(* The TUN adapter: src/src/tun/tun.go and the goroutines of iface.go.     *)
(* queue() takes packets from the core and puts them on a channel, write() *)
(* takes what is there in batches and writes it to the interface, read()   *)
(* goes the other way.  Buffers come from a pool and go back to it while   *)
(* the other goroutine may be about to take them.                          *)
(*                                                                         *)
(* Packets are numbered in the order in which the core hands them out.     *)
(***************************************************************************)
EXTENDS Integers, Sequences, FiniteSets, SequencesExt

CONSTANTS
    BatchSize,   \* iface.BatchSize(): the room of the channel and of a batch
    Bufs,        \* names of buffers
    None,
    MaxPackets,  \* bound: packets that come from the core
    MaxReads     \* bound: batches that come from the interface

ASSUME TunAssumption ==
    /\ BatchSize \in Nat \ {0}
    /\ MaxPackets \in Nat /\ MaxReads \in Nat
    /\ None \notin Bufs

VARIABLES
    state,    \* of the adapter: "new", "failed", "disabled", "open", "stopped"
    hasChan,  \* whether tun.ch was made
    coreOpen, \* whether reading from the core still works
    nextIn,   \* number of the next packet from the core
    content,  \* what a buffer holds: the number of a packet, 0 at first
    pool,     \* buffers in bufPool
    qpc,      \* where queue() is: "none", "get", "read", "send", "ended"
    qbuf,     \* its buffer p
    ch,       \* the channel
    wpc,      \* where write() is: "none", "count", "recv", "copy", "put", "write"
    wn,       \* its n
    wbuf,     \* its msg
    batch,    \* what bufs[:i] holds
    out,      \* all packets given to iface.Write so far
    rpc,      \* where read() is: "none", "read", "write", "ended"
    rleft,    \* packets of its batch that are not yet written to the core
    reads     \* batches read so far

core == <<coreOpen, nextIn>>
queueVars == <<qpc, qbuf>>
writeVars == <<wpc, wn, wbuf, batch, out>>
readVars == <<rpc, rleft, reads>>
vars == <<state, hasChan, core, content, pool, queueVars, ch, writeVars, readVars>>

Init ==
    /\ state = "new" /\ hasChan = FALSE
    /\ coreOpen = TRUE /\ nextIn = 1
    /\ content = [b \in Bufs |-> 0]
    /\ pool = {}
    /\ qpc = "none" /\ qbuf = None
    /\ ch = <<>>
    /\ wpc = "none" /\ wn = 0 /\ wbuf = None /\ batch = <<>> /\ out = <<>>
    /\ rpc = "none" /\ rleft = 0 /\ reads = 0

----------------------------------------------------------------------------
(* New, _start and _stop.                                                  *)

\* The name is "none" or "dummy": there is no interface and no channel, and the
\* queue goroutine alone is started.
StartDisabled ==
    /\ state = "new"
    /\ state' = "disabled"
    /\ qpc' = "get"
    /\ UNCHANGED <<hasChan, core, content, pool, qbuf, ch, writeVars, readVars>>

\* setup() or setupFD() fails.
StartFails ==
    /\ state = "new"
    /\ state' = "failed"
    /\ UNCHANGED <<hasChan, core, content, pool, queueVars, ch, writeVars, readVars>>

StartOpen ==
    /\ state = "new"
    /\ state' = "open"
    /\ hasChan' = TRUE
    /\ qpc' = "get" /\ wpc' = "count" /\ rpc' = "read"
    /\ UNCHANGED <<core, content, pool, qbuf, ch, wn, wbuf, batch, out, rleft, reads>>

\* _stop: the interface is closed; nobody tells queue() and write().
Stop ==
    /\ state \in {"disabled", "open"}
    /\ state' = "stopped"
    /\ UNCHANGED <<hasChan, core, content, pool, queueVars, ch, writeVars, readVars>>

\* main() stops the core after the adapter: reads from it fail.
CoreStop ==
    /\ state = "stopped" /\ coreOpen
    /\ coreOpen' = FALSE
    /\ UNCHANGED <<state, hasChan, nextIn, content, pool, queueVars, ch, writeVars, readVars>>

----------------------------------------------------------------------------
(* queue().                                                                *)

\* bufPool.Get: a buffer of the pool, or a new one.
QueueGet(b) ==
    /\ qpc = "get"
    /\ b \in pool \/ b \notin {wbuf} \cup Range(ch)
    /\ qbuf' = b
    /\ pool' = pool \ {b}
    /\ qpc' = "read"
    /\ UNCHANGED <<state, hasChan, core, content, ch, writeVars, readVars>>

\* rwc.Read puts the next packet into the buffer.
QueueRead ==
    /\ qpc = "read" /\ coreOpen /\ nextIn <= MaxPackets
    /\ content' = [content EXCEPT ![qbuf] = nextIn]
    /\ nextIn' = nextIn + 1
    /\ qpc' = "send"
    /\ UNCHANGED <<state, hasChan, coreOpen, pool, qbuf, ch, writeVars, readVars>>

\* rwc.Read fails.
QueueEnd ==
    /\ qpc = "read" /\ ~coreOpen
    /\ qpc' = "ended" /\ qbuf' = None
    /\ UNCHANGED <<state, hasChan, core, content, pool, ch, writeVars, readVars>>

\* Mutant: the channel is not compared with nil; sending on it waits for ever.
QueueSend_NoNilCheck ==
    /\ qpc = "send" /\ hasChan /\ Len(ch) < BatchSize
    /\ ch' = Append(ch, qbuf)
    /\ qpc' = "get" /\ qbuf' = None
    /\ UNCHANGED <<state, hasChan, core, content, pool, writeVars, readVars>>

\* Without a channel the packet is dropped; otherwise there must be room.
QueueSend ==
    /\ qpc = "send"
    /\ IF hasChan THEN Len(ch) < BatchSize /\ ch' = Append(ch, qbuf) ELSE UNCHANGED ch
    /\ qpc' = "get" /\ qbuf' = None
    /\ UNCHANGED <<state, hasChan, core, content, pool, writeVars, readVars>>

----------------------------------------------------------------------------
(* write().                                                                *)

\* Mutant: the batch is always as large as it can be.
WriteCount_Full ==
    /\ wpc = "count"
    /\ wn' = BatchSize
    /\ wpc' = "recv"
    /\ UNCHANGED <<state, hasChan, core, content, pool, queueVars, ch, wbuf, batch, out, readVars>>

\* n := len(tun.ch), at least 1.
WriteCount ==
    /\ wpc = "count"
    /\ wn' = IF ch = <<>> THEN 1 ELSE Len(ch)
    /\ wpc' = "recv"
    /\ UNCHANGED <<state, hasChan, core, content, pool, queueVars, ch, wbuf, batch, out, readVars>>

\* Mutant: the buffer goes back to the pool before it is copied.
WriteRecv_PutsFirst ==
    /\ wpc = "recv" /\ ch # <<>>
    /\ wbuf' = Head(ch) /\ ch' = Tail(ch)
    /\ pool' = pool \cup {Head(ch)}
    /\ wpc' = "copy"
    /\ UNCHANGED <<state, hasChan, core, content, queueVars, wn, batch, out, readVars>>

\* msg := <-tun.ch.
WriteRecv ==
    /\ wpc = "recv" /\ ch # <<>>
    /\ wbuf' = Head(ch) /\ ch' = Tail(ch)
    /\ wpc' = "copy"
    /\ UNCHANGED <<state, hasChan, core, content, pool, queueVars, wn, batch, out, readVars>>

\* bufs[i] = append(...).
WriteCopy ==
    /\ wpc = "copy"
    /\ batch' = Append(batch, content[wbuf])
    /\ wpc' = "put"
    /\ UNCHANGED <<state, hasChan, core, content, pool, queueVars, ch, wn, wbuf, out, readVars>>

\* bufPool.Put, and the next message or the end of the loop.
WritePut ==
    /\ wpc = "put"
    /\ pool' = pool \cup {wbuf}
    /\ wbuf' = None
    /\ wpc' = IF Len(batch) = wn THEN "write" ELSE "recv"
    /\ UNCHANGED <<state, hasChan, core, content, queueVars, ch, wn, batch, out, readVars>>

\* iface.Write; an error is logged and changes nothing.
WriteIface ==
    /\ wpc = "write"
    /\ out' = out \o batch
    /\ batch' = <<>>
    /\ wpc' = "count"
    /\ UNCHANGED <<state, hasChan, core, content, pool, queueVars, ch, wn, wbuf, readVars>>

----------------------------------------------------------------------------
(* read().                                                                 *)

\* iface.Read returns a batch.
ReadBatch(n) ==
    /\ rpc = "read" /\ state = "open" /\ reads < MaxReads
    /\ rleft' = n /\ reads' = reads + 1
    /\ rpc' = IF n = 0 THEN "read" ELSE "write"
    /\ UNCHANGED <<state, hasChan, core, content, pool, queueVars, ch, writeVars>>

\* rwc.Write of the next packet of the batch; an error is logged.
ReadWrite ==
    /\ rpc = "write"
    /\ rleft' = rleft - 1
    /\ rpc' = IF rleft = 1 THEN "read" ELSE "write"
    /\ UNCHANGED <<state, hasChan, core, content, pool, queueVars, ch, writeVars, reads>>

\* iface.Read fails although the interface was not closed.
ReadFails ==
    /\ rpc = "read" /\ state = "open"
    /\ rpc' = "ended"
    /\ UNCHANGED <<state, hasChan, core, content, pool, queueVars, ch, writeVars, rleft, reads>>

\* iface.Read fails because it was.
ReadClosed ==
    /\ rpc = "read" /\ state = "stopped"
    /\ rpc' = "ended"
    /\ UNCHANGED <<state, hasChan, core, content, pool, queueVars, ch, writeVars, rleft, reads>>

----------------------------------------------------------------------------
Program == StartDisabled \/ StartFails \/ StartOpen \/ Stop \/ CoreStop
Queue == (\E b \in Bufs : QueueGet(b)) \/ QueueRead \/ QueueEnd \/ QueueSend
Writer == WriteCount \/ WriteRecv \/ WriteCopy \/ WritePut \/ WriteIface
Reader ==
    \/ \E n \in 0 .. BatchSize : ReadBatch(n)
    \/ ReadWrite \/ ReadFails \/ ReadClosed

Next == Program \/ Queue \/ Writer \/ Reader

Spec == Init /\ [][Next]_vars

\* Goroutines that can run do.  Packets need not come from either side, nobody
\* has to stop the adapter, and reads need not fail before it is closed.
FairSpec ==
    /\ Spec
    /\ WF_vars(\E b \in Bufs : QueueGet(b))
    /\ WF_vars(QueueSend) /\ WF_vars(QueueEnd)
    /\ WF_vars(Writer)
    /\ WF_vars(ReadWrite) /\ WF_vars(ReadClosed)

----------------------------------------------------------------------------
(* Properties.                                                             *)

TypeOK ==
    /\ state \in {"new", "failed", "disabled", "open", "stopped"}
    /\ hasChan \in BOOLEAN /\ coreOpen \in BOOLEAN
    /\ nextIn \in 1 .. MaxPackets + 1
    /\ content \in [Bufs -> 0 .. MaxPackets]
    /\ pool \in SUBSET Bufs
    /\ qpc \in {"none", "get", "read", "send", "ended"}
    /\ qbuf \in Bufs \cup {None}
    /\ ch \in Seq(Bufs) /\ Len(ch) <= BatchSize
    /\ wpc \in {"none", "count", "recv", "copy", "put", "write"}
    /\ wn \in 0 .. BatchSize
    /\ wbuf \in Bufs \cup {None}
    /\ batch \in Seq(0 .. MaxPackets)
    /\ out \in Seq(0 .. MaxPackets)
    /\ rpc \in {"none", "read", "write", "ended"}
    /\ rleft \in 0 .. BatchSize
    /\ reads \in 0 .. MaxReads

\* The packets on their way, oldest first: given to the interface, in the batch, in
\* the hands of write(), on the channel, in the hands of queue().
InOrder ==
    out \o batch
      \o (IF wpc = "copy" THEN <<content[wbuf]>> ELSE <<>>)
      \o [i \in DOMAIN ch |-> content[ch[i]]]
      \o (IF qpc = "send" THEN <<content[qbuf]>> ELSE <<>>)

\* Every packet that the core hands to an open adapter is on its way to the
\* interface once, unchanged and in order: no buffer is taken from the pool and
\* overwritten while a goroutine or the channel still needs it.
Intact == hasChan => InOrder = [i \in 1 .. nextIn - 1 |-> i]

\* write() never waits with packets in its batch: what it counted on the channel is
\* still there, as it is the only receiver, and there is a buffer for each.
BatchReady ==
    /\ wpc = "recv" /\ batch # <<>> => Len(batch) + Len(ch) >= wn
    /\ Len(batch) <= BatchSize

\* A packet from the core reaches the interface, also when the adapter is being
\* stopped: no packet waits for another one to come.
AllWritten ==
    \A k \in 1 .. MaxPackets : (hasChan /\ nextIn > k) ~> (Len(out) >= k)

\* The core is never held up by the adapter: queue() comes back for the next
\* packet, with or without an interface, open or closed, and ends with the core.
CoreDrained ==
    /\ (qpc = "send") ~> (qpc = "read")
    /\ (~coreOpen) ~> (qpc = "ended")

\* read() ends once the adapter is stopped, whatever it has in hand.
ReaderEnds == (state = "stopped") ~> (rpc \in {"none", "ended"})

\* No goroutine of the adapter gets stuck.
NobodyStuck == AllWritten /\ CoreDrained /\ ReaderEnds
=============================================================================
