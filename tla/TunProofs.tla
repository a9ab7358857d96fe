----------------------------- MODULE TunProofs -----------------------------
(***************************************************************************)
(* Proofs about Tun, for any size of channel and batch, any number of      *)
(* buffers and packets.                                                    *)
(***************************************************************************)
EXTENDS Tun, SequenceTheorems, TLAPS

\* s holds the numbers after k.
Follows(s, k) == \A i \in 1 .. Len(s) : s[i] = k + i

\* The packets up to and including the one in the hands of write().
Taken == Len(out) + Len(batch) + (IF wpc = "copy" THEN 1 ELSE 0)

\* Who has a buffer, and what there is before the adapter starts and without a channel.
Shape ==
    /\ wbuf # None <=> wpc \in {"copy", "put"}
    /\ qbuf # None <=> qpc \in {"read", "send"}
    /\ wpc # "none" <=> hasChan
    /\ wpc = "none" => ch = <<>>
    /\ wpc \in {"none", "count"} => batch = <<>>
    /\ state = "new" => wpc = "none" /\ qpc = "none" /\ out = <<>> /\ nextIn = 1
    /\ rpc = "write" => rleft > 0

\* A buffer is in one place: the pool, the channel, queue() or write().
Apart ==
    /\ \A b \in pool : b # wbuf /\ b # qbuf
    /\ \A i \in 1 .. Len(ch) : ch[i] \notin pool /\ ch[i] # wbuf /\ ch[i] # qbuf
    /\ \A i, j \in 1 .. Len(ch) : i # j => ch[i] # ch[j]
    /\ qbuf # None => qbuf # wbuf

\* What write() counted is in its batch, in its hands or still on the channel.
Batching ==
    /\ wpc = "recv" => /\ Len(batch) < wn
                       /\ Len(batch) + Len(ch) >= wn \/ (batch = <<>> /\ wn = 1)
    /\ wpc = "copy" => Len(batch) < wn /\ Len(batch) + 1 + Len(ch) >= wn
    /\ wpc = "put" => /\ Len(batch) > 0 /\ Len(batch) <= wn
                      /\ Len(batch) + Len(ch) >= wn
    /\ wpc = "write" => Len(batch) = wn

\* Which packet is where.
Numbered ==
    hasChan =>
        /\ Follows(out, 0)
        /\ Follows(batch, Len(out))
        /\ wpc = "copy" => content[wbuf] = Taken
        /\ \A i \in 1 .. Len(ch) : content[ch[i]] = Taken + i
        /\ qpc = "send" => content[qbuf] = Taken + Len(ch) + 1
        /\ nextIn = Taken + Len(ch) + (IF qpc = "send" THEN 1 ELSE 0) + 1

IndInv == TypeOK /\ Shape /\ Apart /\ Batching /\ Numbered

\* The initial state satisfies the invariant.
LEMMA InitInv == Init => IndInv
<1> SUFFICES ASSUME Init PROVE IndInv
  OBVIOUS
<1> USE TunAssumption DEF Init
<1>1. TypeOK
  <2>1. ch \in Seq(Bufs) /\ batch \in Seq(0 .. MaxPackets) /\ out \in Seq(0 .. MaxPackets)
    BY EmptySeq
  <2>2. Len(ch) = 0 /\ nextIn \in 1 .. MaxPackets + 1
    OBVIOUS
  <2>3. content \in [Bufs -> 0 .. MaxPackets]
    OBVIOUS
  <2>4. 0 \in 0 .. BatchSize /\ 0 \in 0 .. MaxReads /\ 0 <= BatchSize
    OBVIOUS
  <2> QED BY <2>1, <2>2, <2>3, <2>4 DEF TypeOK
<1>2. Shape
  BY DEF Shape
<1>3. Apart
  BY DEF Apart
<1>4. Batching
  BY DEF Batching
<1>5. Numbered
  BY DEF Numbered
<1> QED BY <1>1, <1>2, <1>3, <1>4, <1>5 DEF IndInv

\* What is on the channel is a buffer.
LEMMA OnChannel == IndInv => Len(ch) \in Nat /\ \A i \in 1 .. Len(ch) : ch[i] \in Bufs
BY DEF IndInv, TypeOK

\* Starting and stopping change nothing of what is under way.
LEMMA ProgramInv == IndInv /\ Program => IndInv'
<1> SUFFICES ASSUME IndInv, Program PROVE IndInv'
  OBVIOUS
<1> USE TunAssumption
        DEF IndInv, TypeOK, Shape, Apart, Batching, Numbered, Follows, Taken,
            core, queueVars, writeVars, readVars
<1>1. CASE StartDisabled
  BY <1>1 DEF StartDisabled
<1>2. CASE StartFails
  BY <1>2 DEF StartFails
<1>3. CASE StartOpen
  <2>1. TypeOK'
    BY <1>3 DEF StartOpen
  <2>2. Shape'
    BY <1>3 DEF StartOpen
  <2>3. Apart'
    BY <1>3 DEF StartOpen
  <2>4. Batching'
    BY <1>3 DEF StartOpen
  <2>5. Numbered'
    BY <1>3 DEF StartOpen
  <2> QED BY <2>1, <2>2, <2>3, <2>4, <2>5
<1>4. CASE Stop
  BY <1>4 DEF Stop
<1>5. CASE CoreStop
  <2>1. TypeOK' /\ Shape'
    BY <1>5 DEF CoreStop
  <2>2. Apart' /\ Batching' /\ Numbered'
    BY <1>5 DEF CoreStop
  <2> QED BY <2>1, <2>2
<1> QED BY <1>1, <1>2, <1>3, <1>4, <1>5 DEF Program

\* read() shares nothing with the other two.
LEMMA ReaderInv == IndInv /\ Reader => IndInv'
<1> SUFFICES ASSUME IndInv, Reader PROVE IndInv'
  OBVIOUS
<1> USE TunAssumption
        DEF IndInv, TypeOK, Shape, Apart, Batching, Numbered, Follows, Taken,
            core, queueVars, writeVars, readVars
<1>1. ASSUME NEW n \in 0 .. BatchSize, ReadBatch(n) PROVE IndInv'
  BY <1>1 DEF ReadBatch
<1>2. CASE ReadWrite
  BY <1>2 DEF ReadWrite
<1>3. CASE ReadFails
  BY <1>3 DEF ReadFails
<1>4. CASE ReadClosed
  BY <1>4 DEF ReadClosed
<1> QED BY <1>1, <1>2, <1>3, <1>4 DEF Reader

\* queue() only writes to a buffer that nobody else has.
LEMMA QueueInv == IndInv /\ Queue => IndInv'
<1> SUFFICES ASSUME IndInv, Queue PROVE IndInv'
  OBVIOUS
<1> USE TunAssumption
        DEF IndInv, TypeOK, Shape, Apart, Batching, Numbered, Follows, Taken,
            core, queueVars, writeVars, readVars
<1>1. ASSUME NEW b \in Bufs, QueueGet(b) PROVE IndInv'
  <2>1. TypeOK'
    BY <1>1 DEF QueueGet, Range
  <2>2. Shape'
    BY <1>1 DEF QueueGet, Range
  <2>3. Apart'
    BY <1>1 DEF QueueGet, Range
  <2>4. Batching'
    BY <1>1 DEF QueueGet, Range
  <2>5. Numbered'
    BY <1>1 DEF QueueGet, Range
  <2> QED BY <2>1, <2>2, <2>3, <2>4, <2>5
<1>2. CASE QueueRead
  <2>1. TypeOK'
    BY <1>2 DEF QueueRead
  <2>2. Shape'
    BY <1>2 DEF QueueRead
  <2>3. Apart'
    BY <1>2 DEF QueueRead
  <2>4. Batching'
    BY <1>2 DEF QueueRead
  <2>5. Numbered'
    <3> SUFFICES ASSUME hasChan PROVE Numbered'
      BY <1>2 DEF QueueRead
    <3>1. /\ qbuf \in Bufs
          /\ content'[qbuf] = nextIn
          /\ \A b \in Bufs : b # qbuf => content'[b] = content[b]
      BY <1>2 DEF QueueRead
    <3>2. wpc = "copy" => content'[wbuf] = content[wbuf]
      BY <3>1
    <3>3. \A i \in 1 .. Len(ch) : content'[ch[i]] = content[ch[i]]
      BY <3>1, OnChannel DEF Apart
    <3>4. UNCHANGED <<Taken, out, batch, wpc, wbuf, ch, qbuf>> /\ qpc = "read" /\ qpc' = "send"
          /\ nextIn' = nextIn + 1
      BY <1>2 DEF QueueRead
    <3>5. nextIn = Taken + Len(ch) + 1 /\ Taken \in Nat /\ Len(ch) \in Nat
      BY <3>4
    <3> HIDE DEF IndInv, TypeOK, Shape, Apart, Batching, Taken, Follows
    <3>6. /\ Follows(out, 0)' /\ Follows(batch, Len(out))'
          /\ (wpc = "copy" => content[wbuf] = Taken)'
          /\ (\A i \in 1 .. Len(ch) : content[ch[i]] = Taken + i)'
      BY <3>2, <3>3, <3>4 DEF IndInv, Numbered, Follows
    <3> QED BY <3>1, <3>4, <3>5, <3>6 DEF Numbered
  <2> QED BY <2>1, <2>2, <2>3, <2>4, <2>5
<1>3. CASE QueueEnd
  BY <1>3 DEF QueueEnd
<1>4. CASE QueueSend
  <2>1. CASE ~hasChan
    BY <1>4, <2>1 DEF QueueSend
  <2>2. CASE hasChan
    <3>1. qbuf \in Bufs /\ ch \in Seq(Bufs) /\ ch' = Append(ch, qbuf) /\ Len(ch) < BatchSize
      BY <1>4, <2>2 DEF QueueSend
    <3>2. /\ ch' \in Seq(Bufs) /\ Len(ch') = Len(ch) + 1 /\ ch'[Len(ch) + 1] = qbuf
          /\ \A i \in 1 .. Len(ch) : ch'[i] = ch[i]
      BY <3>1, AppendProperties
    <3>3. \A i \in 1 .. Len(ch') : i \in 1 .. Len(ch) \/ i = Len(ch) + 1
      BY <3>1, <3>2
    <3>4. TypeOK'
      BY <1>4, <2>2, <3>1, <3>2 DEF QueueSend
    <3>5. Shape'
      BY <1>4, <2>2 DEF QueueSend
    <3>6. Apart'
      <4>1. UNCHANGED <<pool, wbuf>> /\ qbuf' = None /\ qbuf # None
        BY <1>4 DEF QueueSend
      <4>2. Len(ch) \in Nat /\ \A i \in 1 .. Len(ch) : ch[i] \in Bufs
        BY OnChannel
      <4>3. qbuf \notin pool /\ qbuf # wbuf /\ \A i \in 1 .. Len(ch) : ch[i] # qbuf
        BY <4>1
      <4> HIDE DEF TypeOK, Shape, Batching, Numbered, IndInv
      <4>4. Apart
        BY DEF IndInv
      <4>5. \A i \in 1 .. Len(ch') : ch'[i] \notin pool /\ ch'[i] # wbuf /\ ch'[i] # None
        BY <3>1, <3>2, <3>3, <4>2, <4>3, <4>4
      <4>6. \A i, j \in 1 .. Len(ch') : i # j => ch'[i] # ch'[j]
        BY <3>2, <3>3, <4>2, <4>3, <4>4
      <4>7. \A b \in pool : b # None
        BY DEF IndInv, TypeOK
      <4> QED BY <4>1, <4>4, <4>5, <4>6, <4>7
    <3>7. Batching'
      BY <1>4, <2>2, <3>1, <3>2 DEF QueueSend
    <3>8. Numbered'
      <4>1. /\ UNCHANGED <<Taken, out, batch, wpc, wbuf, content, nextIn>>
            /\ qpc = "send" /\ qpc' = "get"
        BY <1>4 DEF QueueSend
      <4>2. Taken \in Nat /\ Len(ch) \in Nat
        OBVIOUS
      <4>3. content[qbuf] = Taken + Len(ch) + 1 /\ nextIn = Taken + Len(ch) + 2
        BY <2>2, <4>1, <4>2
      <4>4. \A i \in 1 .. Len(ch) : content[ch[i]] = Taken + i
        BY <2>2
      <4>5. Follows(out, 0)' /\ Follows(batch, Len(out))' /\ (wpc = "copy" => content[wbuf] = Taken)'
        BY <2>2, <4>1
      <4> HIDE DEF TypeOK, Shape, Batching, Apart, IndInv, Taken, Follows
      <4>6. \A i \in 1 .. Len(ch') : content'[ch'[i]] = Taken' + i
        BY <3>2, <3>3, <4>1, <4>2, <4>3, <4>4
      <4> QED BY <3>2, <4>1, <4>2, <4>3, <4>5, <4>6
    <3> QED BY <3>4, <3>5, <3>6, <3>7, <3>8
  <2> QED BY <2>1, <2>2
<1> QED BY <1>1, <1>2, <1>3, <1>4 DEF Queue

\* write() takes the oldest packet, copies it and only then gives its buffer back.
LEMMA WriterInv == IndInv /\ Writer => IndInv'
<1> SUFFICES ASSUME IndInv, Writer PROVE IndInv'
  OBVIOUS
<1> USE TunAssumption
        DEF IndInv, TypeOK, Shape, Apart, Batching, Numbered, Follows, Taken,
            core, queueVars, writeVars, readVars
<1>1. CASE WriteCount
  BY <1>1 DEF WriteCount
<1>2. CASE WriteRecv
  <2>1. /\ hasChan /\ ch \in Seq(Bufs) /\ ch # <<>>
        /\ wbuf' = Head(ch) /\ ch' = Tail(ch)
    BY <1>2 DEF WriteRecv
  <2>2. Len(ch) > 0 /\ Head(ch) = ch[1]
    BY <2>1
  <2>3. /\ wbuf' \in Bufs /\ ch' \in Seq(Bufs) /\ Len(ch') = Len(ch) - 1
        /\ \A i \in 1 .. Len(ch') : i + 1 \in 1 .. Len(ch) /\ ch'[i] = ch[i + 1]
    BY <2>1, <2>2, HeadTailProperties
  <2>4. TypeOK'
    <3>1. Len(ch') <= BatchSize
      BY <2>1, <2>3
    <3> HIDE DEF Shape, Batching, Apart, Numbered
    <3> QED BY <1>2, <2>3, <3>1 DEF WriteRecv
  <2>5. Shape'
    BY <1>2, <2>1, <2>3 DEF WriteRecv
  <2>6. Apart'
    <3>1. UNCHANGED <<pool, qbuf>>
      BY <1>2 DEF WriteRecv
    <3>2. wbuf' = ch[1] /\ 1 \in 1 .. Len(ch) /\ Len(ch) \in Nat
      BY <2>1, <2>2
    <3>3. Apart
      OBVIOUS
    <3> HIDE DEF IndInv, TypeOK, Shape, Batching, Numbered
    <3>4. \A i \in 1 .. Len(ch') : i + 1 \in 1 .. Len(ch) /\ i + 1 # 1 /\ ch'[i] = ch[i + 1]
      BY <2>3, <3>2
    <3>5. \A i \in 1 .. Len(ch') : ch'[i] \notin pool' /\ ch'[i] # wbuf' /\ ch'[i] # qbuf'
      BY <3>1, <3>2, <3>3, <3>4
    <3>6. \A i, j \in 1 .. Len(ch') : i # j => ch'[i] # ch'[j]
      BY <3>2, <3>3, <3>4
    <3> QED BY <3>1, <3>2, <3>3, <3>5, <3>6
  <2>7. Batching'
    BY <1>2, <2>1, <2>2, <2>3 DEF WriteRecv
  <2>8. Numbered'
    BY <1>2, <2>1, <2>2, <2>3 DEF WriteRecv
  <2> QED BY <2>4, <2>5, <2>6, <2>7, <2>8
<1>3. CASE WriteCopy
  <2>1. /\ hasChan /\ wbuf \in Bufs /\ batch \in Seq(0 .. MaxPackets)
        /\ content[wbuf] \in 0 .. MaxPackets /\ batch' = Append(batch, content[wbuf])
    BY <1>3 DEF WriteCopy
  <2>2. /\ batch' \in Seq(0 .. MaxPackets) /\ Len(batch') = Len(batch) + 1
        /\ batch'[Len(batch) + 1] = content[wbuf]
        /\ \A i \in 1 .. Len(batch) : batch'[i] = batch[i]
    BY <2>1, AppendProperties
  <2>3. \A i \in 1 .. Len(batch') : i \in 1 .. Len(batch) \/ i = Len(batch) + 1
    BY <2>1, <2>2
  <2>4. TypeOK'
    BY <1>3, <2>1, <2>2 DEF WriteCopy
  <2>5. Shape'
    BY <1>3, <2>1, <2>2 DEF WriteCopy
  <2>6. Apart'
    BY <1>3 DEF WriteCopy
  <2>7. Batching'
    BY <1>3, <2>1, <2>2 DEF WriteCopy
  <2>8. Numbered'
    <3>1. Taken' = Taken
      BY <1>3, <2>1, <2>2 DEF WriteCopy
    <3>2. Follows(batch, Len(out))'
      <4>1. out' = out /\ Len(out) \in Nat /\ content[wbuf] = Len(out) + Len(batch) + 1
        BY <1>3, <2>1 DEF WriteCopy
      <4>2. \A i \in 1 .. Len(batch) : batch[i] = Len(out) + i
        BY <2>1
      <4> HIDE DEF IndInv, TypeOK, Shape, Batching, Numbered, Apart
      <4>3. Len(batch) \in Nat
        BY <2>1
      <4>4. ASSUME NEW i \in 1 .. Len(batch') PROVE batch'[i] = Len(out') + i
        <5>1. CASE i \in 1 .. Len(batch)
          BY <2>2, <4>1, <4>2, <5>1
        <5>2. CASE i = Len(batch) + 1
          BY <2>2, <4>1, <4>3, <5>2
        <5> QED BY <2>3, <5>1, <5>2
      <4> QED BY <4>4
    <3> QED BY <1>3, <2>1, <3>1, <3>2 DEF WriteCopy
  <2> QED BY <2>4, <2>5, <2>6, <2>7, <2>8
<1>4. CASE WritePut
  <2>1. TypeOK'
    BY <1>4 DEF WritePut
  <2>2. Shape'
    BY <1>4 DEF WritePut
  <2>3. Apart'
    <3>1. wbuf \in Bufs /\ wbuf' = None /\ pool' = pool \cup {wbuf} /\ UNCHANGED <<ch, qbuf>>
      BY <1>4 DEF WritePut
    <3>2. \A b \in pool' : b # wbuf' /\ b # qbuf'
      BY <3>1
    <3>3. \A i \in 1 .. Len(ch) : ch[i] \in Bufs
      OBVIOUS
    <3>4. \A i \in 1 .. Len(ch') : ch'[i] \notin pool' /\ ch'[i] # wbuf' /\ ch'[i] # qbuf'
      BY <3>1, <3>3
    <3> QED BY <3>1, <3>2, <3>4
  <2>4. Batching'
    BY <1>4 DEF WritePut
  <2>5. Numbered'
    BY <1>4 DEF WritePut
  <2> QED BY <2>1, <2>2, <2>3, <2>4, <2>5
<1>5. CASE WriteIface
  <2>1. /\ hasChan /\ out \in Seq(0 .. MaxPackets) /\ batch \in Seq(0 .. MaxPackets)
        /\ out' = out \o batch /\ batch' = <<>>
    BY <1>5 DEF WriteIface
  <2>2. /\ out' \in Seq(0 .. MaxPackets)
        /\ Len(out') = Len(out) + Len(batch)
        /\ \A i \in 1 .. Len(out) + Len(batch) :
             out'[i] = IF i <= Len(out) THEN out[i] ELSE batch[i - Len(out)]
    BY <2>1, ConcatProperties
  <2>3. batch' \in Seq(0 .. MaxPackets) /\ Len(batch') = 0
    BY <2>1, EmptySeq
  <2>4. TypeOK'
    BY <1>5, <2>1, <2>2, <2>3 DEF WriteIface
  <2>5. Shape'
    BY <1>5, <2>1 DEF WriteIface
  <2>6. Apart'
    BY <1>5 DEF WriteIface
  <2>7. Batching'
    BY <1>5 DEF WriteIface
  <2>8. Numbered'
    <3>1. Taken' = Taken
      BY <1>5, <2>1, <2>2, <2>3 DEF WriteIface
    <3>2. Follows(out, 0)'
      <4> SUFFICES ASSUME NEW i \in 1 .. Len(out') PROVE out'[i] = i
        OBVIOUS
      <4>1. CASE i <= Len(out)
        BY <2>1, <2>2, <4>1
      <4>2. CASE ~(i <= Len(out))
        <5>1. i - Len(out) \in 1 .. Len(batch)
          BY <2>1, <2>2, <4>2
        <5>2. batch[i - Len(out)] = Len(out) + (i - Len(out))
          BY <2>1, <5>1
        <5> QED BY <2>1, <2>2, <4>2, <5>1, <5>2
      <4> QED BY <4>1, <4>2
    <3>3. Follows(batch, Len(out))'
      BY <2>3
    <3> QED BY <1>5, <2>1, <3>1, <3>2, <3>3 DEF WriteIface
  <2> QED BY <2>4, <2>5, <2>6, <2>7, <2>8
<1> QED BY <1>1, <1>2, <1>3, <1>4, <1>5 DEF Writer

\* The invariant is inductive: it holds of every reachable state.
THEOREM Inductive == Spec => []IndInv
<1>1. Init => IndInv
  BY InitInv
<1>2. IndInv /\ [Next]_vars => IndInv'
  <2>1. IndInv /\ UNCHANGED vars => IndInv'
    BY DEF IndInv, TypeOK, Shape, Apart, Batching, Numbered, Follows, Taken, vars,
           core, queueVars, writeVars, readVars
  <2> QED BY <2>1, ProgramInv, ReaderInv, QueueInv, WriterInv DEF Next
<1> QED BY <1>1, <1>2, PTL DEF Spec

\* The state of the adapter keeps its types; in particular the channel never holds
\* more than BatchSize messages.
THEOREM TypeCorrect == Spec => []TypeOK
<1>1. IndInv => TypeOK
  BY DEF IndInv
<1> QED BY Inductive, <1>1, PTL

\* Inside a batch write() always finds the messages that it counted, and it has a
\* buffer for each.
THEOREM BatchesAreReady == Spec => []BatchReady
<1>1. IndInv => BatchReady
  <2> SUFFICES ASSUME IndInv PROVE BatchReady
    OBVIOUS
  <2>1. /\ wn \in Nat /\ wn <= BatchSize /\ BatchSize \in Nat
        /\ Len(batch) \in Nat /\ Len(ch) \in Nat
        /\ wpc \in {"none", "count", "recv", "copy", "put", "write"}
    BY TunAssumption DEF IndInv, TypeOK
  <2>2. wpc = "recv" /\ batch # <<>> => Len(batch) + Len(ch) >= wn
    BY DEF IndInv, Batching
  <2>3. Len(batch) <= wn \/ batch = <<>>
    BY <2>1 DEF IndInv, Shape, Batching
  <2>4. Len(batch) <= BatchSize
    BY <2>1, <2>3
  <2> QED BY <2>2, <2>4 DEF BatchReady
<1> QED BY Inductive, <1>1, PTL

\* Two sequences of consecutive numbers, one after the other.
LEMMA FollowsConcat ==
    ASSUME NEW s \in Seq(Nat), NEW t \in Seq(Nat), Follows(s, 0), Follows(t, Len(s))
    PROVE  /\ s \o t \in Seq(Nat)
           /\ Len(s \o t) = Len(s) + Len(t)
           /\ Follows(s \o t, 0)
<1>1. /\ s \o t \in Seq(Nat)
      /\ Len(s \o t) = Len(s) + Len(t)
      /\ \A i \in 1 .. Len(s) + Len(t) :
            (s \o t)[i] = IF i <= Len(s) THEN s[i] ELSE t[i - Len(s)]
  BY ConcatProperties
<1>2. Len(s) \in Nat /\ Len(t) \in Nat
  OBVIOUS
<1>3. ASSUME NEW i \in 1 .. Len(s) + Len(t) PROVE (s \o t)[i] = i
  <2>1. CASE i <= Len(s)
    BY <1>1, <1>2, <2>1 DEF Follows
  <2>2. CASE ~(i <= Len(s))
    <3>1. i - Len(s) \in 1 .. Len(t)
      BY <1>2, <2>2
    <3>2. t[i - Len(s)] = Len(s) + (i - Len(s))
      BY <3>1 DEF Follows
    <3> QED BY <1>1, <1>2, <2>2, <3>2
  <2> QED BY <2>1, <2>2
<1> QED BY <1>1, <1>3 DEF Follows

\* Every packet from the core is on its way to the interface once, unchanged and in
\* order, however the buffers of the pool are reused.
THEOREM PacketsStayIntact == Spec => []Intact
<1>1. IndInv => Intact
  <2> SUFFICES ASSUME IndInv, hasChan PROVE InOrder = [i \in 1 .. nextIn - 1 |-> i]
    BY DEF Intact
  <2> DEFINE S1 == out \o batch
             mine == IF wpc = "copy" THEN <<content[wbuf]>> ELSE <<>>
             S2 == S1 \o mine
             onCh == [i \in DOMAIN ch |-> content[ch[i]]]
             S3 == S2 \o onCh
             last == IF qpc = "send" THEN <<content[qbuf]>> ELSE <<>>
             S4 == S3 \o last
  <2>1. /\ out \in Seq(Nat) /\ batch \in Seq(Nat) /\ ch \in Seq(Bufs)
        /\ content \in [Bufs -> Nat] /\ nextIn \in Nat
    <3>1. 0 .. MaxPackets \subseteq Nat
      BY TunAssumption
    <3>2. out \in Seq(0 .. MaxPackets) /\ batch \in Seq(0 .. MaxPackets)
      BY DEF IndInv, TypeOK
    <3>3. out \in Seq(Nat) /\ batch \in Seq(Nat)
      BY <3>1, <3>2, SeqMonotonic
    <3> QED BY <3>1, <3>3, TunAssumption DEF IndInv, TypeOK
  <2>2. Len(out) \in Nat /\ Len(batch) \in Nat /\ Len(ch) \in Nat
    BY <2>1
  <2>3. /\ Follows(out, 0)
        /\ Follows(batch, Len(out))
        /\ wpc = "copy" => content[wbuf] = Taken
        /\ \A i \in 1 .. Len(ch) : content[ch[i]] = Taken + i
        /\ qpc = "send" => content[qbuf] = Taken + Len(ch) + 1
        /\ nextIn = Taken + Len(ch) + (IF qpc = "send" THEN 1 ELSE 0) + 1
    BY DEF IndInv, Numbered
  <2>4. Taken \in Nat /\ (wpc = "copy" => Taken = Len(out) + Len(batch) + 1)
                      /\ (wpc # "copy" => Taken = Len(out) + Len(batch))
    BY <2>2 DEF Taken
  <2>5. S1 \in Seq(Nat) /\ Len(S1) = Len(out) + Len(batch) /\ Follows(S1, 0)
    BY <2>1, <2>3, FollowsConcat
  <2>6. S2 \in Seq(Nat) /\ Len(S2) = Taken /\ Follows(S2, 0)
    <3> HIDE DEF S1, mine
    <3>1. mine \in Seq(Nat) /\ Len(mine) = Taken - Len(S1) /\ Follows(mine, Len(S1))
      <4>1. CASE wpc = "copy"
        <5>1. mine = <<Taken>>
          BY <2>3, <4>1 DEF mine
        <5>2. Len(mine) = 1 /\ mine[1] = Taken /\ mine \in Seq(Nat)
          BY <2>4, <5>1
        <5>3. Taken = Len(S1) + 1 /\ Len(S1) \in Nat
          BY <2>2, <2>4, <2>5, <4>1
        <5>4. \A i \in 1 .. Len(mine) : i = 1
          BY <5>2
        <5> QED BY <5>2, <5>3, <5>4 DEF Follows
      <4>2. CASE wpc # "copy"
        <5>1. mine = <<>>
          BY <4>2 DEF mine
        <5>2. Len(mine) = 0 /\ mine \in Seq(Nat) /\ Taken - Len(S1) = 0
          BY <2>2, <2>4, <2>5, <4>2, <5>1
        <5> QED BY <5>2 DEF Follows
      <4> QED BY <4>1, <4>2
    <3>2. Len(S1) + (Taken - Len(S1)) = Taken
      BY <2>2, <2>4, <2>5
    <3> QED BY <2>5, <3>1, <3>2, FollowsConcat
  <2>7. S3 \in Seq(Nat) /\ Len(S3) = Taken + Len(ch) /\ Follows(S3, 0)
    <3> HIDE DEF S2
    <3>1. DOMAIN ch = 1 .. Len(ch) /\ \A i \in 1 .. Len(ch) : ch[i] \in Bufs
      BY <2>1
    <3>2. onCh \in [1 .. Len(ch) -> Nat] /\ \A i \in 1 .. Len(ch) : onCh[i] = content[ch[i]]
      BY <2>1, <3>1
    <3> HIDE DEF onCh
    <3>3. onCh \in Seq(Nat) /\ Len(onCh) = Len(ch)
      BY <2>2, <3>2, IsASeq, LenProperties
    <3>4. Follows(onCh, Len(S2))
      BY <2>3, <2>6, <3>2, <3>3 DEF Follows
    <3> QED BY <2>6, <3>3, <3>4, FollowsConcat
  <2>8. S4 \in Seq(Nat) /\ Len(S4) = nextIn - 1 /\ Follows(S4, 0)
    <3> HIDE DEF S3, last
    <3>1. last \in Seq(Nat) /\ Len(last) = nextIn - 1 - Len(S3) /\ Follows(last, Len(S3))
      <4>1. CASE qpc = "send"
        <5>1. last = <<Len(S3) + 1>> /\ Len(S3) \in Nat
          BY <2>3, <2>7, <4>1 DEF last
        <5>2. Len(last) = 1 /\ last[1] = Len(S3) + 1 /\ last \in Seq(Nat)
          BY <5>1
        <5>3. nextIn - 1 - Len(S3) = 1
          BY <2>2, <2>3, <2>4, <2>7, <4>1
        <5>4. \A i \in 1 .. Len(last) : i = 1
          BY <5>2
        <5> QED BY <5>2, <5>3, <5>4 DEF Follows
      <4>2. CASE qpc # "send"
        <5>1. last = <<>>
          BY <4>2 DEF last
        <5>2. Len(last) = 0 /\ last \in Seq(Nat) /\ nextIn - 1 - Len(S3) = 0
          BY <2>2, <2>3, <2>4, <2>7, <4>2, <5>1
        <5> QED BY <5>2 DEF Follows
      <4> QED BY <4>1, <4>2
    <3>2. Len(S3) + (nextIn - 1 - Len(S3)) = nextIn - 1
      BY <2>1, <2>7
    <3> QED BY <2>7, <3>1, <3>2, FollowsConcat
  <2>9. InOrder = S4
    BY DEF InOrder
  <2> HIDE DEF S4
  <2>10. DOMAIN S4 = 1 .. nextIn - 1 /\ S4 = [i \in DOMAIN S4 |-> S4[i]]
    BY <2>8
  <2>11. \A i \in 1 .. nextIn - 1 : S4[i] = i
    BY <2>8 DEF Follows
  <2> QED BY <2>9, <2>10, <2>11
<1> QED BY Inductive, <1>1, PTL
=============================================================================
