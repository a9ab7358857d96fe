-------------------------- MODULE FunctionsProofs --------------------------
(***************************************************************************)
(* The functions of Packets, Config, PeerOrder, Doctor and Addresses, for  *)
(* every argument and every value of the constants, and for the calls of   *)
(* MCFunctions, which are some of these arguments.                         *)
(*                                                                         *)
(* Folds, sorting and the scan of a key are proved by induction over the   *)
(* length: a set of numbers that fails a claim would have a least element  *)
(* (LeastNumber), so a set that holds 0 and is closed under +1 holds every *)
(* number (SetInduction).  The claim is a set there, not a parameter.      *)
(***************************************************************************)
EXTENDS MCFunctions, TLAPS, WellFoundedInduction, SequenceTheorems,
        FiniteSetTheorems, FunctionTheorems

----------------------------------------------------------------------------
(* Packets.                                                                *)

\* Min and Max of two numbers: what the comparisons in the code compute.
LEMMA MinOfTwo ==
    ASSUME NEW a \in Nat, NEW b \in Nat
    PROVE  /\ Min({a, b}) \in Nat
           /\ a <= b => Min({a, b}) = a
           /\ b <= a => Min({a, b}) = b
<1>1. \E x \in {a, b} : \A y \in {a, b} : x <= y
  <2>1. CASE a <= b
    BY <2>1
  <2>2. CASE ~(a <= b)
    BY <2>2
  <2> QED BY <2>1, <2>2
<1>2. /\ Min({a, b}) \in {a, b}
      /\ \A y \in {a, b} : Min({a, b}) <= y
  BY <1>1 DEF Min
<1> QED BY <1>2

\* The greater of two numbers.
LEMMA MaxOfTwo ==
    ASSUME NEW a \in Nat, NEW b \in Nat
    PROVE  /\ Max({a, b}) \in Nat
           /\ a <= b => Max({a, b}) = b
           /\ b <= a => Max({a, b}) = a
<1>1. \E x \in {a, b} : \A y \in {a, b} : x >= y
  <2>1. CASE a <= b
    BY <2>1
  <2>2. CASE ~(a <= b)
    BY <2>2
  <2> QED BY <2>1, <2>2
<1>2. /\ Max({a, b}) \in {a, b}
      /\ \A y \in {a, b} : Max({a, b}) >= y
  BY <1>1 DEF Max
<1> QED BY <1>2

\* What a platform supports carries IPv6.
LEMMA PlatformMTUBounds == PlatformMTU \in Nat /\ PlatformMTU >= 1280
BY MTUAssumption

\* What the core carries, behind the byte of the packet's kind, carries IPv6.
LEMMA CoreMTUBounds == CoreMTU \in Nat /\ CoreMTU >= 1280
<1>1. ConnMTU - 1 \in Nat /\ ConnMTU - 1 >= 1280
  BY MTUAssumption
<1>2. PICK c : c = ConnMTU - 1
  OBVIOUS
<1>3. CASE c <= 65535
  <2>1. Min({c, 65535}) = c
    BY <1>1, <1>2, <1>3, MinOfTwo
  <2> QED BY <1>1, <1>2, <2>1 DEF CoreMTU
<1>4. CASE ~(c <= 65535)
  <2>1. Min({c, 65535}) = 65535
    BY <1>1, <1>2, <1>4, MinOfTwo
  <2> QED BY <1>1, <1>2, <2>1 DEF CoreMTU
<1> QED BY <1>3, <1>4

\* getSupportedMTU returns a value in range, leaves a value in range alone, and
\* never raises one that IPv6 can work with.
LEMMA SupportedMTU ==
    ASSUME NEW m \in Nat
    PROVE  /\ getSupportedMTU(m) \in Nat
           /\ getSupportedMTU(m) >= 1280
           /\ getSupportedMTU(m) <= PlatformMTU
           /\ m >= 1280 => getSupportedMTU(m) <= m
           /\ m >= 1280 /\ m <= PlatformMTU => getSupportedMTU(m) = m
           /\ m < 1280 => getSupportedMTU(m) = 1280
<1> DEFINE h == Max({m, 1280})
           l == Min({h, PlatformMTU})
<1>1. h \in Nat /\ h >= 1280 /\ (m >= 1280 => h = m) /\ (m < 1280 => h = 1280)
  BY MaxOfTwo
<1>2. getSupportedMTU(m) = l
  BY DEF getSupportedMTU
<1> HIDE DEF h
<1>3. CASE h <= PlatformMTU
  <2>1. l = h
    BY <1>1, <1>3, MinOfTwo, PlatformMTUBounds
  <2> HIDE DEF l
  <2> QED BY <1>1, <1>2, <1>3, <2>1, PlatformMTUBounds
<1>4. CASE ~(h <= PlatformMTU)
  <2>1. l = PlatformMTU
    BY <1>1, <1>4, MinOfTwo, PlatformMTUBounds
  <2> HIDE DEF l
  <2> QED BY <1>1, <1>2, <1>4, <2>1, PlatformMTUBounds
<1> QED BY <1>3, <1>4

\* The interface gets an MTU that the platform supports and the core can carry.
LEMMA InterfaceMTUBounds ==
    ASSUME NEW ifmtu \in Nat
    PROVE  /\ InterfaceMTU(ifmtu) \in Nat
           /\ InterfaceMTU(ifmtu) >= 1280
           /\ InterfaceMTU(ifmtu) <= CoreMTU
           /\ InterfaceMTU(ifmtu) <= PlatformMTU
<1> DEFINE l == Min({ifmtu, CoreMTU})
<1>1. l \in Nat /\ l <= CoreMTU
  BY MinOfTwo, CoreMTUBounds
<1>2. InterfaceMTU(ifmtu) = getSupportedMTU(l)
  BY DEF InterfaceMTU
<1> HIDE DEF l
<1>3. /\ getSupportedMTU(l) \in Nat
      /\ getSupportedMTU(l) >= 1280 /\ getSupportedMTU(l) <= PlatformMTU
      /\ l >= 1280 => getSupportedMTU(l) <= l
      /\ l < 1280 => getSupportedMTU(l) = 1280
  BY <1>1, SupportedMTU
<1> QED BY <1>1, <1>2, <1>3, CoreMTUBounds, PlatformMTUBounds

\* The key store takes over the MTU of the interface as it is.
LEMMA AdapterMTUIsInterfaceMTU ==
    ASSUME NEW ifmtu \in Nat
    PROVE  AdapterMTU(ifmtu) = InterfaceMTU(ifmtu)
<1> DEFINE m == InterfaceMTU(ifmtu)
<1>1. m \in Nat /\ m >= 1280 /\ m <= CoreMTU /\ m <= PlatformMTU
  BY InterfaceMTUBounds
<1>2. AdapterMTU(ifmtu) = Max({Min({getSupportedMTU(m), CoreMTU}), 1280})
  BY DEF AdapterMTU, SetMTU
<1> HIDE DEF m
<1>3. getSupportedMTU(m) = m
  BY <1>1, SupportedMTU
<1>4. Min({m, CoreMTU}) = m
  BY <1>1, CoreMTUBounds, MinOfTwo
<1>5. Max({m, 1280}) = m
  BY <1>1, MaxOfTwo
<1> QED BY <1>2, <1>3, <1>4, <1>5 DEF m

\* Whatever the configuration asks for, the interface and the key store end up with
\* the same MTU, which the core can carry and IPv6 can work with (_start, setup,
\* getSupportedMTU, SetMTU).
THEOREM MTUsAlwaysAgree == \A ifmtu \in Nat : MTUsAgree(ifmtu)
<1> SUFFICES ASSUME NEW ifmtu \in Nat PROVE MTUsAgree(ifmtu)
  OBVIOUS
<1>1. AdapterMTU(ifmtu) = InterfaceMTU(ifmtu)
  BY AdapterMTUIsInterfaceMTU
<1>2. AdapterMTU(ifmtu) \in 1280 .. CoreMTU
  BY <1>1, InterfaceMTUBounds, CoreMTUBounds
<1> QED BY <1>1, <1>2 DEF MTUsAgree

----------------------------------------------------------------------------
(* Packets.                                                                *)

\* A packet of any size, and an answer to one.
AnyPacket == [ipv6: BOOLEAN, size: Nat, src: IPs, dst: IPs, type: {"data", "ptb"}]

\* What readPC hands to the TUN, sends and learns is authentic, for every node,
\* sender, MTU and packet.
THEOREM ReadsAreAuthentic ==
    \A node, from \in Nodes, mtu \in Nat, p \in AnyPacket : Authentic(node, mtu, p, from)
<1> SUFFICES ASSUME NEW node \in Nodes, NEW from \in Nodes, NEW mtu \in Nat, NEW p \in AnyPacket
             PROVE  Authentic(node, mtu, p, from)
  OBVIOUS
<1> DEFINE r == readPC(node, mtu, p, from)
<1>0. p.size \in Nat /\ p.ipv6 \in BOOLEAN
  BY DEF AnyPacket
<1>1. CASE p.size = 0 \/ ~p.ipv6 \/ p.size < 40
  <2>1. r.deliver = FALSE /\ r.learn = FALSE /\ r.replies = {}
    BY <1>1 DEF readPC, Nothing
  <2> QED BY <2>1 DEF Authentic
<1>2. CASE ~(p.size = 0 \/ ~p.ipv6 \/ p.size < 40) /\ p.size > mtu
  <2>1. /\ r.deliver = FALSE /\ r.learn = FALSE
        /\ r.replies = {q \in {PacketTooBig(p)} : writePC(node, q)}
    BY <1>2 DEF readPC, Nothing
  <2>2. \A q \in r.replies : Owns(node, q.src)
    BY <2>1 DEF writePC
  <2> QED BY <2>1, <2>2 DEF Authentic
<1>3. CASE ~(p.size = 0 \/ ~p.ipv6 \/ p.size < 40) /\ ~(p.size > mtu) /\ ~Owns(node, p.dst)
  <2>1. r.deliver = FALSE /\ r.learn = FALSE /\ r.replies = {}
    BY <1>3 DEF readPC, Nothing
  <2> QED BY <2>1 DEF Authentic
<1>4. CASE ~(p.size = 0 \/ ~p.ipv6 \/ p.size < 40) /\ ~(p.size > mtu) /\ Owns(node, p.dst)
  <2>1. r.deliver = Owns(from, p.src) /\ r.replies = {}
    BY <1>4 DEF readPC, Nothing
  <2>2. p.size <= mtu
    BY <1>0, <1>4
  <2> QED BY <1>4, <2>1, <2>2 DEF Authentic
<1> QED BY <1>0, <1>1, <1>2, <1>3, <1>4

\* A packet that fits the reader's buffer passes the core unchanged.
LEMMA CarriedWhole ==
    ASSUME NEW p \in AnyPacket, p.size <= CoreMTU
    PROVE  CoreReadFrom(CoreWriteTo(p), CoreMTU) = {p}
<1>1. p.size \in Nat
  BY DEF AnyPacket
<1>2. Min({p.size, CoreMTU}) = p.size
  BY <1>1, MinOfTwo, CoreMTUBounds
<1>3. [p EXCEPT !.size = p.size] = p
  BY DEF AnyPacket
<1>4. CoreWriteTo(p).session = "traffic" /\ CoreWriteTo(p).packet = p
  BY DEF CoreWriteTo
<1>5. CoreReadFrom(CoreWriteTo(p), CoreMTU)
        = {[p EXCEPT !.size = Min({p.size, CoreMTU})]}
  BY <1>4 DEF CoreReadFrom
<1> QED BY <1>2, <1>3, <1>5

\* A packet within the MTU from one node's address to the other's is delivered.
LEMMA Delivers ==
    ASSUME NEW node, NEW from, NEW mtu \in Nat, NEW p \in AnyPacket,
           p.ipv6, p.size >= 40, p.size <= mtu, Owns(node, p.dst), Owns(from, p.src)
    PROVE  readPC(node, mtu, p, from).deliver /\ readPC(node, mtu, p, from).replies = {}
<1>1. p.size \in Nat
  BY DEF AnyPacket
<1>2. ~(p.size = 0 \/ ~p.ipv6 \/ p.size < 40) /\ ~(p.size > mtu)
  BY <1>1
<1> QED BY <1>2 DEF readPC, Nothing

\* The answer to a packet is a packet in the opposite direction that fits every MTU.
LEMMA AnswerFits ==
    ASSUME NEW p \in AnyPacket
    PROVE  /\ PacketTooBig(p) \in AnyPacket /\ PacketTooBig(p).ipv6
           /\ PacketTooBig(p).size >= 48 /\ PacketTooBig(p).size <= 560
           /\ PacketTooBig(p).src = p.dst /\ PacketTooBig(p).dst = p.src
<1>1. p.size \in Nat /\ p.src \in IPs /\ p.dst \in IPs
  BY DEF AnyPacket
<1> DEFINE m == Min({512, p.size})
<1>2. m \in Nat /\ m <= 512
  BY <1>1, MinOfTwo
<1>3. PacketTooBig(p) = [ipv6 |-> TRUE, size |-> 40 + 8 + m, src |-> p.dst, dst |-> p.src,
                         type |-> "ptb"]
  BY DEF PacketTooBig
<1> HIDE DEF m
<1>4. 40 + 8 + m \in Nat /\ 40 + 8 + m >= 48 /\ 40 + 8 + m <= 560
  BY <1>2
<1> QED BY <1>1, <1>3, <1>4 DEF AnyPacket

\* No packet is lost in silence between two nodes: what writePC of one accepts for
\* the other is delivered there, or an answer comes back to the sender's TUN, and no
\* answer is answered.
THEOREM NothingIsLost ==
    \A a, b \in Nodes, p \in AnyPacket, mA, mB \in Nat :
        DeliveredOrAnswered(a, b, p, mA, mB)
<1> SUFFICES ASSUME NEW a \in Nodes, NEW b \in Nodes, NEW p \in AnyPacket,
                    NEW mA \in Nat, NEW mB \in Nat
             PROVE  DeliveredOrAnswered(a, b, p, mA, mB)
  OBVIOUS
<1> SUFFICES ASSUME writePC(a, p), Owns(b, p.dst), p.size <= InterfaceMTU(mA)
             PROVE  DeliveredOrAnswered(a, b, p, mA, mB)
  BY DEF DeliveredOrAnswered
<1> DEFINE R(q) == readPC(b, AdapterMTU(mB), q, a)
           B(q) == readPC(a, AdapterMTU(mA), q, b)
<1>1. /\ p.size \in Nat /\ p.ipv6 /\ p.size >= 40
      /\ Owns(a, p.src) /\ p.dst # Foreign
  BY DEF writePC, AnyPacket
<1>2. /\ AdapterMTU(mA) \in Nat /\ AdapterMTU(mA) >= 1280
      /\ InterfaceMTU(mA) \in Nat /\ InterfaceMTU(mA) <= CoreMTU
      /\ AdapterMTU(mB) \in Nat /\ AdapterMTU(mB) >= 1280
  BY AdapterMTUIsInterfaceMTU, InterfaceMTUBounds
<1>3. p.size <= CoreMTU
  BY <1>1, <1>2, CoreMTUBounds
<1>4. (CHOOSE x \in {R(q) : q \in CoreReadFrom(CoreWriteTo(p), CoreMTU)} : TRUE) = R(p)
  BY <1>3, CarriedWhole
<1> DEFINE t == PacketTooBig(p)
<1>5. t \in AnyPacket /\ t.ipv6 /\ t.size >= 48 /\ t.size <= 560 /\ t.src = p.dst /\ t.dst = p.src
  BY AnswerFits
<1>6. t.size \in Nat /\ t.size <= CoreMTU /\ t.size <= AdapterMTU(mA) /\ t.size >= 40
  <2>1. t.size \in Nat
    BY <1>5 DEF AnyPacket
  <2> HIDE DEF t
  <2> QED BY <1>2, <1>5, <2>1, CoreMTUBounds
<1>7. (CHOOSE x \in {B(q) : q \in CoreReadFrom(CoreWriteTo(t), CoreMTU)} : TRUE) = B(t)
  BY <1>5, <1>6, CarriedWhole
<1>8. B(t).deliver /\ B(t).replies = {}
  <2>1. Owns(a, t.dst) /\ Owns(b, t.src)
    BY <1>1, <1>5
  <2> HIDE DEF t
  <2> QED BY <1>2, <1>5, <1>6, <2>1, Delivers
<1>9. CASE p.size <= AdapterMTU(mB)
  <2>1. R(p).deliver /\ R(p).replies = {}
    BY <1>1, <1>2, <1>9, Delivers
  <2> HIDE DEF t
  <2> QED BY <1>4, <2>1 DEF DeliveredOrAnswered
<1>10. CASE ~(p.size <= AdapterMTU(mB))
  <2>1. ~(p.size = 0 \/ ~p.ipv6 \/ p.size < 40) /\ p.size > AdapterMTU(mB)
    BY <1>1, <1>2, <1>10
  <2>2. R(p).replies = {q \in {t} : writePC(b, q)}
    BY <2>1 DEF readPC, Nothing
  <2>3. writePC(b, t)
    <3>1. t.dst # Foreign /\ Owns(b, t.src)
      BY <1>1, <1>5 DEF Owns
    <3>2. t.size > 0
      BY <1>6
    <3> HIDE DEF t
    <3> QED BY <1>5, <1>6, <3>1, <3>2 DEF writePC
  <2>4. R(p).replies = {t}
    BY <2>2, <2>3
  <2>5. Owns(a, t.dst)
    BY <1>1, <1>5
  <2> HIDE DEF t, R, B
  <2>6. \A q \in R(p).replies : q = t
    BY <2>4
  <2> QED BY <1>4, <1>7, <1>8, <2>4, <2>5, <2>6 DEF R, B, DeliveredOrAnswered
<1> QED BY <1>9, <1>10

----------------------------------------------------------------------------
(* Configurations.                                                         *)

Fields == {"ok", "key", "cert", "path", "admin"}

\* A configuration with this key, this certificate and this use of PrivateKeyPath.
Holds(cfg, key, cert, path) ==
    /\ cfg = [i \in Fields |-> cfg[i]]
    /\ cfg.ok /\ cfg.key = key /\ cfg.cert = cert /\ cfg.path = path

\* A configuration as it is built, and as assignments change it.
LEMMA HoldsAfter ==
    ASSUME NEW k, NEW c, NEW p, NEW x
    PROVE  /\ \A a : Holds(Loaded(k, c, p, a), k, c, p)
           /\ \A cfg : Holds(cfg, k, c, p) => Holds([cfg EXCEPT !.cert = x], k, x, p)
           /\ \A cfg : Holds(cfg, k, c, p) => Holds([cfg EXCEPT !.key = x], x, c, p)
           /\ \A cfg, y, z : Holds(cfg, k, c, p)
                => Holds([cfg EXCEPT !.key = x, !.path = y, !.admin = z], x, c, y)
<1>1. \A a : Holds(Loaded(k, c, p, a), k, c, p)
  BY DEF Loaded, Holds, Fields
<1>2. \A cfg : Holds(cfg, k, c, p) => Holds([cfg EXCEPT !.cert = x], k, x, p)
  BY DEF Holds, Fields
<1>3. \A cfg : Holds(cfg, k, c, p) => Holds([cfg EXCEPT !.key = x], x, c, p)
  BY DEF Holds, Fields
<1>4. \A cfg, y, z : Holds(cfg, k, c, p)
                => Holds([cfg EXCEPT !.key = x, !.path = y, !.admin = z], x, c, y)
  <2> SUFFICES ASSUME NEW cfg, NEW y, NEW z, Holds(cfg, k, c, p),
                      NEW s, s = [cfg EXCEPT !.key = x, !.path = y, !.admin = z]
               PROVE  Holds(s, x, c, y)
    OBVIOUS
  <2>1. s = [i \in Fields |-> s[i]] /\ s.ok = cfg.ok /\ s.cert = cfg.cert /\ s.key = x
          /\ s.path = y
    BY DEF Holds, Fields
  <2> QED
    BY <2>1 DEF Holds
<1> QED
  BY <1>1, <1>2, <1>3, <1>4

\* GenerateSelfSignedCertificate takes the key of a seed, and nothing else.
LEMMA CertificateOf ==
    ASSUME NEW cfg, NEW k \in KeyBytes, NEW c, NEW p, Holds(cfg, k, c, p)
    PROVE  LET made == GenerateSelfSignedCertificate(cfg)
           IN  /\ \A s \in Seeds : k = KeyOf(s) => Holds(made, k, KeyOf(s), p)
               /\ made.ok => \E s \in Seeds : k = KeyOf(s) /\ Holds(made, k, KeyOf(s), p)
<1>1. cfg.key = k
  BY DEF Holds
<1>2. Error.ok = FALSE
  BY DEF Error
<1>3. \A s \in Seeds : KeyOf(s) # WrongLength /\ KeyOf(s).seed = s /\ KeyOf(s).pub = s
  BY AbsentAssumption DEF KeyOf, WrongLength
<1>4. k # WrongLength => k.seed \in Seeds /\ k.pub \in Seeds /\ (k.seed = k.pub => k = KeyOf(k.seed))
  BY DEF KeyBytes, KeyOf
<1>5. ASSUME NEW s \in Seeds, k = KeyOf(s)
      PROVE  Holds(GenerateSelfSignedCertificate(cfg), k, KeyOf(s), p)
  <2>1. GenerateSelfSignedCertificate(cfg) = [cfg EXCEPT !.cert = KeyOf(s)]
    BY <1>1, <1>3, <1>5 DEF GenerateSelfSignedCertificate
  <2>2. Holds([cfg EXCEPT !.cert = KeyOf(s)], k, KeyOf(s), p)
    BY HoldsAfter
  <2> QED
    BY <2>1, <2>2
<1>6. ASSUME GenerateSelfSignedCertificate(cfg).ok
      PROVE  k = KeyOf(k.seed) /\ k.seed \in Seeds
  BY <1>1, <1>2, <1>4, <1>6 DEF GenerateSelfSignedCertificate
<1> QED
  BY <1>5, <1>6

\* The certificate is made when it is not the private key's; either way the
\* configuration ends with the key of a seed and its certificate.
LEMMA PostprocessOf ==
    ASSUME NEW cfg, NEW k \in KeyBytes, NEW c, NEW p \in BOOLEAN, Holds(cfg, k, c, p), NEW file,
           c = Absent \/ \E r \in Seeds : c = KeyOf(r)
    PROVE  LET b == IF p THEN KeyOf(file) ELSE k
               done == postprocessConfig(cfg, file)
           IN  /\ \A s \in Seeds : b = KeyOf(s) => Holds(done, b, KeyOf(s), p)
               /\ file \in KeyFiles /\ done.ok
                    => \E s \in Seeds : b = KeyOf(s) /\ Holds(done, b, KeyOf(s), p)
<1> DEFINE b == IF p THEN KeyOf(file) ELSE k
           read == ReadPrivateKeyPath(cfg, file)
           done == postprocessConfig(cfg, file)
<1>1. \A s, t : (KeyOf(s) = KeyOf(t) => s = t) /\ (s \in Seeds => KeyOf(s) \in KeyBytes)
  BY DEF KeyOf, KeyBytes
<1>2. Absent \notin Seeds
  BY AbsentAssumption
<1>3. cfg.path = p /\ cfg.ok
  BY DEF Holds
<1>4. p /\ file = Absent => ~read.ok
  BY <1>3 DEF ReadPrivateKeyPath, Error
<1>5. ~(p /\ file = Absent) => Holds(read, b, c, p) /\ read.ok
  <2>1. CASE ~p
    BY <2>1, <1>3 DEF ReadPrivateKeyPath
  <2>2. CASE p /\ file # Absent
    <3>1. read = [cfg EXCEPT !.key = KeyOf(file)]
      BY <2>2, <1>3 DEF ReadPrivateKeyPath
    <3>2. Holds([cfg EXCEPT !.key = KeyOf(file)], KeyOf(file), c, p)
      BY HoldsAfter
    <3>3. Holds(read, b, c, p)
      BY <3>1, <3>2, <2>2
    <3> HIDE DEF read, b
    <3> QED
      BY <3>3 DEF Holds
  <2> QED
    BY <2>1, <2>2
<1>6. ~read.ok => ~done.ok
  BY DEF postprocessConfig, Error
<1>7. read.ok => done = IF read.cert = Absent \/ read.cert # read.key
                          THEN GenerateSelfSignedCertificate(read) ELSE read
  BY DEF postprocessConfig
<1>8. ASSUME NEW s \in Seeds, b = KeyOf(s)
      PROVE  Holds(done, b, KeyOf(s), p)
  <2>1. ~(p /\ file = Absent) /\ b \in KeyBytes
    BY <1>1, <1>2, <1>8
  <2>2. Holds(read, b, c, p) /\ read.ok
    BY <2>1, <1>5
  <2> HIDE DEF read, b, done
  <2>3. read.cert = c /\ read.key = b
    BY <2>2 DEF Holds
  <2>4. Holds(GenerateSelfSignedCertificate(read), b, KeyOf(s), p)
    BY <2>1, <2>2, <1>8, CertificateOf
  <2>5. CASE read.cert = Absent \/ read.cert # read.key
    BY <2>2, <2>4, <2>5, <1>7
  <2>6. CASE ~(read.cert = Absent \/ read.cert # read.key)
    BY <2>2, <2>3, <2>6, <1>7, <1>8
  <2> QED
    BY <2>5, <2>6
<1>9. ASSUME file \in KeyFiles, done.ok
      PROVE  \E s \in Seeds : b = KeyOf(s)
  <2>1. ~(p /\ file = Absent) /\ read.ok
    BY <1>4, <1>6, <1>9
  <2>2. Holds(read, b, c, p)
    BY <2>1, <1>5
  <2>3. b \in KeyBytes
    BY <2>1, <1>1, <1>9 DEF KeyFiles
  <2> HIDE DEF read, b, done
  <2>4. read.cert = c /\ read.key = b
    BY <2>2 DEF Holds
  <2>5. CASE c = Absent \/ c # b
    <3>1. done = GenerateSelfSignedCertificate(read)
      BY <2>1, <2>4, <2>5, <1>7
    <3> QED
      BY <3>1, <2>2, <2>3, <1>9, CertificateOf
  <2>6. CASE ~(c = Absent \/ c # b)
    BY <2>6
  <2> QED
    BY <2>5, <2>6
<1> HIDE DEF b, done
<1>10. (file \in KeyFiles /\ done.ok) => \E s \in Seeds : b = KeyOf(s) /\ Holds(done, b, KeyOf(s), p)
  BY <1>8, <1>9
<1> QED
  BY <1>8, <1>10 DEF b, done

\* The defaults have a key and its certificate.
LEMMA GenerateConfigGives ==
    ASSUME NEW r \in Seeds
    PROVE  Holds(GenerateConfig(r), KeyOf(r), KeyOf(r), FALSE)
<1> DEFINE cfg == Loaded(KeyOf(r), Absent, FALSE, TRUE)
<1>1. Holds(cfg, KeyOf(r), Absent, FALSE)
  BY HoldsAfter
<1>2. KeyOf(r) \in KeyBytes /\ FALSE \in BOOLEAN
  BY DEF KeyOf, KeyBytes
<1> HIDE DEF cfg
<1>3. Holds(postprocessConfig(cfg, Absent), KeyOf(r), KeyOf(r), FALSE)
  BY <1>1, <1>2, PostprocessOf
<1> QED
  BY <1>3 DEF GenerateConfig, cfg

\* ReadFrom of a document that the parser takes.
LEMMA ReadFromIs ==
    ASSUME NEW doc \in Documents, NEW file, NEW r \in Seeds, doc.key # NotHex
    PROVE  LET k == IF doc.key = Absent THEN KeyOf(r) ELSE doc.key
               b == IF doc.path THEN KeyOf(file) ELSE k
               cfg == ReadFrom(doc, file, r)
           IN  /\ \A s \in Seeds : b = KeyOf(s) => Holds(cfg, b, KeyOf(s), doc.path)
               /\ file \in KeyFiles /\ cfg.ok
                    => \E s \in Seeds : b = KeyOf(s) /\ Holds(cfg, b, KeyOf(s), doc.path)
<1> DEFINE k == IF doc.key = Absent THEN KeyOf(r) ELSE doc.key
           b == IF doc.path THEN KeyOf(file) ELSE k
           over == Overlay(GenerateConfig(r), doc)
           cfg == ReadFrom(doc, file, r)
<1>1. k \in KeyBytes /\ doc.path \in BOOLEAN
  BY DEF Documents, KeyOf, KeyBytes
<1>2. Holds(GenerateConfig(r), KeyOf(r), KeyOf(r), FALSE)
  BY GenerateConfigGives
<1>3. over = [GenerateConfig(r) EXCEPT !.key = k, !.path = doc.path,
                                       !.admin = doc.admin \/ GenerateConfig(r).admin]
  BY <1>2 DEF Overlay, Holds
<1> HIDE DEF k
<1>4. Holds(over, k, KeyOf(r), doc.path)
  <2>1. PICK g, y, z : g = GenerateConfig(r) /\ y = doc.path
                         /\ z = (doc.admin \/ GenerateConfig(r).admin)
    OBVIOUS
  <2>2. Holds([g EXCEPT !.key = k, !.path = y, !.admin = z], k, KeyOf(r), y)
    BY <1>2, <2>1, HoldsAfter
  <2> QED
    BY <1>3, <2>1, <2>2
<1> HIDE DEF over
<1>5. cfg = postprocessConfig(over, file)
  BY <1>4 DEF ReadFrom, Holds, over
<1> HIDE DEF cfg
<1>6. /\ \A s \in Seeds : b = KeyOf(s) => Holds(cfg, b, KeyOf(s), doc.path)
      /\ file \in KeyFiles /\ cfg.ok
           => \E s \in Seeds : b = KeyOf(s) /\ Holds(cfg, b, KeyOf(s), doc.path)
  BY <1>1, <1>4, <1>5, PostprocessOf
<1> QED
  BY <1>6 DEF k, cfg

\* For every configuration and every draw of the random source, a node starts with
\* the identity that the command line reports, and no rewriting of the
\* configuration changes it (ReadFrom, -normaliseconf, -genconf, -exportkey).
THEOREM IdentityIsKept ==
    \A doc \in Documents, file \in KeyFiles, r1, r2 \in Seeds :
        ReportsIdentity(doc, file, r1) /\ KeepsIdentity(doc, file, r1, r2)
<1> SUFFICES ASSUME NEW doc \in Documents, NEW file \in KeyFiles,
                    NEW r1 \in Seeds, NEW r2 \in Seeds
             PROVE  ReportsIdentity(doc, file, r1) /\ KeepsIdentity(doc, file, r1, r2)
  OBVIOUS
<1> DEFINE cfg == ReadFrom(doc, file, r1)
           normal == normaliseconf(cfg)
           pathDoc == [key |-> Absent, path |-> TRUE, admin |-> FALSE]
           genDoc == genconf(r1)
<1>1. \A c, s, p : Holds(c, KeyOf(s), KeyOf(s), p)
                     => c.ok /\ StartedKey(c) = s /\ PrintedKey(c) = s /\ exportkey(c) = s
  BY DEF Holds, StartedKey, PrintedKey, exportkey, KeyOf
<1>2. \A s \in Seeds : KeyOf(s) \in KeyBytes /\ KeyOf(s) # Absent /\ KeyOf(s) # NotHex
  BY AbsentAssumption DEF KeyOf, KeyBytes, NotHex
<1>3. Absent # NotHex
  BY AbsentAssumption
<1>4. ASSUME NEW d \in Documents, NEW f, NEW s \in Seeds,
             (d.path /\ f = s /\ d.key = Absent) \/ (~d.path /\ d.key = KeyOf(s))
      PROVE  ReadFrom(d, f, r2).ok /\ StartedKey(ReadFrom(d, f, r2)) = s
  <2>1. d.key # NotHex
    BY <1>2, <1>3, <1>4
  <2>2. KeyOf(s) = IF d.path THEN KeyOf(f) ELSE IF d.key = Absent THEN KeyOf(r2) ELSE d.key
    BY <1>2, <1>4
  <2>3. Holds(ReadFrom(d, f, r2), KeyOf(s), KeyOf(s), d.path)
    BY <2>1, <2>2, ReadFromIs
  <2> QED
    BY <2>3, <1>1
<1>5. StartedKey(ReadFrom(genDoc, file, r2)) = r1
  <2>1. GenerateConfig(r1).key = KeyOf(r1)
    BY GenerateConfigGives DEF Holds
  <2>2. genDoc \in Documents /\ genDoc.path = FALSE /\ genDoc.key = KeyOf(r1)
    BY <2>1, <1>2 DEF genconf, Documents
  <2> HIDE DEF genDoc
  <2> QED
    BY <2>2, <1>4
<1>6. ASSUME cfg.ok
      PROVE  /\ StartedKey(cfg) = PrintedKey(cfg)
             /\ doc.path => StartedKey(cfg) = file
             /\ (~doc.path /\ doc.key # Absent) => KeyOf(StartedKey(cfg)) = doc.key
             /\ ReadFrom(normal, file, r2).ok
             /\ StartedKey(ReadFrom(normal, file, r2)) = StartedKey(cfg)
             /\ ReadFrom(pathDoc, exportkey(cfg), r2).ok
             /\ StartedKey(ReadFrom(pathDoc, exportkey(cfg), r2)) = StartedKey(cfg)
  <2>1. doc.key # NotHex /\ doc.path \in BOOLEAN
    BY <1>6 DEF ReadFrom, Overlay, Error, Documents
  <2> DEFINE k == IF doc.key = Absent THEN KeyOf(r1) ELSE doc.key
             b == IF doc.path THEN KeyOf(file) ELSE k
  <2>2. PICK s \in Seeds : b = KeyOf(s) /\ Holds(cfg, b, KeyOf(s), doc.path)
    BY <1>6, <2>1, ReadFromIs
  <2>3. (doc.path => file = s) /\ ((~doc.path /\ doc.key # Absent) => KeyOf(s) = doc.key)
    BY <2>2 DEF KeyOf
  <2> HIDE DEF b, cfg
  <2>4. StartedKey(cfg) = s /\ PrintedKey(cfg) = s /\ exportkey(cfg) = s
    BY <1>1, <2>2
  <2>5. normal \in Documents /\ normal.path = doc.path
        /\ normal.key = IF doc.path THEN Absent ELSE KeyOf(s)
    BY <1>2, <2>1, <2>2 DEF normaliseconf, Documents, Holds
  <2> HIDE DEF normal
  <2>6. ReadFrom(normal, file, r2).ok /\ StartedKey(ReadFrom(normal, file, r2)) = s
    BY <1>4, <2>1, <2>3, <2>5
  <2>7. pathDoc \in Documents /\ pathDoc.path = TRUE /\ pathDoc.key = Absent
    BY DEF Documents
  <2> HIDE DEF pathDoc
  <2>8. ReadFrom(pathDoc, exportkey(cfg), r2).ok
        /\ StartedKey(ReadFrom(pathDoc, exportkey(cfg), r2)) = s
    BY <1>4, <2>4, <2>7
  <2> QED
    BY <2>3, <2>4, <2>6, <2>8
<1>7. ReportsIdentity(doc, file, r1)
  BY <1>6 DEF ReportsIdentity
<1>8. KeepsIdentity(doc, file, r1, r2)
  BY <1>5, <1>6 DEF KeepsIdentity
<1> QED
  BY <1>7, <1>8

----------------------------------------------------------------------------
(* The orders of peers.                                                    *)

\* A difference of two words with a clear top bit comes out right, although it
\* wraps.
LEMMA DifferenceIs ==
    ASSUME NEW a \in 0 .. HalfWord - 1, NEW b \in 0 .. HalfWord - 1
    PROVE  Difference(a, b) = a - b
<1>1. HalfWord \in Nat /\ HalfWord > 0
  BY WordAssumption
<1>2. PICK m, x \in Int : m = 2 * HalfWord /\ x = a - b
  BY <1>1
<1>3. m \in Nat /\ m > 0 /\ -HalfWord < x /\ x < HalfWord
  BY <1>1, <1>2
<1>4. x >= 0 => x % m = x
  BY <1>1, <1>2, <1>3
<1>5. x < 0 => x % m = x + m
  BY <1>1, <1>2, <1>3
<1>6. Difference(a, b) = IF x % m >= HalfWord THEN (x % m) - m ELSE x % m
  BY <1>2 DEF Difference
<1> QED
  BY <1>1, <1>2, <1>3, <1>4, <1>5, <1>6

\* Seconds that are cut off do not change who is ahead.
LEMMA WholeSecondsIs ==
    ASSUME NEW a \in Nat, NEW b \in Nat
    PROVE  /\ WholeSeconds(a, b) \in Int
           /\ WholeSeconds(a, b) < 0 <=> a + 4 <= b
           /\ WholeSeconds(a, b) > 0 <=> b + 4 <= a
BY DEF WholeSeconds

\* The chain returns the comparison of the first field that differs.
LEMMA FirstOfFour ==
    ASSUME NEW c1, NEW c2, NEW c3, NEW c4
    PROVE  FirstOf(<<c1, c2, c3, c4>>) =
               IF c1.differ THEN c1.d ELSE IF c2.differ THEN c2.d
               ELSE IF c3.differ THEN c3.d ELSE IF c4.differ THEN c4.d ELSE 0
<1> DEFINE chain == <<c1, c2, c3, c4>>
           differ == {i \in DOMAIN chain : chain[i].differ}
           first == CHOOSE i \in differ : \A j \in differ : i <= j
<1>1. DOMAIN chain = 1 .. 4 /\ chain[1] = c1 /\ chain[2] = c2 /\ chain[3] = c3 /\ chain[4] = c4
  OBVIOUS
<1>2. FirstOf(chain) = IF differ = {} THEN 0 ELSE chain[first].d
  BY DEF FirstOf
<1> HIDE DEF chain
<1>3. /\ differ \subseteq 1 .. 4
      /\ 1 \in differ <=> c1.differ
      /\ 2 \in differ <=> c2.differ
      /\ 3 \in differ <=> c3.differ
      /\ 4 \in differ <=> c4.differ
  BY <1>1
<1>4. \A i \in differ : (\A j \in differ : i <= j) => first = i
  <2> HIDE DEF differ
  <2> SUFFICES ASSUME NEW i \in differ, \A j \in differ : i <= j
               PROVE  first = i
    OBVIOUS
  <2>1. first \in differ /\ \A j \in differ : first <= j
    OBVIOUS
  <2> HIDE DEF first
  <2> QED
    BY <2>1, <1>3
<1> HIDE DEF differ, first
<1>5. CASE c1.differ
  <2>1. \A j \in differ : 1 <= j
    BY <1>3
  <2> QED
    BY <1>1, <1>2, <1>3, <1>4, <1>5, <2>1 DEF chain
<1>6. CASE ~c1.differ /\ c2.differ
  <2>1. \A j \in differ : 2 <= j
    BY <1>3, <1>6
  <2> QED
    BY <1>1, <1>2, <1>3, <1>4, <1>6, <2>1 DEF chain
<1>7. CASE ~c1.differ /\ ~c2.differ /\ c3.differ
  <2>1. \A j \in differ : 3 <= j
    BY <1>3, <1>7
  <2> QED
    BY <1>1, <1>2, <1>3, <1>4, <1>7, <2>1 DEF chain
<1>8. CASE ~c1.differ /\ ~c2.differ /\ ~c3.differ /\ c4.differ
  <2>1. \A j \in differ : 4 <= j
    BY <1>3, <1>8
  <2> QED
    BY <1>1, <1>2, <1>3, <1>4, <1>8, <2>1 DEF chain
<1>9. CASE ~c1.differ /\ ~c2.differ /\ ~c3.differ /\ ~c4.differ
  <2>1. differ = {}
    BY <1>3, <1>9
  <2> QED
    BY <1>2, <1>9, <2>1 DEF chain
<1> QED
  BY <1>5, <1>6, <1>7, <1>8, <1>9

\* The fields that the comparisons look at.
LEMMA EntryFields ==
    ASSUME NEW p \in PeerEntry
    PROVE  /\ p.Cost \in 0 .. HalfWord - 1 /\ p.Priority \in 0 .. HalfWord - 1
           /\ p.Uptime \in Nat /\ p.Latency \in Nat /\ p.PublicKey \in Nat
           /\ p.Cost \in Nat /\ p.Priority \in Nat
           /\ p.Up \in BOOLEAN /\ p.Inbound \in BOOLEAN
<1>1. /\ p.Cost \in Costs /\ p.Priority \in Priorities /\ p.Uptime \in Uptimes
      /\ p.Latency \in Latencies /\ p.PublicKey \in PeerKeys
      /\ p.Up \in BOOLEAN /\ p.Inbound \in BOOLEAN
  BY DEF PeerEntry
<1>2. HalfWord \in Nat
  BY WordAssumption
<1>3. p.Cost \in 0 .. HalfWord - 1 /\ p.Priority \in 0 .. HalfWord - 1
  BY <1>1, WordAssumption
<1>4. p.Cost \in Nat /\ p.Priority \in Nat
  BY <1>2, <1>3
<1>5. p.Uptime \in Nat /\ p.Latency \in Nat /\ p.PublicKey \in Nat
  BY <1>1, WordAssumption
<1> QED
  BY <1>1, <1>3, <1>4, <1>5

\* One comparison of a chain: which of two numbers is smaller.
LEMMA Links4 ==
    ASSUME NEW a \in PeerEntry, NEW b \in PeerEntry
    PROVE  /\ ByCost(a, b).differ <=> a.Cost # b.Cost
           /\ ByCost(a, b).d = a.Cost - b.Cost
           /\ ByPriority(a, b).differ <=> a.Priority # b.Priority
           /\ ByPriority(a, b).d = a.Priority - b.Priority
           /\ ByKey(a, b).differ <=> a.PublicKey # b.PublicKey
           /\ ByKey(a, b).d = Compare(a.PublicKey, b.PublicKey)
           /\ ByUptime(a, b).differ <=> a.Uptime # b.Uptime
           /\ ByUptime(a, b).d = WholeSeconds(a.Uptime, b.Uptime)
BY EntryFields, DifferenceIs DEF ByCost, ByPriority, ByKey, ByUptime

\* Who comes first, spelled out.
CostBefore(a, b) ==
    \/ a.Cost < b.Cost
    \/ a.Cost = b.Cost /\ a.PublicKey < b.PublicKey
    \/ a.Cost = b.Cost /\ a.PublicKey = b.PublicKey /\ a.Priority < b.Priority
    \/ a.Cost = b.Cost /\ a.PublicKey = b.PublicKey /\ a.Priority = b.Priority
         /\ a.Uptime + 4 <= b.Uptime

UptimeBefore(a, b) ==
    \/ a.Uptime + 4 <= b.Uptime
    \/ a.Uptime = b.Uptime /\ a.PublicKey < b.PublicKey
    \/ a.Uptime = b.Uptime /\ a.PublicKey = b.PublicKey /\ a.Priority < b.Priority
    \/ a.Uptime = b.Uptime /\ a.PublicKey = b.PublicKey /\ a.Priority = b.Priority
         /\ a.Cost < b.Cost

DefaultBefore(a, b) ==
    \/ ~a.Inbound /\ b.Inbound
    \/ /\ a.Inbound <=> b.Inbound
       /\ \/ a.PublicKey < b.PublicKey
          \/ a.PublicKey = b.PublicKey /\ a.Priority < b.Priority
          \/ a.PublicKey = b.PublicKey /\ a.Priority = b.Priority /\ a.Cost < b.Cost
          \/ a.PublicKey = b.PublicKey /\ a.Priority = b.Priority /\ a.Cost = b.Cost
               /\ a.Uptime + 4 <= b.Uptime

\* Up, with a sample, and faster.
Faster(a, b) ==
    \/ a.Up /\ ~b.Up
    \/ (a.Up <=> b.Up) /\ a.Latency > 0 /\ (b.Latency = 0 \/ a.Latency < b.Latency)

LatencyBefore(a, b) ==
    \/ Faster(a, b)
    \/ (a.Up <=> b.Up) /\ a.Latency = b.Latency /\ CostBefore(a, b)

Before(order, a, b) ==
    CASE order = "uptime"  -> UptimeBefore(a, b)
      [] order = "cost"    -> CostBefore(a, b)
      [] order = "latency" -> LatencyBefore(a, b)
      [] order = "default" -> DefaultBefore(a, b)

\* sortByCost.
LEMMA CostSigns ==
    ASSUME NEW a \in PeerEntry, NEW b \in PeerEntry
    PROVE  /\ sortByCost(a, b) \in Int
           /\ sortByCost(a, b) < 0 <=> CostBefore(a, b)
           /\ sortByCost(a, b) > 0 <=> CostBefore(b, a)
<1> DEFINE k == Compare(a.PublicKey, b.PublicKey)
           u == WholeSeconds(a.Uptime, b.Uptime)
<1>1. sortByCost(a, b) =
        IF a.Cost # b.Cost THEN a.Cost - b.Cost
        ELSE IF a.PublicKey # b.PublicKey THEN k
        ELSE IF a.Priority # b.Priority THEN a.Priority - b.Priority
        ELSE IF a.Uptime # b.Uptime THEN u ELSE 0
  BY FirstOfFour, Links4 DEF sortByCost
<1>2. /\ u \in Int /\ (u < 0 <=> a.Uptime + 4 <= b.Uptime)
      /\ u > 0 <=> b.Uptime + 4 <= a.Uptime
  BY WholeSecondsIs, EntryFields
<1>3. /\ k \in Int /\ (k < 0 <=> a.PublicKey < b.PublicKey)
      /\ k > 0 <=> b.PublicKey < a.PublicKey
  BY EntryFields DEF Compare
<1> HIDE DEF k, u
<1> QED
  BY <1>1, <1>2, <1>3, EntryFields DEF CostBefore

\* sortByUptime.
LEMMA UptimeSigns ==
    ASSUME NEW a \in PeerEntry, NEW b \in PeerEntry
    PROVE  /\ sortByUptime(a, b) \in Int
           /\ sortByUptime(a, b) < 0 <=> UptimeBefore(a, b)
           /\ sortByUptime(a, b) > 0 <=> UptimeBefore(b, a)
<1> DEFINE k == Compare(a.PublicKey, b.PublicKey)
           u == WholeSeconds(a.Uptime, b.Uptime)
<1>1. sortByUptime(a, b) =
        IF a.Uptime # b.Uptime THEN u
        ELSE IF a.PublicKey # b.PublicKey THEN k
        ELSE IF a.Priority # b.Priority THEN a.Priority - b.Priority
        ELSE IF a.Cost # b.Cost THEN a.Cost - b.Cost ELSE 0
  BY FirstOfFour, Links4 DEF sortByUptime
<1>2. /\ u \in Int /\ (u < 0 <=> a.Uptime + 4 <= b.Uptime)
      /\ u > 0 <=> b.Uptime + 4 <= a.Uptime
  BY WholeSecondsIs, EntryFields
<1>3. /\ k \in Int /\ (k < 0 <=> a.PublicKey < b.PublicKey)
      /\ k > 0 <=> b.PublicKey < a.PublicKey
  BY EntryFields DEF Compare
<1> HIDE DEF k, u
<1> QED
  BY <1>1, <1>2, <1>3, EntryFields DEF UptimeBefore

\* sortByDefault.
LEMMA DefaultSigns ==
    ASSUME NEW a \in PeerEntry, NEW b \in PeerEntry
    PROVE  /\ sortByDefault(a, b) \in Int
           /\ sortByDefault(a, b) < 0 <=> DefaultBefore(a, b)
           /\ sortByDefault(a, b) > 0 <=> DefaultBefore(b, a)
<1> DEFINE k == Compare(a.PublicKey, b.PublicKey)
           u == WholeSeconds(a.Uptime, b.Uptime)
           chain == FirstOf(<<ByKey(a, b), ByPriority(a, b), ByCost(a, b), ByUptime(a, b)>>)
<1>1. chain =
        IF a.PublicKey # b.PublicKey THEN k
        ELSE IF a.Priority # b.Priority THEN a.Priority - b.Priority
        ELSE IF a.Cost # b.Cost THEN a.Cost - b.Cost
        ELSE IF a.Uptime # b.Uptime THEN u ELSE 0
  BY FirstOfFour, Links4
<1>2. /\ u \in Int /\ (u < 0 <=> a.Uptime + 4 <= b.Uptime)
      /\ u > 0 <=> b.Uptime + 4 <= a.Uptime
  BY WholeSecondsIs, EntryFields
<1>3. /\ k \in Int /\ (k < 0 <=> a.PublicKey < b.PublicKey)
      /\ k > 0 <=> b.PublicKey < a.PublicKey
  BY EntryFields DEF Compare
<1>4. sortByDefault(a, b) = IF a.Inbound # b.Inbound THEN (IF b.Inbound THEN -1 ELSE 1)
                            ELSE chain
  BY DEF sortByDefault
<1> HIDE DEF k, u, chain
<1>5. CASE a.Inbound # b.Inbound
  BY <1>4, <1>5, EntryFields DEF DefaultBefore
<1>6. CASE a.Inbound = b.Inbound
  BY <1>1, <1>2, <1>3, <1>4, <1>6, EntryFields DEF DefaultBefore
<1> QED
  BY <1>5, <1>6

\* sortByLatency.
LEMMA LatencySigns ==
    ASSUME NEW a \in PeerEntry, NEW b \in PeerEntry
    PROVE  /\ sortByLatency(a, b) \in Int
           /\ sortByLatency(a, b) < 0 <=> LatencyBefore(a, b)
           /\ sortByLatency(a, b) > 0 <=> LatencyBefore(b, a)
<1>1. CASE a.Up # b.Up
  BY <1>1, EntryFields DEF sortByLatency, LatencyBefore, Faster
<1>2. CASE a.Up = b.Up /\ (a.Latency = 0) # (b.Latency = 0)
  BY <1>2, EntryFields DEF sortByLatency, LatencyBefore, Faster
<1>3. CASE a.Up = b.Up /\ (a.Latency = 0) = (b.Latency = 0) /\ a.Latency # b.Latency
  BY <1>3, EntryFields DEF sortByLatency, LatencyBefore, Faster, Compare
<1>4. CASE a.Up = b.Up /\ a.Latency = b.Latency
  <2>1. sortByLatency(a, b) = sortByCost(a, b)
    BY <1>4 DEF sortByLatency
  <2> QED
    BY <1>4, <2>1, CostSigns, EntryFields DEF LatencyBefore, Faster
<1> QED
  BY <1>1, <1>2, <1>3, <1>4

\* The switch of getPeersHandler.
LEMMA SorterSigns ==
    ASSUME NEW order \in Orders, NEW a \in PeerEntry, NEW b \in PeerEntry
    PROVE  /\ Sorter(order, a, b) \in Int
           /\ Sorter(order, a, b) < 0 <=> Before(order, a, b)
           /\ Sorter(order, a, b) > 0 <=> Before(order, b, a)
<1>1. CASE order = "uptime"
  BY <1>1, UptimeSigns DEF Sorter, Before
<1>2. CASE order = "cost"
  BY <1>2, CostSigns DEF Sorter, Before
<1>3. CASE order = "latency"
  BY <1>3, LatencySigns DEF Sorter, Before
<1>4. CASE order = "default"
  BY <1>4, DefaultSigns DEF Sorter, Before
<1> QED
  BY <1>1, <1>2, <1>3, <1>4 DEF Orders

\* "Before" is transitive in each of the orders.
LEMMA BeforeTransitive ==
    ASSUME NEW order \in Orders, NEW a \in PeerEntry, NEW b \in PeerEntry, NEW c \in PeerEntry,
           Before(order, a, b), Before(order, b, c)
    PROVE  Before(order, a, c)
<1>1. CASE order = "uptime"
  BY <1>1, EntryFields DEF Before, UptimeBefore
<1>2. CostBefore(a, b) /\ CostBefore(b, c) => CostBefore(a, c)
  BY EntryFields DEF CostBefore
<1>3. CASE order = "cost"
  BY <1>2, <1>3 DEF Before
<1>4. CASE order = "latency"
  <2>1. Faster(a, b) /\ Faster(b, c) => Faster(a, c)
    BY EntryFields DEF Faster
  <2>2. Faster(a, b) /\ (b.Up <=> c.Up) /\ b.Latency = c.Latency => Faster(a, c)
    BY EntryFields DEF Faster
  <2>3. Faster(b, c) /\ (a.Up <=> b.Up) /\ a.Latency = b.Latency => Faster(a, c)
    BY EntryFields DEF Faster
  <2>4. LatencyBefore(a, b) /\ LatencyBefore(b, c)
    BY <1>4 DEF Before
  <2>5. LatencyBefore(a, c)
    BY <1>2, <2>1, <2>2, <2>3, <2>4 DEF LatencyBefore
  <2> QED
    BY <1>4, <2>5 DEF Before
<1>5. CASE order = "default"
  BY <1>5, EntryFields DEF Before, DefaultBefore
<1> QED
  BY <1>1, <1>3, <1>4, <1>5 DEF Orders

\* Peers that differ in uptime by a second or not at all are equal only if every
\* field that the order looks at is.
LEMMA SameTransitive ==
    ASSUME NEW order \in Orders, NEW a \in PeerEntry, NEW b \in PeerEntry, NEW c \in PeerEntry,
           \A x, y \in {a, b, c} : x.Uptime = y.Uptime \/ WholeSeconds(x.Uptime, y.Uptime) # 0,
           ~Before(order, a, b), ~Before(order, b, a),
           ~Before(order, b, c), ~Before(order, c, b)
    PROVE  ~Before(order, a, c)
<1>1. ASSUME NEW x \in PeerEntry, NEW y \in PeerEntry,
             x.Uptime = y.Uptime \/ WholeSeconds(x.Uptime, y.Uptime) # 0
      PROVE  x.Uptime = y.Uptime \/ x.Uptime + 4 <= y.Uptime \/ y.Uptime + 4 <= x.Uptime
  <2>1. x.Uptime \in Nat /\ y.Uptime \in Nat
    BY EntryFields
  <2>2. PICK w : w = WholeSeconds(x.Uptime, y.Uptime)
    OBVIOUS
  <2>3. /\ w \in Int /\ (w < 0 <=> x.Uptime + 4 <= y.Uptime)
        /\ w > 0 <=> y.Uptime + 4 <= x.Uptime
    BY <2>1, <2>2, WholeSecondsIs
  <2> QED
    BY <1>1, <2>2, <2>3
<1>2. /\ a.Uptime = b.Uptime \/ a.Uptime + 4 <= b.Uptime \/ b.Uptime + 4 <= a.Uptime
      /\ b.Uptime = c.Uptime \/ b.Uptime + 4 <= c.Uptime \/ c.Uptime + 4 <= b.Uptime
      /\ a.Uptime = c.Uptime \/ a.Uptime + 4 <= c.Uptime \/ c.Uptime + 4 <= a.Uptime
  BY <1>1
<1>3. CASE order = "uptime"
  BY <1>2, <1>3, EntryFields DEF Before, UptimeBefore
<1>4. /\ ~CostBefore(a, b) /\ ~CostBefore(b, a) /\ ~CostBefore(b, c) /\ ~CostBefore(c, b)
           => ~CostBefore(a, c)
  BY <1>2, EntryFields DEF CostBefore
<1>5. CASE order = "cost"
  BY <1>4, <1>5 DEF Before
<1>6. CASE order = "latency"
  <2>1. ASSUME NEW x \in PeerEntry, NEW y \in PeerEntry, ~LatencyBefore(x, y), ~LatencyBefore(y, x)
        PROVE  (x.Up <=> y.Up) /\ x.Latency = y.Latency /\ ~CostBefore(x, y) /\ ~CostBefore(y, x)
    BY <2>1, EntryFields DEF LatencyBefore, Faster
  <2>2. /\ ~LatencyBefore(a, b) /\ ~LatencyBefore(b, a)
        /\ ~LatencyBefore(b, c) /\ ~LatencyBefore(c, b)
    BY <1>6 DEF Before
  <2>3. (a.Up <=> c.Up) /\ a.Latency = c.Latency /\ ~CostBefore(a, c)
    BY <1>4, <2>1, <2>2
  <2>4. ~LatencyBefore(a, c)
    BY <2>3, EntryFields DEF LatencyBefore, Faster
  <2> QED
    BY <1>6, <2>4 DEF Before
<1>7. CASE order = "default"
  BY <1>2, <1>7, EntryFields DEF Before, DefaultBefore
<1> QED
  BY <1>3, <1>5, <1>6, <1>7 DEF Orders

\* The comparisons of getPeersHandler order the peers, for every width of the
\* words and all peers: antisymmetric, transitive, and equality transitive for
\* uptimes that seconds tell apart.
THEOREM PeersAreOrdered ==
    \A order \in Orders, a, b, c \in PeerEntry : OrdersPeers(order, a, b, c)
<1> SUFFICES ASSUME NEW order \in Orders,
                    NEW a \in PeerEntry, NEW b \in PeerEntry, NEW c \in PeerEntry
             PROVE  OrdersPeers(order, a, b, c)
  OBVIOUS
<1>1. \A x, y \in PeerEntry : /\ Sorter(order, x, y) \in Int
                              /\ Sorter(order, x, y) < 0 <=> Before(order, x, y)
                              /\ Sorter(order, x, y) > 0 <=> Before(order, y, x)
  BY SorterSigns
<1>2. Sorter(order, a, b) < 0 <=> Sorter(order, b, a) > 0
  BY <1>1
<1>3. Sorter(order, a, b) < 0 /\ Sorter(order, b, c) < 0 => Sorter(order, a, c) < 0
  BY <1>1, BeforeTransitive
<1> DEFINE Apart(x, y) == x.Uptime = y.Uptime \/ WholeSeconds(x.Uptime, y.Uptime) # 0
<1>4. ASSUME Apart(a, b), Apart(b, c), Apart(a, c),
             Sorter(order, a, b) = 0, Sorter(order, b, c) = 0
      PROVE  Sorter(order, a, c) = 0
  <2>1. \A x, y \in PeerEntry : Apart(x, y) => Apart(y, x) /\ Apart(x, x)
    BY WholeSecondsIs, EntryFields
  <2>2. \A x, y \in {a, b, c} : Apart(x, y)
    BY <1>4, <2>1
  <2>3. /\ ~Before(order, a, b) /\ ~Before(order, b, a)
        /\ ~Before(order, b, c) /\ ~Before(order, c, b)
    BY <1>1, <1>4
  <2>4. ~Before(order, a, c)
    BY <2>2, <2>3, SameTransitive
  <2>5. \A x, y \in {c, b, a} : Apart(x, y)
    BY <2>2
  <2>6. ~Before(order, c, a)
    BY <2>5, <2>3, SameTransitive
  <2> QED
    BY <1>1, <2>4, <2>6
<1> QED
  BY <1>2, <1>3, <1>4 DEF OrdersPeers

----------------------------------------------------------------------------
(* Folds over sequences of any length.                                     *)

\* A set of numbers has a least one.
LEMMA LeastNumber ==
    ASSUME NEW S \in SUBSET Nat, S # {}
    PROVE  \E x \in S : \A y \in S : x <= y
<1>1. PICK x \in S : \A y \in S : ~(<<y, x>> \in OpToRel(<, Nat))
  BY NatLessThanWellFounded, WFMin
<1>2. \A y \in S : ~(y < x)
  BY <1>1 DEF OpToRel
<1> QED
  BY <1>2

\* Induction: what holds of 0 and is handed on holds of every number.
LEMMA SetInduction ==
    ASSUME NEW S, 0 \in S, \A n \in Nat : n \in S => n + 1 \in S
    PROVE  Nat \subseteq S
<1> SUFFICES ASSUME Nat \ S # {}
             PROVE  FALSE
  OBVIOUS
<1>1. PICK x \in Nat \ S : \A y \in Nat \ S : x <= y
  BY LeastNumber
<1>2. x - 1 \in S /\ x - 1 \in Nat
  BY <1>1
<1> QED
  BY <1>1, <1>2

\* The largest element of a set that has one.
LEMMA MaxIs ==
    ASSUME NEW S \in SUBSET Nat, NEW x \in S, \A y \in S : y <= x
    PROVE  Max(S) = x
<1>1. \E m \in S : \A y \in S : m >= y
  OBVIOUS
<1>2. Max(S) \in S /\ \A y \in S : Max(S) >= y
  BY <1>1 DEF Max
<1>3. Max(S) \in Nat /\ x \in Nat /\ Max(S) >= x /\ Max(S) <= x
  BY <1>2
<1> QED
  BY <1>3

\* The function that a fold over 1 .. n recurses with, for an operation G on the
\* index and the value so far.
IsFold(f, G, base, n) ==
    f = [s \in SUBSET (1 .. n) |-> IF s = {} THEN base ELSE G[<<Max(s), f[s \ {Max(s)}]>>]]

\* There is one, of the values that G stays among.
LEMMA FoldExists ==
    ASSUME NEW n \in Nat, NEW V, NEW base \in V, NEW G \in [(1 .. n) \X V -> V]
    PROVE  \E f \in [SUBSET (1 .. n) -> V] : IsFold(f, G, base, n)
<1> DEFINE Has(k) == \E f \in [SUBSET (1 .. k) -> V] : IsFold(f, G, base, k)
           S == {k \in Nat : k <= n => Has(k)}
<1>1. Has(0)
  <2> DEFINE f == [s \in SUBSET (1 .. 0) |-> base]
  <2>1. SUBSET (1 .. 0) = {{}}
    OBVIOUS
  <2>2. f \in [SUBSET (1 .. 0) -> V] /\ IsFold(f, G, base, 0)
    BY <2>1 DEF IsFold
  <2> QED
    BY <2>2
<1>2. ASSUME NEW k \in Nat, Has(k), k + 1 <= n
      PROVE  Has(k + 1)
  <2>1. PICK f \in [SUBSET (1 .. k) -> V] : IsFold(f, G, base, k)
    BY <1>2
  <2> DEFINE g == [s \in SUBSET (1 .. k + 1) |->
                     IF k + 1 \in s THEN G[<<k + 1, f[s \ {k + 1}]>>] ELSE f[s]]
  <2>2. \A s \in SUBSET (1 .. k + 1) : k + 1 \notin s => s \in SUBSET (1 .. k)
    OBVIOUS
  <2>3. \A s \in SUBSET (1 .. k + 1) : s \ {k + 1} \in SUBSET (1 .. k)
    OBVIOUS
  <2>4. k + 1 \in 1 .. n /\ k + 1 \in Nat /\ 1 .. k + 1 \subseteq Nat
    BY <1>2
  <2>5. \A s \in SUBSET (1 .. k + 1) : g[s] \in V
    BY <2>2, <2>3, <2>4
  <2>6. g \in [SUBSET (1 .. k + 1) -> V]
    BY <2>5
  <2>7. ASSUME NEW s \in SUBSET (1 .. k + 1)
        PROVE  g[s] = IF s = {} THEN base ELSE G[<<Max(s), g[s \ {Max(s)}]>>]
    <3>1. CASE k + 1 \in s
      <4>1. Max(s) = k + 1
        BY <3>1, <2>4, MaxIs
      <4>2. s \ {k + 1} \in SUBSET (1 .. k + 1) /\ k + 1 \notin s \ {k + 1} /\ s # {}
        BY <3>1
      <4>3. g[s \ {k + 1}] = f[s \ {k + 1}] /\ g[s] = G[<<k + 1, f[s \ {k + 1}]>>]
        BY <3>1, <4>2
      <4> HIDE DEF g
      <4> QED
        BY <4>1, <4>2, <4>3
    <3>2. CASE k + 1 \notin s
      <4>1. s \in SUBSET (1 .. k)
        BY <3>2, <2>2
      <4>2. f[s] = IF s = {} THEN base ELSE G[<<Max(s), f[s \ {Max(s)}]>>]
        BY <4>1, <2>1 DEF IsFold
      <4>3. s \ {Max(s)} \in SUBSET (1 .. k + 1) /\ k + 1 \notin s \ {Max(s)}
        BY <3>2
      <4>4. g[s] = f[s] /\ g[s \ {Max(s)}] = f[s \ {Max(s)}]
        BY <3>2, <4>3
      <4> HIDE DEF g
      <4> QED
        BY <4>2, <4>4
    <3> QED
      BY <3>1, <3>2
  <2> HIDE DEF g
  <2>8. g = [s \in SUBSET (1 .. k + 1) |-> g[s]]
    BY <2>6
  <2>9. g = [s \in SUBSET (1 .. k + 1) |-> IF s = {} THEN base ELSE G[<<Max(s), g[s \ {Max(s)}]>>]]
    BY <2>7, <2>8
  <2>10. IsFold(g, G, base, k + 1)
    BY <2>9 DEF IsFold
  <2> QED
    BY <2>6, <2>10
<1> HIDE DEF Has
<1>3. 0 \in S /\ \A k \in Nat : k \in S => k + 1 \in S
  BY <1>1, <1>2
<1> HIDE DEF S
<1>4. n \in S
  BY <1>3, SetInduction
<1>5. Has(n)
  BY <1>4 DEF S
<1> QED
  BY <1>5 DEF Has

\* A set of indices has a largest one.
LEMMA MaxIndex ==
    ASSUME NEW n \in Nat, NEW s \in SUBSET (1 .. n), s # {}
    PROVE  Max(s) \in s
<1> DEFINE U == {y \in Nat : \A x \in s : x <= y}
<1>1. n \in U
  OBVIOUS
<1>2. PICK u \in U : \A y \in U : u <= y
  BY <1>1, LeastNumber
<1>3. u \in s
  <2> SUFFICES ASSUME u \notin s
               PROVE  FALSE
    OBVIOUS
  <2>1. \A x \in s : x \in Nat /\ x >= 1 /\ x <= u /\ x # u
    BY <1>2
  <2>2. PICK z : z \in s
    OBVIOUS
  <2>3. u \in Nat /\ u >= 1
    BY <1>2, <2>1, <2>2
  <2>4. u - 1 \in U
    BY <2>1, <2>3
  <2> QED
    BY <1>2, <2>3, <2>4
<1>4. Max(s) = u
  BY <1>2, <1>3, MaxIs
<1> QED
  BY <1>3, <1>4

\* The first k indices, as a fold meets them.
LEMMA Segment ==
    ASSUME NEW n \in Nat, NEW k \in 1 .. n
    PROVE  /\ 1 .. k \in SUBSET (1 .. n) /\ 1 .. k # {}
           /\ Max(1 .. k) = k /\ (1 .. k) \ {k} = 1 .. k - 1
<1>1. 1 .. k \in SUBSET (1 .. n) /\ k \in 1 .. k /\ (1 .. k) \ {k} = 1 .. k - 1
      /\ 1 .. k \in SUBSET Nat
  OBVIOUS
<1>2. Max(1 .. k) = k
  BY <1>1, MaxIs
<1> QED
  BY <1>1, <1>2

\* A sequence with one more element.
LEMMA OneMore ==
    ASSUME NEW A, NEW t \in Seq(A), NEW c \in A
    PROVE  /\ t \o <<c>> \in Seq(A) /\ Len(t \o <<c>>) = Len(t) + 1
           /\ \A i \in 1 .. Len(t) : (t \o <<c>>)[i] = t[i]
           /\ (t \o <<c>>)[Len(t) + 1] = c
<1>1. <<c>> \in Seq(A) /\ Len(<<c>>) = 1 /\ <<c>>[1] = c
  OBVIOUS
<1> QED
  BY <1>1, ConcatProperties

\* Two sequences, one behind the other.
LEMMA Joined ==
    ASSUME NEW A, NEW s \in Seq(A), NEW t \in Seq(A)
    PROVE  /\ s \o t \in Seq(A) /\ Len(s \o t) = Len(s) + Len(t)
           /\ \A i \in 1 .. Len(s) : (s \o t)[i] = s[i]
           /\ \A i \in 1 .. Len(t) : (s \o t)[Len(s) + i] = t[i]
<1>1. /\ s \o t \in Seq(A) /\ Len(s \o t) = Len(s) + Len(t)
      /\ \A i \in 1 .. Len(s) + Len(t) :
           (s \o t)[i] = IF i <= Len(s) THEN s[i] ELSE t[i - Len(s)]
  BY ConcatProperties
<1> DEFINE m == Len(s)
           n == Len(t)
<1>2. m \in Nat /\ n \in Nat
  OBVIOUS
<1> HIDE DEF m, n
<1>3. \A i \in 1 .. m : i \in 1 .. m + n /\ i <= m
  BY <1>2
<1>4. \A i \in 1 .. n : m + i \in 1 .. m + n /\ ~(m + i <= m) /\ (m + i) - m = i
  BY <1>2
<1>5. \A i \in 1 .. m : (s \o t)[i] = s[i]
  BY <1>1, <1>3, Zenon DEF m, n
<1>6. \A i \in 1 .. n : (s \o t)[m + i] = t[i]
  <2> TAKE i \in 1 .. n
  <2>1. (s \o t)[m + i] = t[(m + i) - m]
    BY <1>1, <1>4, Zenon DEF m, n
  <2> QED
    BY <1>4, <2>1
<1> QED
  BY <1>1, <1>5, <1>6 DEF m, n

\* A part of a sequence, of length l.
LEMMA Slice ==
    \A A : \A s \in Seq(A) : \A m, n, l \in Nat :
      m >= 1 /\ n <= Len(s) /\ m + l = n + 1 =>
        /\ SubSeq(s, m, n) \in Seq(A) /\ Len(SubSeq(s, m, n)) = l
        /\ \A i \in 1 .. l : SubSeq(s, m, n)[i] = s[m + i - 1]
<1> SUFFICES ASSUME NEW A, NEW s \in Seq(A), NEW m \in Nat, NEW n \in Nat, NEW l \in Nat,
                    m >= 1, n <= Len(s), m + l = n + 1
             PROVE  /\ SubSeq(s, m, n) \in Seq(A) /\ Len(SubSeq(s, m, n)) = l
                    /\ \A i \in 1 .. l : SubSeq(s, m, n)[i] = s[m + i - 1]
  OBVIOUS
<1>1. \A i \in m .. n : s[i] \in A
  <2>1. Len(s) \in Nat /\ \A i \in 1 .. Len(s) : s[i] \in A
    BY ElementOfSeq, LenProperties
  <2>2. \A i \in m .. n : i \in 1 .. Len(s)
    BY <2>1
  <2> QED
    BY <2>1, <2>2
<1>2. m \in Int /\ n \in Int
  OBVIOUS
<1> DEFINE t == SubSeq(s, m, n)
<1>3. /\ t \in Seq(A) /\ Len(t) = IF m <= n THEN n - m + 1 ELSE 0
      /\ \A i \in 1 .. n - m + 1 : t[i] = s[m + i - 1]
  BY <1>1, <1>2, SubSeqProperties
<1> HIDE DEF t
<1>4. n - m + 1 = l /\ (m <= n \/ l = 0)
  OBVIOUS
<1>5. Len(t) = l
  BY <1>3, <1>4
<1>6. \A i \in 1 .. l : t[i] = s[m + i - 1]
  BY <1>3, <1>4
<1> QED
  BY <1>3, <1>5, <1>6 DEF t

----------------------------------------------------------------------------
(* The diagnosis.                                                          *)

Statuses == {"pass", "warning", "failure"}

\* One call of the closure add.
AddStatus(st, c) == IF Severity(c.status) > Severity(st) THEN c.status ELSE st

\* The overall status after each of the checks.
LEMMA OverallSteps ==
    ASSUME NEW n \in Nat, NEW checks, DOMAIN checks = 1 .. n,
           \A i \in 1 .. n : checks[i].status \in Statuses
    PROVE  \E g : /\ g[0] = "pass"
                  /\ \A k \in 1 .. n : g[k] = AddStatus(g[k - 1], checks[k])
                  /\ Overall(checks) = g[n]
<1> DEFINE G == [x \in (1 .. n) \X Statuses |-> AddStatus(x[2], checks[x[1]])]
           Eq(f) == f = [s \in SUBSET (1 .. n) |->
                           IF s = {} THEN "pass" ELSE AddStatus(f[s \ {Max(s)}], checks[Max(s)])]
<1>1. G \in [(1 .. n) \X Statuses -> Statuses]
  BY DEF AddStatus
<1>2. "pass" \in Statuses
  BY DEF Statuses
<1>3. PICK e \in [SUBSET (1 .. n) -> Statuses] : IsFold(e, G, "pass", n)
  <2> HIDE DEF G
  <2> QED
    BY <1>1, <1>2, FoldExists
<1>4. \A s \in SUBSET (1 .. n) : s # {} =>
        G[<<Max(s), e[s \ {Max(s)}]>>] = AddStatus(e[s \ {Max(s)}], checks[Max(s)])
  BY MaxIndex
<1> HIDE DEF G
<1>5. Eq(e)
  BY <1>3, <1>4 DEF IsFold
<1> DEFINE f == CHOOSE f : Eq(f)
<1>6. Eq(f)
  <2> HIDE DEF Eq
  <2> QED
    BY <1>5
<1>7. Overall(checks) = f[1 .. n]
  BY DEF Overall, FoldLeft, MapThenFoldSet, AddStatus
<1> HIDE DEF f
<1>8. f[1 .. 0] = "pass"
  <2>1. 1 .. 0 = {} /\ {} \in SUBSET (1 .. n)
    OBVIOUS
  <2> QED
    BY <1>6, <2>1
<1>9. ASSUME NEW k \in 1 .. n
      PROVE  f[1 .. k] = AddStatus(f[1 .. k - 1], checks[k])
  <2>1. f[1 .. k] = IF 1 .. k = {} THEN "pass"
                    ELSE AddStatus(f[(1 .. k) \ {Max(1 .. k)}], checks[Max(1 .. k)])
    BY <1>6, Segment
  <2> QED
    BY <2>1, Segment
<1> DEFINE g == [k \in 0 .. n |-> f[1 .. k]]
<1>10. g[0] = "pass" /\ g[n] = f[1 .. n]
  BY <1>8
<1>11. \A k \in 1 .. n : g[k] = AddStatus(g[k - 1], checks[k])
  BY <1>9
<1> QED
  BY <1>7, <1>10, <1>11

\* The overall status is that of the worst check, wherever it stands.
LEMMA OverallIsWorst ==
    ASSUME NEW n \in Nat, NEW checks, DOMAIN checks = 1 .. n,
           \A i \in 1 .. n : checks[i].status \in Statuses
    PROVE  Overall(checks) =
             IF \E i \in 1 .. n : checks[i].status = "failure" THEN "failure"
             ELSE IF \E i \in 1 .. n : checks[i].status = "warning" THEN "warning" ELSE "pass"
<1>1. PICK g : /\ g[0] = "pass"
               /\ \A k \in 1 .. n : g[k] = AddStatus(g[k - 1], checks[k])
               /\ Overall(checks) = g[n]
  BY OverallSteps
<1> DEFINE Worst(k) == IF \E i \in 1 .. k : checks[i].status = "failure" THEN "failure"
                       ELSE IF \E i \in 1 .. k : checks[i].status = "warning" THEN "warning"
                       ELSE "pass"
           S == {k \in Nat : k <= n => g[k] = Worst(k)}
<1>2. g[0] = Worst(0)
  BY <1>1
<1>3. ASSUME NEW k \in Nat, k + 1 <= n, g[k] = Worst(k)
      PROVE  g[k + 1] = Worst(k + 1)
  <2>1. k + 1 \in 1 .. n /\ (k + 1) - 1 = k
    BY <1>3
  <2>2. g[k + 1] = AddStatus(g[k], checks[k + 1])
    BY <1>1, <2>1
  <2>3. checks[k + 1].status \in Statuses
    BY <2>1
  <2>4. \A st : (\E i \in 1 .. k + 1 : checks[i].status = st)
                  <=> (\E i \in 1 .. k : checks[i].status = st) \/ checks[k + 1].status = st
    OBVIOUS
  <2>5. Severity("pass") = 0 /\ Severity("warning") = 1 /\ Severity("failure") = 2
    BY DEF Severity
  <2> QED
    BY <1>3, <2>2, <2>3, <2>4, <2>5 DEF AddStatus, Statuses
<1> HIDE DEF Worst
<1>4. 0 \in S /\ \A k \in Nat : k \in S => k + 1 \in S
  BY <1>2, <1>3
<1> HIDE DEF S
<1>5. n \in S
  BY <1>4, SetInduction
<1>6. g[n] = Worst(n)
  BY <1>5 DEF S
<1> QED
  BY <1>1, <1>6 DEF Worst

\* A snapshot with any number of peers and routes.
AnySnapshot ==
    [address: BOOLEAN, endpoint: Endpoints, tunKnown: BOOLEAN, tunEnabled: BOOLEAN,
     peers: Seq([up: BOOLEAN, latency: Nat]), routes: Nat,
     multicastKnown: BOOLEAN, multicastCount: Nat]

\* The checks that evaluateDoctor makes, and their statuses.
LEMMA ChecksMade ==
    ASSUME NEW s \in AnySnapshot
    PROVE  \E n \in {6, 7} :
             /\ DOMAIN Checks(s) = 1 .. n
             /\ Checks(s)[1].status = "pass"
             /\ Checks(s)[2].status = IF s.address THEN "pass" ELSE "failure"
             /\ Checks(s)[3].status = AdminCheck(s).status
             /\ Checks(s)[4].status = TunCheck(s).status
             /\ Checks(s)[5].status = PeersCheck(s).status
             /\ Checks(s)[6].status = RoutingCheck(s).status
             /\ n = 7 => Checks(s)[7].status =
                           IF s.multicastCount = 0 /\ s.peers = <<>> THEN "warning" ELSE "pass"
<1> DEFINE six == <<Check("daemon", "pass"),
                    Check("identity", IF s.address THEN "pass" ELSE "failure"),
                    AdminCheck(s), TunCheck(s), PeersCheck(s), RoutingCheck(s)>>
           more == MulticastChecks(s)
<1>1. six \in Seq({six[1], six[2], six[3], six[4], six[5], six[6]}) /\ Len(six) = 6
  OBVIOUS
<1>2. /\ six[1].status = "pass" /\ six[2].status = IF s.address THEN "pass" ELSE "failure"
      /\ six[3] = AdminCheck(s) /\ six[4] = TunCheck(s) /\ six[5] = PeersCheck(s)
      /\ six[6] = RoutingCheck(s)
  BY DEF Check
<1>3. Checks(s) = six \o more
  BY DEF Checks
<1> HIDE DEF six
<1>4. CASE ~s.multicastKnown
  <2>1. more = <<>>
    BY <1>4 DEF MulticastChecks
  <2>2. Checks(s) = six
    BY <1>1, <1>3, <2>1
  <2>3. DOMAIN six = 1 .. 6
    BY <1>1
  <2> QED
    BY <1>2, <2>2, <2>3
<1>5. CASE s.multicastKnown
  <2> DEFINE c == Check("multicast", IF s.multicastCount = 0 /\ s.peers = <<>>
                                       THEN "warning" ELSE "pass")
  <2>1. more = <<c>>
    BY <1>5 DEF MulticastChecks
  <2>2. c.status = IF s.multicastCount = 0 /\ s.peers = <<>> THEN "warning" ELSE "pass"
    BY DEF Check
  <2> HIDE DEF more, c
  <2> DEFINE A == {six[1], six[2], six[3], six[4], six[5], six[6], c}
  <2>3. six \in Seq(A) /\ c \in A
    BY <1>1
  <2> HIDE DEF A
  <2>4. /\ Len(six \o <<c>>) = 7 /\ six \o <<c>> \in Seq(A)
        /\ \A i \in 1 .. 6 : (six \o <<c>>)[i] = six[i]
        /\ (six \o <<c>>)[7] = c
    <3>1. /\ Len(six \o <<c>>) = Len(six) + 1 /\ six \o <<c>> \in Seq(A)
          /\ \A i \in 1 .. Len(six) : (six \o <<c>>)[i] = six[i]
          /\ (six \o <<c>>)[Len(six) + 1] = c
      BY <2>3, OneMore
    <3>2. Len(six) = 6 /\ Len(six) + 1 = 7
      BY <1>1
    <3> QED
      BY <3>1, <3>2
  <2>5. DOMAIN (six \o <<c>>) = 1 .. 7
    BY <2>4
  <2> QED
    BY <1>2, <1>3, <2>1, <2>2, <2>4, <2>5
<1> QED
  BY <1>4, <1>5 DEF AnySnapshot

\* The exit code means what the guide says, whatever evaluateDoctor finds.
LEMMA ExitCodeAlwaysMeans ==
    ASSUME NEW s \in AnySnapshot
    PROVE  ExitCodeMeans(s)
<1> DEFINE secure == s.address /\ s.endpoint \in {"abstract", "file0600", "loopback"}
           healthy == /\ s.tunKnown /\ s.tunEnabled
                      /\ Connected(s)
                      /\ s.routes > 1
           c == Checks(s)
<1>1. PICK n \in {6, 7} :
             /\ DOMAIN c = 1 .. n
             /\ c[1].status = "pass"
             /\ c[2].status = IF s.address THEN "pass" ELSE "failure"
             /\ c[3].status = AdminCheck(s).status
             /\ c[4].status = TunCheck(s).status
             /\ c[5].status = PeersCheck(s).status
             /\ c[6].status = RoutingCheck(s).status
             /\ n = 7 => c[7].status =
                           IF s.multicastCount = 0 /\ s.peers = <<>> THEN "warning" ELSE "pass"
  BY ChecksMade
<1>2. /\ c[3].status = IF s.endpoint \in {"abstract", "file0600", "loopback"}
                         THEN "pass" ELSE "failure"
      /\ c[4].status = IF s.tunKnown /\ s.tunEnabled THEN "pass" ELSE "warning"
      /\ c[5].status = IF Connected(s) THEN "pass" ELSE "warning"
      /\ c[6].status = IF s.routes > 1 THEN "pass" ELSE "warning"
  BY <1>1 DEF AdminCheck, TunCheck, PeersCheck, RoutingCheck, Check, AnySnapshot
<1>3. s.peers = <<>> => ~Connected(s)
  BY DEF Connected
<1> HIDE DEF c
<1>4. n \in Nat /\ \A i \in 1 .. n : i \in 1 .. 7 /\ c[i].status \in Statuses
  <2>1. \A i \in 1 .. n : i = 1 \/ i = 2 \/ i = 3 \/ i = 4 \/ i = 5 \/ i = 6 \/ (i = 7 /\ n = 7)
    OBVIOUS
  <2> QED
    BY <1>1, <1>2, <2>1 DEF Statuses
<1>5. (\E i \in 1 .. n : c[i].status = "failure") <=> ~secure
  <2>1. \A i \in 1 .. n : i = 1 \/ i = 2 \/ i = 3 \/ i = 4 \/ i = 5 \/ i = 6 \/ (i = 7 /\ n = 7)
    OBVIOUS
  <2> QED
    BY <1>1, <1>2, <2>1
<1>6. (\E i \in 1 .. n : c[i].status = "warning") <=> ~healthy
  <2>1. \A i \in 1 .. n : i = 1 \/ i = 2 \/ i = 3 \/ i = 4 \/ i = 5 \/ i = 6 \/ (i = 7 /\ n = 7)
    OBVIOUS
  <2> QED
    BY <1>1, <1>2, <1>3, <2>1
<1>7. Overall(c) = IF ~secure THEN "failure" ELSE IF ~healthy THEN "warning" ELSE "pass"
  BY <1>1, <1>4, <1>5, <1>6, OverallIsWorst
<1>8. evaluateDoctor(s).status = Overall(c)
  BY DEF evaluateDoctor, c
<1>9. doctorExitCode(evaluateDoctor(s)) = IF ~secure THEN 1 ELSE IF ~healthy THEN 2 ELSE 0
  BY <1>7, <1>8 DEF doctorExitCode
<1> QED
  BY <1>9 DEF ExitCodeMeans

\* What the loop reads of a peer.
LEMMA PeerFields ==
    ASSUME NEW peers \in Seq([up: BOOLEAN, latency: Nat])
    PROVE  /\ Len(peers) \in Nat /\ DOMAIN peers = 1 .. Len(peers)
           /\ \A i \in 1 .. Len(peers) : Micros(peers[i]) \in Nat /\ peers[i].up \in BOOLEAN
<1>1. \A i \in 1 .. Len(peers) : peers[i] \in [up: BOOLEAN, latency: Nat]
  BY ElementOfSeq
<1>2. \A x \in [up: BOOLEAN, latency: Nat] : Micros(x) \in Nat /\ x.up \in BOOLEAN
  <2>1. \A x \in [up: BOOLEAN, latency: Nat] : x.latency \in Nat /\ x.up \in BOOLEAN
    OBVIOUS
  <2>2. Microsecond \in Nat \ {0}
    BY DoctorAssumption
  <2>3. \A l \in Nat : l \div Microsecond \in Nat
    BY <2>2
  <2> QED
    BY <2>1, <2>3 DEF Micros
<1>3. Len(peers) \in Nat /\ DOMAIN peers = 1 .. Len(peers)
  OBVIOUS
<1> QED
  BY <1>1, <1>2, <1>3

\* One round of the loop over the peers.
Better(best, p) ==
    IF p.up /\ Micros(p) > 0 /\ (best = 0 \/ Micros(p) < best) THEN Micros(p) ELSE best

\* The best latency after each of the peers.
LEMMA BestLatencySteps ==
    ASSUME NEW peers \in Seq([up: BOOLEAN, latency: Nat])
    PROVE  \E g : /\ g[0] = 0
                  /\ \A k \in 1 .. Len(peers) : g[k] = Better(g[k - 1], peers[k])
                  /\ BestLatency(peers) = g[Len(peers)]
<1> DEFINE n == Len(peers)
           G == [x \in (1 .. n) \X Nat |-> Better(x[2], peers[x[1]])]
           Eq(f) == f = [s \in SUBSET (1 .. n) |->
                           IF s = {} THEN 0 ELSE Better(f[s \ {Max(s)}], peers[Max(s)])]
<1>1. n \in Nat /\ DOMAIN peers = 1 .. n
      /\ \A i \in 1 .. n : Micros(peers[i]) \in Nat /\ peers[i].up \in BOOLEAN
  BY PeerFields
<1> HIDE DEF n
<1>2. G \in [(1 .. n) \X Nat -> Nat]
  BY <1>1 DEF Better
<1>3. PICK e \in [SUBSET (1 .. n) -> Nat] : IsFold(e, G, 0, n)
  <2> HIDE DEF G
  <2> QED
    BY <1>1, <1>2, FoldExists
<1>4. \A s \in SUBSET (1 .. n) : s # {} =>
        G[<<Max(s), e[s \ {Max(s)}]>>] = Better(e[s \ {Max(s)}], peers[Max(s)])
  BY <1>1, MaxIndex
<1> HIDE DEF G
<1>5. Eq(e)
  BY <1>3, <1>4 DEF IsFold
<1> DEFINE f == CHOOSE f : Eq(f)
<1>6. Eq(f)
  <2> HIDE DEF Eq
  <2> QED
    BY <1>5
<1>7. BestLatency(peers) = f[1 .. n]
  BY <1>1 DEF BestLatency, FoldLeft, MapThenFoldSet, Better
<1> HIDE DEF f
<1>8. f[1 .. 0] = 0
  <2>1. 1 .. 0 = {} /\ {} \in SUBSET (1 .. n)
    OBVIOUS
  <2> QED
    BY <1>6, <2>1
<1>9. ASSUME NEW k \in 1 .. n
      PROVE  f[1 .. k] = Better(f[1 .. k - 1], peers[k])
  <2>1. f[1 .. k] = IF 1 .. k = {} THEN 0
                    ELSE Better(f[(1 .. k) \ {Max(1 .. k)}], peers[Max(1 .. k)])
    BY <1>1, <1>6, Segment
  <2> QED
    BY <1>1, <2>1, Segment
<1> DEFINE g == [k \in 0 .. n |-> f[1 .. k]]
<1>10. g[0] = 0 /\ g[n] = f[1 .. n]
  BY <1>1, <1>8
<1>11. \A k \in 1 .. n : g[k] = Better(g[k - 1], peers[k])
  BY <1>1, <1>9
<1> QED
  BY <1>7, <1>10, <1>11 DEF n

\* The best latency is the least sample of the peers that are up.
LEMMA BestAlwaysMinimum ==
    ASSUME NEW s \in AnySnapshot
    PROVE  BestIsMinimum(s)
<1> DEFINE p == s.peers
           n == Len(p)
           Sampled(i) == p[i].up /\ Micros(p[i]) # 0
           samples == {Micros(p[i]) : i \in {j \in DOMAIN p : p[j].up}} \ {0}
<1>1. p \in Seq([up: BOOLEAN, latency: Nat])
  BY DEF AnySnapshot
<1> HIDE DEF p
<1>2. n \in Nat /\ DOMAIN p = 1 .. n
      /\ \A i \in 1 .. n : Micros(p[i]) \in Nat /\ p[i].up \in BOOLEAN
  BY <1>1, PeerFields
<1>3. PICK g : /\ g[0] = 0
               /\ \A k \in 1 .. n : g[k] = Better(g[k - 1], p[k])
               /\ BestLatency(p) = g[n]
  BY <1>1, BestLatencySteps
<1> HIDE DEF n
<1> DEFINE Best(k, b) ==
             /\ b \in Nat
             /\ b = 0 => \A i \in 1 .. k : ~Sampled(i)
             /\ b # 0 => \E i \in 1 .. k : Sampled(i) /\ Micros(p[i]) = b
             /\ b # 0 => \A i \in 1 .. k : Sampled(i) => b <= Micros(p[i])
           S == {k \in Nat : k <= n => Best(k, g[k])}
<1>4. Best(0, g[0])
  BY <1>3
<1>5. ASSUME NEW k \in Nat, k + 1 <= n, Best(k, g[k])
      PROVE  Best(k + 1, g[k + 1])
  <2>1. k + 1 \in 1 .. n /\ (k + 1) - 1 = k
    BY <1>2, <1>5
  <2>2. g[k + 1] = Better(g[k], p[k + 1])
    BY <1>3, <2>1
  <2>3. Micros(p[k + 1]) \in Nat /\ p[k + 1].up \in BOOLEAN
    BY <1>2, <2>1
  <2>4. \A i \in 1 .. k + 1 : i \in 1 .. k \/ i = k + 1
    OBVIOUS
  <2>5. \A i \in 1 .. k : i \in 1 .. k + 1 /\ Micros(p[i]) \in Nat
    BY <1>2, <1>5
  <2>6. k + 1 \in 1 .. k + 1
    OBVIOUS
  <2>7. CASE Sampled(k + 1) /\ (g[k] = 0 \/ Micros(p[k + 1]) < g[k])
    <3>1. g[k + 1] = Micros(p[k + 1]) /\ g[k + 1] # 0
      BY <2>2, <2>3, <2>7 DEF Better
    <3> QED
      BY <1>5, <2>3, <2>4, <2>5, <2>6, <2>7, <3>1
  <2>8. CASE ~(Sampled(k + 1) /\ (g[k] = 0 \/ Micros(p[k + 1]) < g[k]))
    <3>1. g[k + 1] = g[k]
      BY <2>2, <2>3, <2>8 DEF Better
    <3> QED
      BY <1>5, <2>3, <2>4, <2>5, <2>6, <2>8, <3>1
  <2> QED
    BY <2>7, <2>8
<1> HIDE DEF Best
<1>6. 0 \in S /\ \A k \in Nat : k \in S => k + 1 \in S
  BY <1>2, <1>4, <1>5
<1> HIDE DEF S
<1>7. n \in S
  BY <1>2, <1>6, SetInduction
<1>8. Best(n, g[n])
  BY <1>2, <1>7 DEF S
<1>9. \A x : x \in samples <=> \E i \in 1 .. n : Sampled(i) /\ Micros(p[i]) = x
  BY <1>2
<1>10. samples \in SUBSET Nat
  BY <1>2
<1> HIDE DEF samples, Sampled
<1>11. CASE g[n] = 0
  <2>1. samples = {}
    BY <1>8, <1>9, <1>11 DEF Best
  <2> QED
    BY <1>3, <1>11, <2>1 DEF BestIsMinimum, evaluateDoctor, samples, p
<1>12. CASE g[n] # 0
  <2>1. g[n] \in samples /\ \A y \in samples : g[n] <= y
    BY <1>8, <1>9, <1>12 DEF Best
  <2>2. Min(samples) \in samples /\ \A y \in samples : Min(samples) <= y
    BY <2>1 DEF Min
  <2>3. Min(samples) \in Nat /\ g[n] \in Nat /\ Min(samples) <= g[n] /\ g[n] <= Min(samples)
    BY <1>10, <2>1, <2>2
  <2>4. Min(samples) = g[n]
    BY <2>3
  <2> QED
    BY <1>3, <2>1, <2>4 DEF BestIsMinimum, evaluateDoctor, samples, p
<1> QED
  BY <1>11, <1>12

\* The diagnosis, for any number of peers, latencies and routes: the exit code
\* means what the guide says and the latency is the best one.
THEOREM DiagnosisIsRight == \A s \in AnySnapshot : ExitCodeMeans(s) /\ BestIsMinimum(s)
BY ExitCodeAlwaysMeans, BestAlwaysMinimum

----------------------------------------------------------------------------
(* Sorting.                                                                *)

\* Where InsertPeer puts a peer.
LEMMA InsertedAt ==
    ASSUME NEW order, NEW sorted \in Seq(PeerEntry), NEW p \in PeerEntry
    PROVE  LET list == InsertPeer(order, sorted, p)
               n == Len(sorted)
           IN  \E at \in 0 .. n :
                 /\ list \in Seq(PeerEntry) /\ Len(list) = n + 1
                 /\ \A i \in 1 .. at : list[i] = sorted[i]
                 /\ list[at + 1] = p
                 /\ \A i \in at + 1 .. n : list[i + 1] = sorted[i]
                 /\ \A i \in at + 1 .. n : Sorter(order, p, sorted[i]) < 0
                 /\ at > 0 => ~(Sorter(order, p, sorted[at]) < 0)
<1> DEFINE n == Len(sorted)
           Fits(i) == \A j \in i + 1 .. n : Sorter(order, p, sorted[j]) < 0
           before == {i \in 0 .. n : Fits(i)}
           at == CHOOSE i \in before : \A j \in before : i <= j
           front == SubSeq(sorted, 1, at)
           back == SubSeq(sorted, at + 1, n)
<1>1. n \in Nat /\ \A i \in 1 .. n : sorted[i] \in PeerEntry
  BY ElementOfSeq
<1>2. InsertPeer(order, sorted, p) = front \o <<p>> \o back
  BY DEF InsertPeer
<1> HIDE DEF n
<1>3. n \in before /\ before \in SUBSET Nat
  BY <1>1
<1>4. at \in before /\ \A j \in before : at <= j
  <2> HIDE DEF before
  <2>1. \E i \in before : \A j \in before : i <= j
    BY <1>3, LeastNumber
  <2> QED
    BY <2>1
<1> HIDE DEF at
<1>5. at \in 0 .. n /\ at \in Nat /\ Fits(at)
  BY <1>1, <1>4
<1>6. at > 0 => ~(Sorter(order, p, sorted[at]) < 0)
  <2> SUFFICES ASSUME at > 0, Sorter(order, p, sorted[at]) < 0
               PROVE  FALSE
    OBVIOUS
  <2>1. at - 1 \in 0 .. n /\ \A j \in (at - 1) + 1 .. n : j = at \/ j \in at + 1 .. n
    BY <1>1, <1>5
  <2>2. Fits(at - 1)
    BY <1>5, <2>1
  <2>3. at - 1 \in before
    BY <2>1, <2>2
  <2> QED
    BY <1>4, <1>5, <2>3
<1> HIDE DEF before
<1>7. /\ front \in Seq(PeerEntry) /\ Len(front) = at
      /\ \A i \in 1 .. at : front[i] = sorted[i]
  BY <1>1, <1>5, SubSeqProperties
<1>8. /\ back \in Seq(PeerEntry) /\ Len(back) = n - at
      /\ \A i \in 1 .. n - at : back[i] = sorted[at + i]
  <2>1. /\ back \in Seq(PeerEntry) /\ Len(back) = IF at + 1 <= n THEN n - (at + 1) + 1 ELSE 0
        /\ \A i \in 1 .. n - (at + 1) + 1 : back[i] = sorted[(at + 1) + i - 1]
    BY <1>1, <1>5, SubSeqProperties
  <2>2. n - (at + 1) + 1 = n - at /\ \A i \in 1 .. n - at : (at + 1) + i - 1 = at + i
    BY <1>1, <1>5
  <2> QED
    BY <1>1, <1>5, <2>1, <2>2
<1> HIDE DEF front, back
<1> DEFINE most == front \o <<p>>
           list == most \o back
<1>9. /\ most \in Seq(PeerEntry) /\ Len(most) = at + 1
      /\ \A i \in 1 .. at : most[i] = sorted[i]
      /\ most[at + 1] = p
  BY <1>7, OneMore
<1> HIDE DEF most
<1>10. /\ list \in Seq(PeerEntry) /\ Len(list) = (at + 1) + (n - at)
       /\ \A i \in 1 .. (at + 1) + (n - at) :
            list[i] = IF i <= at + 1 THEN most[i] ELSE back[i - (at + 1)]
  <2>1. /\ list \in Seq(PeerEntry) /\ Len(list) = Len(most) + Len(back)
        /\ \A i \in 1 .. Len(most) + Len(back) :
             list[i] = IF i <= Len(most) THEN most[i] ELSE back[i - Len(most)]
    BY <1>8, <1>9, ConcatProperties, Zenon
  <2> QED
    BY <1>8, <1>9, <2>1, Zenon
<1>11. (at + 1) + (n - at) = n + 1
  BY <1>1, <1>5
<1> HIDE DEF list
<1>12. /\ \A i \in 1 .. at : list[i] = sorted[i]
       /\ list[at + 1] = p
  BY <1>1, <1>5, <1>9, <1>10, <1>11
<1>13. ASSUME NEW i \in at + 1 .. n
       PROVE  list[i + 1] = sorted[i]
  <2>1. /\ i + 1 \in 1 .. n + 1 /\ ~(i + 1 <= at + 1) /\ (i + 1) - (at + 1) = i - at
        /\ i - at \in 1 .. n - at /\ at + (i - at) = i
    BY <1>1, <1>5
  <2> QED
    BY <1>8, <1>10, <1>11, <2>1
<1> QED
  BY <1>2, <1>5, <1>6, <1>10, <1>11, <1>12, <1>13 DEF n, list, most

\* The list after each of the peers.
LEMMA SortSteps ==
    ASSUME NEW order, NEW peers \in Seq(PeerEntry)
    PROVE  \E g \in [0 .. Len(peers) -> Seq(PeerEntry)] :
             /\ g[0] = <<>>
             /\ \A k \in 1 .. Len(peers) : g[k] = InsertPeer(order, g[k - 1], peers[k])
             /\ SortPeers(order, peers) = g[Len(peers)]
<1> DEFINE n == Len(peers)
           V == Seq(PeerEntry)
           G == [x \in (1 .. n) \X V |-> InsertPeer(order, x[2], peers[x[1]])]
           Eq(f) == f = [s \in SUBSET (1 .. n) |->
                           IF s = {} THEN <<>>
                           ELSE InsertPeer(order, f[s \ {Max(s)}], peers[Max(s)])]
<1>1. n \in Nat /\ DOMAIN peers = 1 .. n /\ \A i \in 1 .. n : peers[i] \in PeerEntry
  BY ElementOfSeq
<1> HIDE DEF n
<1>2. <<>> \in V /\ \A t \in V, p \in PeerEntry : InsertPeer(order, t, p) \in V
  BY InsertedAt, EmptySeq
<1> HIDE DEF V
<1>3. G \in [(1 .. n) \X V -> V]
  BY <1>1, <1>2
<1>4. PICK e \in [SUBSET (1 .. n) -> V] : IsFold(e, G, <<>>, n)
  <2> HIDE DEF G
  <2> QED
    BY <1>1, <1>2, <1>3, FoldExists
<1>5. \A s \in SUBSET (1 .. n) : s # {} =>
        G[<<Max(s), e[s \ {Max(s)}]>>] = InsertPeer(order, e[s \ {Max(s)}], peers[Max(s)])
  BY <1>1, MaxIndex
<1> HIDE DEF G
<1>6. Eq(e)
  BY <1>4, <1>5 DEF IsFold
<1> DEFINE f == CHOOSE f : Eq(f)
<1>7. Eq(f)
  <2> HIDE DEF Eq
  <2> QED
    BY <1>6
<1>8. SortPeers(order, peers) = f[1 .. n]
  BY <1>1 DEF SortPeers, FoldLeft, MapThenFoldSet
<1> HIDE DEF f
<1>9. f[1 .. 0] = <<>>
  <2>1. 1 .. 0 = {} /\ {} \in SUBSET (1 .. n)
    OBVIOUS
  <2> QED
    BY <1>7, <2>1
<1>10. ASSUME NEW k \in 1 .. n
       PROVE  f[1 .. k] = InsertPeer(order, f[1 .. k - 1], peers[k])
  <2>1. f[1 .. k] = IF 1 .. k = {} THEN <<>>
                    ELSE InsertPeer(order, f[(1 .. k) \ {Max(1 .. k)}], peers[Max(1 .. k)])
    BY <1>1, <1>7, Segment
  <2> QED
    BY <1>1, <2>1, Segment
<1> HIDE DEF Eq
<1> DEFINE g == [k \in 0 .. n |-> f[1 .. k]]
           S == {k \in Nat : k <= n => g[k] \in V}
<1>11. g[0] = <<>> /\ g[n] = f[1 .. n]
  BY <1>1, <1>9
<1>12. \A k \in 1 .. n : g[k] = InsertPeer(order, g[k - 1], peers[k])
  BY <1>1, <1>10
<1>13. DOMAIN g = 0 .. n /\ g = [k \in 0 .. n |-> g[k]]
  OBVIOUS
<1> HIDE DEF g
<1>14. 0 \in S /\ \A k \in Nat : k \in S => k + 1 \in S
  <2>1. 0 \in S
    BY <1>2, <1>11
  <2>2. ASSUME NEW k \in Nat, k \in S, k + 1 <= n
        PROVE  g[k + 1] \in V
    <3>1. k + 1 \in 1 .. n /\ (k + 1) - 1 = k /\ k <= n
      BY <1>1, <2>2
    <3>2. g[k + 1] = InsertPeer(order, g[k], peers[k + 1])
      BY <1>12, <3>1
    <3> QED
      BY <1>1, <1>2, <2>2, <3>1, <3>2
  <2> QED
    BY <2>1, <2>2
<1> HIDE DEF S
<1>15. Nat \subseteq S
  BY <1>14, SetInduction
<1>16. \A k \in 0 .. n : g[k] \in V
  BY <1>1, <1>15 DEF S
<1>17. g \in [0 .. n -> V]
  BY <1>13, <1>16
<1> QED
  BY <1>8, <1>11, <1>12, <1>17 DEF n, V

\* Faster is a strict order in which incomparable peers are alike, and sorting by
\* latency respects it.
LEMMA FasterIsOrder ==
    ASSUME NEW a \in PeerEntry, NEW b \in PeerEntry, NEW c \in PeerEntry
    PROVE  /\ ~Faster(b, a) /\ ~Faster(c, b) => ~Faster(c, a)
           /\ Sorter("latency", a, b) < 0 => ~Faster(b, a)
           /\ ~(Sorter("latency", a, b) < 0) => ~Faster(a, b)
<1>1. ~Faster(b, a) /\ ~Faster(c, b) => ~Faster(c, a)
  BY EntryFields DEF Faster
<1>2. LatencyBefore(a, b) => ~Faster(b, a)
  BY EntryFields DEF LatencyBefore, Faster
<1>3. Faster(a, b) => LatencyBefore(a, b)
  BY DEF LatencyBefore
<1>4. Sorter("latency", a, b) < 0 <=> LatencyBefore(a, b)
  <2>1. Sorter("latency", a, b) = sortByLatency(a, b)
    BY DEF Sorter
  <2> QED
    BY <2>1, LatencySigns
<1> QED
  BY <1>1, <1>2, <1>3, <1>4

\* Nobody stands behind a slower peer.
Ranked(list) == \A i, j \in 1 .. Len(list) : i < j => ~Faster(list[j], list[i])

\* One more peer keeps the list ranked.
LEMMA InsertKeepsRanked ==
    ASSUME NEW sorted \in Seq(PeerEntry), NEW p \in PeerEntry, Ranked(sorted)
    PROVE  Ranked(InsertPeer("latency", sorted, p))
<1> DEFINE n == Len(sorted)
           list == InsertPeer("latency", sorted, p)
<1>1. PICK at \in 0 .. n :
        /\ Len(list) = n + 1
        /\ \A i \in 1 .. at : list[i] = sorted[i]
        /\ list[at + 1] = p
        /\ \A i \in at + 1 .. n : list[i + 1] = sorted[i]
        /\ \A i \in at + 1 .. n : Sorter("latency", p, sorted[i]) < 0
        /\ at > 0 => ~(Sorter("latency", p, sorted[at]) < 0)
  BY InsertedAt
<1>2. n \in Nat /\ \A i \in 1 .. n : sorted[i] \in PeerEntry
  BY ElementOfSeq
<1>3. \A i, j \in 1 .. n : i < j => ~Faster(sorted[j], sorted[i])
  BY DEF Ranked
<1> HIDE DEF n, list
<1>4. \A i \in at + 1 .. n : ~Faster(sorted[i], p)
  <2> TAKE i \in at + 1 .. n
  <2>1. sorted[i] \in PeerEntry
    BY <1>2
  <2> QED
    BY <1>1, <2>1, FasterIsOrder
<1>5. \A i \in 1 .. at : ~Faster(p, sorted[i])
  <2> TAKE i \in 1 .. at
  <2>1. at \in 1 .. n /\ i \in 1 .. n /\ at > 0 /\ (i < at \/ i = at)
    BY <1>2
  <2>2. sorted[at] \in PeerEntry /\ sorted[i] \in PeerEntry
    BY <1>2, <2>1
  <2>3. ~Faster(p, sorted[at])
    BY <1>1, <2>1, <2>2, FasterIsOrder
  <2>4. i = at \/ ~Faster(sorted[at], sorted[i])
    BY <1>3, <2>1
  <2> QED
    BY <2>2, <2>3, <2>4, FasterIsOrder
<1>6. ASSUME NEW i \in 1 .. n + 1, NEW j \in 1 .. n + 1, i < j
      PROVE  ~Faster(list[j], list[i])
  <2>1. CASE j <= at
    <3>1. i \in 1 .. at /\ j \in 1 .. at /\ i \in 1 .. n /\ j \in 1 .. n
      BY <1>2, <1>6, <2>1
    <3> QED
      BY <1>1, <1>3, <1>6, <3>1
  <2>2. CASE j = at + 1
    <3>1. i \in 1 .. at
      BY <1>2, <1>6, <2>2
    <3> QED
      BY <1>1, <1>5, <2>2, <3>1
  <2>3. CASE j > at + 1 /\ i = at + 1
    <3>1. j - 1 \in at + 1 .. n /\ (j - 1) + 1 = j
      BY <1>2, <2>3
    <3>2. list[j] = sorted[j - 1]
      BY <1>1, <3>1
    <3> QED
      BY <1>1, <1>4, <2>3, <3>1, <3>2
  <2>4. CASE j > at + 1 /\ i < at + 1
    <3>1. j - 1 \in at + 1 .. n /\ (j - 1) + 1 = j /\ i \in 1 .. at
          /\ i \in 1 .. n /\ j - 1 \in 1 .. n /\ i < j - 1
      BY <1>2, <2>4
    <3>2. list[j] = sorted[j - 1]
      BY <1>1, <3>1
    <3> QED
      BY <1>1, <1>3, <3>1, <3>2
  <2>5. CASE i > at + 1
    <3>1. j - 1 \in at + 1 .. n /\ (j - 1) + 1 = j /\ i - 1 \in at + 1 .. n /\ (i - 1) + 1 = i
          /\ i - 1 \in 1 .. n /\ j - 1 \in 1 .. n /\ i - 1 < j - 1
      BY <1>2, <1>6, <2>5
    <3>2. list[j] = sorted[j - 1] /\ list[i] = sorted[i - 1]
      BY <1>1, <3>1
    <3> QED
      BY <1>3, <3>1, <3>2
  <2> QED
    BY <2>1, <2>2, <2>3, <2>4, <2>5, <1>2
<1> QED
  BY <1>1, <1>6 DEF Ranked, list

\* Where a list has a peer.
Places(list, x) == {i \in DOMAIN list : list[i] = x}

\* One more peer is in the list once more, and every other as often as before.
LEMMA InsertCounts ==
    ASSUME NEW order, NEW sorted \in Seq(PeerEntry), NEW p \in PeerEntry, NEW x
    PROVE  /\ IsFiniteSet(Places(sorted, x))
           /\ Cardinality(Places(InsertPeer(order, sorted, p), x))
                = IF p = x THEN Cardinality(Places(sorted, x)) + 1
                  ELSE Cardinality(Places(sorted, x))
<1> DEFINE n == Len(sorted)
           list == InsertPeer(order, sorted, p)
           A == Places(sorted, x)
<1>1. PICK at \in 0 .. n :
        /\ list \in Seq(PeerEntry) /\ Len(list) = n + 1
        /\ \A i \in 1 .. at : list[i] = sorted[i]
        /\ list[at + 1] = p
        /\ \A i \in at + 1 .. n : list[i + 1] = sorted[i]
        /\ \A i \in at + 1 .. n : Sorter(order, p, sorted[i]) < 0
        /\ at > 0 => ~(Sorter(order, p, sorted[at]) < 0)
  BY InsertedAt
<1>2. n \in Nat /\ DOMAIN sorted = 1 .. n /\ DOMAIN list = 1 .. n + 1 /\ at \in Nat
  BY <1>1
<1> HIDE DEF n, list
<1>3. A \in SUBSET (1 .. n) /\ \A i : i \in A <=> i \in 1 .. n /\ sorted[i] = x
  BY <1>2 DEF Places
<1>4. \A i : i \in Places(list, x) <=> i \in 1 .. n + 1 /\ list[i] = x
  BY <1>2 DEF Places
<1>5. IsFiniteSet(A)
  <2>1. IsFiniteSet(1 .. n)
    BY <1>2, FS_Interval
  <2> HIDE DEF A
  <2> QED
    BY <1>3, <2>1, FS_Subset
<1> HIDE DEF A
<1> DEFINE B == Places(list, x) \ {at + 1}
           Moved(i) == IF i <= at THEN i ELSE i + 1
           F == [i \in A |-> Moved(i)]
<1>6. \A i \in A : Moved(i) \in B
  <2> TAKE i \in A
  <2>1. i \in 1 .. n /\ sorted[i] = x
    BY <1>3
  <2>2. CASE i <= at
    <3>1. i \in 1 .. at /\ i \in 1 .. n + 1 /\ i # at + 1
      BY <1>2, <2>1, <2>2
    <3> QED
      BY <1>1, <1>4, <2>1, <2>2, <3>1
  <2>3. CASE ~(i <= at)
    <3>1. i \in at + 1 .. n /\ i + 1 \in 1 .. n + 1 /\ i + 1 # at + 1
      BY <1>2, <2>1, <2>3
    <3> QED
      BY <1>1, <1>4, <2>1, <2>3, <3>1
  <2> QED
    BY <2>2, <2>3
<1>7. \A j \in B : \E i \in A : Moved(i) = j
  <2> TAKE j \in B
  <2>1. j \in 1 .. n + 1 /\ list[j] = x /\ j # at + 1
    BY <1>4
  <2>2. CASE j <= at
    <3>1. j \in 1 .. at /\ j \in 1 .. n
      BY <1>2, <2>1, <2>2
    <3>2. j \in A /\ Moved(j) = j
      BY <1>1, <1>3, <2>1, <2>2, <3>1
    <3> QED
      BY <3>2
  <2>3. CASE ~(j <= at)
    <3>1. j - 1 \in at + 1 .. n /\ j - 1 \in 1 .. n /\ (j - 1) + 1 = j /\ ~(j - 1 <= at)
      BY <1>2, <2>1, <2>3
    <3>2. j - 1 \in A /\ Moved(j - 1) = j
      BY <1>1, <1>3, <2>1, <3>1
    <3> QED
      BY <3>2
  <2> QED
    BY <2>2, <2>3
<1>8. \A i, j \in A : Moved(i) = Moved(j) => i = j
  BY <1>2, <1>3
<1>9. ExistsBijection(A, B)
  <2> HIDE DEF B, Moved
  <2>1. /\ F \in [A -> B] /\ (\A i, j \in A : F[i] = F[j] => i = j)
        /\ \A j \in B : \E i \in A : F[i] = j
    BY <1>6, <1>7, <1>8
  <2> HIDE DEF F
  <2>2. F \in Bijection(A, B)
    BY <2>1, Fun_IsBij
  <2> QED
    BY <2>2, Fun_ExistsBij
<1>10. IsFiniteSet(B) /\ Cardinality(B) = Cardinality(A)
  <2> HIDE DEF B
  <2> QED
    BY <1>5, <1>9, FS_Bijection
<1>11. Cardinality(Places(list, x)) = IF p = x THEN Cardinality(A) + 1 ELSE Cardinality(A)
  <2>1. at + 1 \in Places(list, x) <=> p = x
    BY <1>1, <1>2, <1>4
  <2>2. at + 1 \notin B
    OBVIOUS
  <2>3. CASE p = x
    <3>1. Places(list, x) = B \cup {at + 1}
      BY <2>1, <2>3
    <3> HIDE DEF B
    <3> QED
      BY <1>10, <2>2, <2>3, <3>1, FS_AddElement
  <2>4. CASE p # x
    <3>1. Places(list, x) = B
      BY <2>1, <2>4
    <3> QED
      BY <1>10, <2>4, <3>1
  <2> QED
    BY <2>3, <2>4
<1> QED
  BY <1>5, <1>11 DEF A, list

\* Sorting by latency keeps every peer as often as it came.
LEMMA SortCounts ==
    ASSUME NEW order, NEW peers \in Seq(PeerEntry), NEW x
    PROVE  Cardinality(Places(SortPeers(order, peers), x)) = Cardinality(Places(peers, x))
<1> DEFINE n == Len(peers)
<1>1. PICK g \in [0 .. n -> Seq(PeerEntry)] :
             /\ g[0] = <<>>
             /\ \A k \in 1 .. n : g[k] = InsertPeer(order, g[k - 1], peers[k])
             /\ SortPeers(order, peers) = g[n]
  BY SortSteps
<1>2. n \in Nat /\ DOMAIN peers = 1 .. n /\ \A i \in 1 .. n : peers[i] \in PeerEntry
  BY ElementOfSeq
<1> HIDE DEF n
<1> DEFINE P(k) == {i \in 1 .. k : peers[i] = x}
           Equal(k) == Cardinality(Places(g[k], x)) = Cardinality(P(k))
           S == {k \in Nat : k <= n => Equal(k)}
<1>3. Equal(0)
  <2>1. Places(g[0], x) = {} /\ P(0) = {}
    BY <1>1 DEF Places
  <2> QED
    BY <2>1
<1>4. ASSUME NEW k \in Nat, k + 1 <= n, Equal(k)
      PROVE  Equal(k + 1)
  <2>1. k + 1 \in 1 .. n /\ (k + 1) - 1 = k /\ k \in 0 .. n
    BY <1>2, <1>4
  <2>2. g[k + 1] = InsertPeer(order, g[k], peers[k + 1]) /\ g[k] \in Seq(PeerEntry)
        /\ peers[k + 1] \in PeerEntry
    BY <1>1, <1>2, <2>1
  <2>3. Cardinality(Places(g[k + 1], x))
          = IF peers[k + 1] = x THEN Cardinality(Places(g[k], x)) + 1
            ELSE Cardinality(Places(g[k], x))
    BY <2>2, InsertCounts
  <2>4. IsFiniteSet(P(k)) /\ k + 1 \notin P(k)
    <3>1. IsFiniteSet(1 .. k) /\ P(k) \in SUBSET (1 .. k)
      BY FS_Interval
    <3>2. k + 1 \notin P(k)
      OBVIOUS
    <3> HIDE DEF P
    <3> QED
      BY <3>1, <3>2, FS_Subset
  <2>5. P(k + 1) = IF peers[k + 1] = x THEN P(k) \cup {k + 1} ELSE P(k)
    OBVIOUS
  <2> HIDE DEF P
  <2>6. Cardinality(P(k + 1)) = IF peers[k + 1] = x THEN Cardinality(P(k)) + 1
                                ELSE Cardinality(P(k))
    BY <2>4, <2>5, FS_AddElement
  <2> QED
    BY <1>4, <2>3, <2>6
<1> HIDE DEF Equal
<1>5. 0 \in S /\ \A k \in Nat : k \in S => k + 1 \in S
  BY <1>2, <1>3, <1>4
<1> HIDE DEF S
<1>6. n \in S
  BY <1>2, <1>5, SetInduction
<1>7. Equal(n)
  BY <1>2, <1>6 DEF S
<1>8. P(n) = Places(peers, x)
  BY <1>2 DEF Places
<1> HIDE DEF P
<1> QED
  BY <1>1, <1>7, <1>8 DEF Equal

\* The list by latency is ranked.
LEMMA SortRanks ==
    ASSUME NEW peers \in Seq(PeerEntry)
    PROVE  /\ SortPeers("latency", peers) \in Seq(PeerEntry)
           /\ Ranked(SortPeers("latency", peers))
<1> DEFINE n == Len(peers)
<1>1. PICK g \in [0 .. n -> Seq(PeerEntry)] :
             /\ g[0] = <<>>
             /\ \A k \in 1 .. n : g[k] = InsertPeer("latency", g[k - 1], peers[k])
             /\ SortPeers("latency", peers) = g[n]
  BY SortSteps
<1>2. n \in Nat /\ DOMAIN peers = 1 .. n /\ \A i \in 1 .. n : peers[i] \in PeerEntry
  BY ElementOfSeq
<1> HIDE DEF n
<1> DEFINE S == {k \in Nat : k <= n => Ranked(g[k])}
<1>3. Ranked(g[0])
  <2>1. Len(g[0]) = 0
    BY <1>1
  <2> QED
    BY <2>1 DEF Ranked
<1>4. ASSUME NEW k \in Nat, k + 1 <= n, Ranked(g[k])
      PROVE  Ranked(g[k + 1])
  <2>1. k + 1 \in 1 .. n /\ (k + 1) - 1 = k /\ k \in 0 .. n
    BY <1>2, <1>4
  <2>2. g[k + 1] = InsertPeer("latency", g[k], peers[k + 1]) /\ g[k] \in Seq(PeerEntry)
        /\ peers[k + 1] \in PeerEntry
    BY <1>1, <1>2, <2>1
  <2> QED
    BY <1>4, <2>2, InsertKeepsRanked
<1>5. 0 \in S /\ \A k \in Nat : k \in S => k + 1 \in S
  BY <1>2, <1>3, <1>4
<1> HIDE DEF S
<1>6. n \in S
  BY <1>2, <1>5, SetInduction
<1>7. Ranked(g[n]) /\ g[n] \in Seq(PeerEntry)
  BY <1>1, <1>2, <1>6 DEF S
<1> QED
  BY <1>1, <1>7

\* The list of getPeersHandler by latency, for any number of peers: the ones that
\* are up first, among them the ones with a sample, fastest first; no peer gets
\* lost or listed twice.
THEOREM ListIsSorted == \A peers \in Seq(PeerEntry) : FastestFirst(peers)
<1> SUFFICES ASSUME NEW peers \in Seq(PeerEntry)
             PROVE  FastestFirst(peers)
  OBVIOUS
<1> DEFINE list == SortPeers("latency", peers)
           Worse(p, q) ==
             \/ ~p.Up /\ q.Up
             \/ /\ p.Up = q.Up /\ q.Latency > 0
                /\ p.Latency = 0 \/ p.Latency > q.Latency
<1>1. list \in Seq(PeerEntry) /\ Ranked(list)
  BY SortRanks
<1>2. \A p \in Range(peers) : Cardinality({i \in DOMAIN list : list[i] = p})
                                = Cardinality({i \in DOMAIN peers : peers[i] = p})
  <2> TAKE p \in Range(peers)
  <2>1. Cardinality(Places(list, p)) = Cardinality(Places(peers, p))
    BY SortCounts
  <2> QED
    BY <2>1 DEF Places
<1> HIDE DEF list
<1>3. ASSUME NEW i \in DOMAIN list, NEW j \in DOMAIN list, i < j
      PROVE  ~Worse(list[i], list[j])
  <2>1. i \in 1 .. Len(list) /\ j \in 1 .. Len(list)
    BY <1>1
  <2>2. ~Faster(list[j], list[i])
    BY <1>1, <1>3, <2>1 DEF Ranked
  <2>3. list[i] \in PeerEntry /\ list[j] \in PeerEntry
    BY <1>1, <2>1, ElementOfSeq
  <2>4. \A p, q \in PeerEntry : Worse(p, q) => Faster(q, p)
    BY EntryFields DEF Faster
  <2> HIDE DEF Worse
  <2> QED
    BY <2>2, <2>3, <2>4
<1> QED
  BY <1>2, <1>3 DEF FastestFirst, list

----------------------------------------------------------------------------
(* Bytes.                                                                  *)

Bit == {0, 1}
Bits(n) == [1 .. n -> {0, 1}]

\* The value after each of the bits.
LEMMA ValueSteps ==
    ASSUME NEW n \in Nat, NEW bs \in Bits(n)
    PROVE  \E g \in [0 .. n -> Nat] :
             /\ g[0] = 0
             /\ \A k \in 1 .. n : g[k] = 2 * g[k - 1] + bs[k]
             /\ ByteValue(bs) = g[n]
<1> DEFINE G == [x \in (1 .. n) \X Nat |-> 2 * x[2] + bs[x[1]]]
           Eq(f) == f = [s \in SUBSET (1 .. n) |->
                           IF s = {} THEN 0 ELSE 2 * f[s \ {Max(s)}] + bs[Max(s)]]
<1>1. DOMAIN bs = 1 .. n /\ \A i \in 1 .. n : bs[i] \in Nat
  BY DEF Bits
<1>2. G \in [(1 .. n) \X Nat -> Nat]
  BY <1>1
<1>3. PICK e \in [SUBSET (1 .. n) -> Nat] : IsFold(e, G, 0, n)
  <2> HIDE DEF G
  <2> QED
    BY <1>2, FoldExists
<1>4. \A s \in SUBSET (1 .. n) : s # {} =>
        G[<<Max(s), e[s \ {Max(s)}]>>] = 2 * e[s \ {Max(s)}] + bs[Max(s)]
  BY <1>1, MaxIndex
<1> HIDE DEF G
<1>5. Eq(e)
  BY <1>3, <1>4 DEF IsFold
<1> DEFINE f == CHOOSE f : Eq(f)
<1>6. Eq(f)
  <2> HIDE DEF Eq
  <2> QED
    BY <1>5
<1>7. ByteValue(bs) = f[1 .. n]
  BY <1>1 DEF ByteValue, FoldLeft, MapThenFoldSet
<1> HIDE DEF f
<1>8. f[1 .. 0] = 0
  <2>1. 1 .. 0 = {} /\ {} \in SUBSET (1 .. n)
    OBVIOUS
  <2> QED
    BY <1>6, <2>1
<1>9. ASSUME NEW k \in 1 .. n
      PROVE  f[1 .. k] = 2 * f[1 .. k - 1] + bs[k]
  <2>1. f[1 .. k] = IF 1 .. k = {} THEN 0
                    ELSE 2 * f[(1 .. k) \ {Max(1 .. k)}] + bs[Max(1 .. k)]
    BY <1>6, Segment
  <2> QED
    BY <2>1, Segment
<1> HIDE DEF Eq
<1> DEFINE g == [k \in 0 .. n |-> f[1 .. k]]
           S == {k \in Nat : k <= n => g[k] \in Nat}
<1>10. g[0] = 0 /\ g[n] = f[1 .. n]
  BY <1>8
<1>11. \A k \in 1 .. n : g[k] = 2 * g[k - 1] + bs[k]
  BY <1>9
<1>12. g = [k \in 0 .. n |-> g[k]]
  OBVIOUS
<1> HIDE DEF g
<1>13. 0 \in S /\ \A k \in Nat : k \in S => k + 1 \in S
  <2>1. ASSUME NEW k \in Nat, k \in S, k + 1 <= n
        PROVE  g[k + 1] \in Nat
    <3>1. k + 1 \in 1 .. n /\ (k + 1) - 1 = k /\ k <= n
      BY <2>1
    <3>2. g[k] \in Nat /\ bs[k + 1] \in Nat /\ g[k + 1] = 2 * g[k] + bs[k + 1]
      BY <1>1, <1>11, <2>1, <3>1
    <3> QED
      BY <3>2
  <2> QED
    BY <1>10, <2>1
<1> HIDE DEF S
<1>14. Nat \subseteq S
  BY <1>13, SetInduction
<1>15. g \in [0 .. n -> Nat]
  BY <1>12, <1>14 DEF S
<1> QED
  BY <1>7, <1>10, <1>11, <1>15

\* A value is a number, 0 without bits, and one more bit doubles it.
LEMMA ValueGrows ==
    /\ \A n \in Nat : \A bs \in Bits(n) : ByteValue(bs) \in Nat
    /\ \A bs \in Bits(0) : ByteValue(bs) = 0
    /\ \A n \in Nat : \A bs \in Bits(n + 1), cs \in Bits(n) :
         (\A i \in 1 .. n : cs[i] = bs[i]) => ByteValue(bs) = 2 * ByteValue(cs) + bs[n + 1]
<1>1. \A n \in Nat : \A bs \in Bits(n) : ByteValue(bs) \in Nat
  <2> TAKE n \in Nat
  <2> TAKE bs \in Bits(n)
  <2>1. PICK g \in [0 .. n -> Nat] : ByteValue(bs) = g[n]
    BY ValueSteps
  <2> QED
    BY <2>1
<1>2. \A bs \in Bits(0) : ByteValue(bs) = 0
  <2> TAKE bs \in Bits(0)
  <2>1. PICK g \in [0 .. 0 -> Nat] : g[0] = 0 /\ ByteValue(bs) = g[0]
    BY ValueSteps
  <2> QED
    BY <2>1
<1>3. ASSUME NEW n \in Nat, NEW bs \in Bits(n + 1), NEW cs \in Bits(n),
             \A i \in 1 .. n : cs[i] = bs[i]
      PROVE  ByteValue(bs) = 2 * ByteValue(cs) + bs[n + 1]
  <2>1. PICK g \in [0 .. n + 1 -> Nat] :
             /\ g[0] = 0
             /\ \A k \in 1 .. n + 1 : g[k] = 2 * g[k - 1] + bs[k]
             /\ ByteValue(bs) = g[n + 1]
    <3>1. n + 1 \in Nat
      OBVIOUS
    <3> QED
      BY <3>1, ValueSteps, Zenon
  <2>2. PICK h \in [0 .. n -> Nat] :
             /\ h[0] = 0
             /\ \A k \in 1 .. n : h[k] = 2 * h[k - 1] + cs[k]
             /\ ByteValue(cs) = h[n]
    BY ValueSteps
  <2> DEFINE S == {k \in Nat : k <= n => g[k] = h[k]}
  <2>3. 0 \in S /\ \A k \in Nat : k \in S => k + 1 \in S
    <3>1. ASSUME NEW k \in Nat, k \in S, k + 1 <= n
          PROVE  g[k + 1] = h[k + 1]
      <4>1. k + 1 \in 1 .. n /\ k + 1 \in 1 .. n + 1 /\ (k + 1) - 1 = k /\ k <= n
        BY <3>1
      <4>2. g[k + 1] = 2 * g[k] + bs[k + 1] /\ h[k + 1] = 2 * h[k] + cs[k + 1]
        BY <2>1, <2>2, <4>1
      <4> QED
        BY <1>3, <3>1, <4>1, <4>2
    <3> QED
      BY <2>1, <2>2, <3>1
  <2> HIDE DEF S
  <2>4. n \in S
    BY <2>3, SetInduction
  <2>5. g[n] = h[n]
    BY <2>4 DEF S
  <2>6. n + 1 \in 1 .. n + 1 /\ (n + 1) - 1 = n
    OBVIOUS
  <2>7. g[n + 1] = 2 * g[n] + bs[n + 1]
    BY <2>1, <2>6
  <2> QED
    BY <2>1, <2>2, <2>5, <2>7
<1> QED
  BY <1>1, <1>2, <1>3

\* All ones is the largest value, and every value up to it has its bits.
LEMMA EveryValue ==
    \A n \in Nat : /\ Ones(n) \in Bits(n)
                   /\ \A v \in 0 .. ByteValue(Ones(n)) : \E bs \in Bits(n) : ByteValue(bs) = v
<1> DEFINE Has(n) == \A v \in 0 .. ByteValue(Ones(n)) : \E bs \in Bits(n) : ByteValue(bs) = v
           S == {n \in Nat : Has(n)}
<1>1. \A n \in Nat : Ones(n) \in Bits(n)
  BY DEF Ones, Bits
<1>2. Has(0)
  <2>1. Ones(0) \in Bits(0) /\ ByteValue(Ones(0)) = 0
    BY <1>1, ValueGrows
  <2> QED
    BY <2>1
<1>3. ASSUME NEW n \in Nat, Has(n)
      PROVE  Has(n + 1)
  <2> SUFFICES ASSUME NEW v \in 0 .. ByteValue(Ones(n + 1))
               PROVE  \E bs \in Bits(n + 1) : ByteValue(bs) = v
    OBVIOUS
  <2>1. /\ Ones(n) \in Bits(n) /\ Ones(n + 1) \in Bits(n + 1) /\ n + 1 \in Nat
        /\ Ones(n + 1)[n + 1] = 1 /\ \A i \in 1 .. n : Ones(n)[i] = Ones(n + 1)[i]
    BY <1>1 DEF Ones
  <2>2. /\ ByteValue(Ones(n)) \in Nat /\ ByteValue(Ones(n + 1)) \in Nat
        /\ ByteValue(Ones(n + 1)) = 2 * ByteValue(Ones(n)) + 1
    BY <2>1, ValueGrows
  <2>3. PICK w \in Nat, b \in {0, 1} : v = 2 * w + b
    <3>1. v \in Nat /\ v \div 2 \in Nat /\ v % 2 \in {0, 1} /\ v = 2 * (v \div 2) + (v % 2)
      BY <2>2
    <3> QED
      BY <3>1
  <2>4. w \in 0 .. ByteValue(Ones(n))
    BY <2>2, <2>3
  <2>5. PICK cs \in Bits(n) : ByteValue(cs) = w
    BY <1>3, <2>4
  <2> DEFINE bs == [i \in 1 .. n + 1 |-> IF i <= n THEN cs[i] ELSE b]
  <2>6. bs \in Bits(n + 1) /\ bs[n + 1] = b /\ \A i \in 1 .. n : cs[i] = bs[i]
    BY DEF Bits
  <2> HIDE DEF bs
  <2>7. ByteValue(bs) = 2 * ByteValue(cs) + b
    BY <2>6, ValueGrows
  <2> QED
    BY <2>3, <2>5, <2>6, <2>7
<1> HIDE DEF Has
<1>4. 0 \in S /\ \A n \in Nat : n \in S => n + 1 \in S
  BY <1>2, <1>3
<1> HIDE DEF S
<1>5. \A n \in Nat : n \in S
  BY <1>4, SetInduction
<1>6. \A n \in Nat : Has(n)
  BY <1>5 DEF S
<1> QED
  BY <1>1, <1>6 DEF Has

\* What is used of the sizes: a key has an even number of bits, and two bytes fit
\* into a subnet, which fits into an address.
LEMMA SizesAre ==
    /\ Byte \in Nat /\ Byte > 1
    /\ KeyBits \in Nat /\ KeyBits > 1
    /\ KeyBits = (KeyBits \div 2) + (KeyBits \div 2)
    /\ KeyBits \div 2 \in Nat
    /\ SubnetBits \in Nat /\ AddressBits \in Nat
    /\ 2 * Byte <= SubnetBits /\ SubnetBits <= AddressBits
<1>1. Byte \in Nat /\ Byte > 1 /\ AddressBytes \in Nat /\ SubnetBytes \in 2 .. AddressBytes
  BY BytesAssumption
<1>2. PICK k \in Nat : Byte = k + 1
  <2>1. Byte - 1 \in Nat /\ Byte = (Byte - 1) + 1
    BY <1>1
  <2> QED
    BY <2>1
<1>3. /\ Ones(k) \in Bits(k) /\ Ones(k + 1) \in Bits(k + 1)
      /\ Ones(k + 1)[k + 1] = 1 /\ \A i \in 1 .. k : Ones(k)[i] = Ones(k + 1)[i]
  BY EveryValue DEF Ones
<1>4. PICK w \in Nat : ByteValue(Ones(k + 1)) = 2 * w + 1
  BY <1>3, ValueGrows
<1>5. KeyBits = 2 * w + 2
  BY <1>2, <1>4 DEF KeyBits
<1>6. /\ KeyBits \in Nat /\ KeyBits > 1
      /\ KeyBits = (KeyBits \div 2) + (KeyBits \div 2)
      /\ KeyBits \div 2 \in Nat
  BY <1>5
<1>7. PICK x, y \in Nat : SubnetBytes = 2 + x /\ AddressBytes = 2 + x + y
  <2>1. SubnetBytes - 2 \in Nat /\ AddressBytes - SubnetBytes \in Nat
        /\ SubnetBytes = 2 + (SubnetBytes - 2)
        /\ AddressBytes = 2 + (SubnetBytes - 2) + (AddressBytes - SubnetBytes)
    BY <1>1
  <2> QED
    BY <2>1
<1>8. PICK bx, by \in Nat : bx = Byte * x /\ by = Byte * y
  BY <1>1, <1>7
<1>9. SubnetBits = 2 * Byte + bx /\ AddressBits = 2 * Byte + bx + by
  <2>1. Byte * (2 + x) = 2 * Byte + Byte * x
    BY <1>1
  <2>2. Byte * (2 + x + y) = 2 * Byte + Byte * x + Byte * y
    BY <1>1
  <2> QED
    BY <1>7, <1>8, <2>1, <2>2 DEF SubnetBits, AddressBits
<1> QED
  BY <1>1, <1>6, <1>8, <1>9

\* The bits of a byte have its value.
LEMMA BitsOfByte ==
    ASSUME NEW v \in 0 .. KeyBits - 1
    PROVE  ByteBits[v] \in Bits(Byte) /\ ByteValue(ByteBits[v]) = v
<1>1. v \in 0 .. ByteValue(Ones(Byte))
  <2>1. Ones(Byte) \in Bits(Byte) /\ ByteValue(Ones(Byte)) \in Nat
    BY SizesAre, EveryValue, ValueGrows
  <2> QED
    BY <2>1 DEF KeyBits
<1>2. \E bs \in Bits(Byte) : ByteValue(bs) = v
  BY <1>1, SizesAre, EveryValue
<1>3. ByteBits[v] = CHOOSE bs \in Bits(Byte) : ByteValue(bs) = v
  BY DEF ByteBits, Bits
<1> QED
  BY <1>2, <1>3

----------------------------------------------------------------------------
(* The loop of AddrForKey.                                                 *)

ScanState == [done: BOOLEAN, ones: Nat, bits: Seq(Bit), temp: Seq(Bit)]
ScanStart == [done |-> FALSE, ones |-> 0, bits |-> <<>>, temp |-> <<>>]

\* A counter that wraps.
LEMMA WrapsAt ==
    ASSUME NEW a \in Nat, NEW m \in Nat, m > 0
    PROVE  /\ a % m \in Nat
           /\ a < m => a % m = a
           /\ a = m => a % m = 0
OBVIOUS

\* A round while the bits are ones.
LEMMA ScanOne ==
    ASSUME NEW st \in ScanState, ~st.done
    PROVE  /\ ScanBit(st, 1) \in ScanState
           /\ ~ScanBit(st, 1).done
           /\ ScanBit(st, 1).ones = (st.ones + 1) % KeyBits
           /\ ScanBit(st, 1).bits = st.bits /\ ScanBit(st, 1).temp = st.temp
<1>1. ScanBit(st, 1) = [st EXCEPT !.ones = (st.ones + 1) % KeyBits]
  BY DEF ScanBit
<1>2. (st.ones + 1) % KeyBits \in Nat
  <2>1. st.ones + 1 \in Nat /\ KeyBits \in Nat /\ KeyBits > 0
    BY SizesAre DEF ScanState
  <2> QED
    BY <2>1, WrapsAt
<1> QED
  BY <1>1, <1>2 DEF ScanState

\* The round of the first zero.
LEMMA ScanZero ==
    ASSUME NEW st \in ScanState, ~st.done
    PROVE  /\ ScanBit(st, 0) \in ScanState
           /\ ScanBit(st, 0).done
           /\ ScanBit(st, 0).ones = st.ones
           /\ ScanBit(st, 0).bits = st.bits /\ ScanBit(st, 0).temp = st.temp
<1>1. ScanBit(st, 0) = [st EXCEPT !.done = TRUE]
  BY DEF ScanBit
<1>2. [st EXCEPT !.done = TRUE] \in ScanState
  BY DEF ScanState
<1>3. [st EXCEPT !.done = TRUE].done = TRUE
  BY DEF ScanState
<1>4. /\ [st EXCEPT !.done = TRUE].ones = st.ones
      /\ [st EXCEPT !.done = TRUE].bits = st.bits
      /\ [st EXCEPT !.done = TRUE].temp = st.temp
  BY DEF ScanState
<1> QED
  BY <1>1, <1>2, <1>3, <1>4, Zenon

\* A round behind it.
LEMMA ScanRest ==
    ASSUME NEW st \in ScanState, st.done, NEW bit \in {0, 1}
    PROVE  /\ ScanBit(st, bit) \in ScanState
           /\ ScanBit(st, bit).done
           /\ ScanBit(st, bit).ones = st.ones
           /\ ScanBit(st, bit).bits =
                IF Len(st.bits) = Byte - 1 THEN <<>> ELSE Append(st.bits, bit)
           /\ ScanBit(st, bit).temp =
                IF Len(st.bits) = Byte - 1 THEN st.temp \o Append(st.bits, bit) ELSE st.temp
<1> DEFINE full == Len(st.bits) = Byte - 1
           bits == IF full THEN <<>> ELSE Append(st.bits, bit)
           temp == IF full THEN st.temp \o Append(st.bits, bit) ELSE st.temp
<1>1. ScanBit(st, bit) = [st EXCEPT !.bits = bits, !.temp = temp]
  BY DEF ScanBit
<1>2. bits \in Seq(Bit) /\ temp \in Seq(Bit)
  <2>1. st.bits \in Seq(Bit) /\ st.temp \in Seq(Bit)
    BY DEF ScanState
  <2>2. Append(st.bits, bit) \in Seq(Bit)
    BY <2>1 DEF Bit
  <2>3. st.temp \o Append(st.bits, bit) \in Seq(Bit) /\ <<>> \in Seq(Bit)
    BY <2>1, <2>2, ConcatProperties, EmptySeq
  <2> QED
    BY <2>1, <2>2, <2>3
<1> HIDE DEF bits, temp
<1>3. /\ [st EXCEPT !.bits = bits, !.temp = temp] \in ScanState
      /\ [st EXCEPT !.bits = bits, !.temp = temp].done = st.done
      /\ [st EXCEPT !.bits = bits, !.temp = temp].ones = st.ones
      /\ [st EXCEPT !.bits = bits, !.temp = temp].bits = bits
      /\ [st EXCEPT !.bits = bits, !.temp = temp].temp = temp
  BY <1>2 DEF ScanState
<1> QED
  BY <1>1, <1>3, Zenon DEF bits, temp

\* The variables after each of the bits.
Scans(g, inv, n) ==
    /\ g \in [0 .. n -> ScanState]
    /\ g[0] = ScanStart
    /\ \A k \in 1 .. n : g[k] = ScanBit(g[k - 1], inv[k])

\* AddrForKey goes through them.
LEMMA ScanSteps ==
    ASSUME NEW n \in Nat, NEW inv \in Bits(n)
    PROVE  \E g : Scans(g, inv, n) /\ FoldLeft(ScanBit, ScanStart, inv) = g[n]
<1> DEFINE G == [x \in (1 .. n) \X ScanState |-> ScanBit(x[2], inv[x[1]])]
           Eq(f) == f = [s \in SUBSET (1 .. n) |->
                           IF s = {} THEN ScanStart ELSE ScanBit(f[s \ {Max(s)}], inv[Max(s)])]
<1>1. DOMAIN inv = 1 .. n /\ \A i \in 1 .. n : inv[i] \in {0, 1}
  BY DEF Bits
<1>2. /\ ScanStart \in ScanState
      /\ \A st \in ScanState, bit \in {0, 1} : ScanBit(st, bit) \in ScanState
  <2>1. ScanStart \in ScanState
    BY EmptySeq DEF ScanStart, ScanState
  <2>2. ASSUME NEW st \in ScanState, NEW bit \in {0, 1}
        PROVE  ScanBit(st, bit) \in ScanState
    <3>1. CASE st.done
      BY <3>1, ScanRest
    <3>2. CASE ~st.done /\ bit = 1
      BY <3>2, ScanOne
    <3>3. CASE ~st.done /\ bit = 0
      BY <3>3, ScanZero
    <3> QED
      BY <3>1, <3>2, <3>3
  <2> QED
    BY <2>1, <2>2
<1>3. G \in [(1 .. n) \X ScanState -> ScanState]
  BY <1>1, <1>2
<1>4. PICK e \in [SUBSET (1 .. n) -> ScanState] : IsFold(e, G, ScanStart, n)
  <2> HIDE DEF G
  <2> QED
    BY <1>2, <1>3, FoldExists
<1>5. \A s \in SUBSET (1 .. n) : s # {} =>
        G[<<Max(s), e[s \ {Max(s)}]>>] = ScanBit(e[s \ {Max(s)}], inv[Max(s)])
  BY <1>1, MaxIndex
<1> HIDE DEF G
<1>6. Eq(e)
  BY <1>4, <1>5 DEF IsFold
<1> DEFINE f == CHOOSE f : Eq(f)
<1>7. Eq(f)
  <2> HIDE DEF Eq
  <2> QED
    BY <1>6
<1>8. FoldLeft(ScanBit, ScanStart, inv) = f[1 .. n]
  BY <1>1 DEF FoldLeft, MapThenFoldSet
<1> HIDE DEF f
<1>9. f[1 .. 0] = ScanStart
  <2>1. 1 .. 0 = {} /\ {} \in SUBSET (1 .. n)
    OBVIOUS
  <2> QED
    BY <1>7, <2>1
<1>10. ASSUME NEW k \in 1 .. n
       PROVE  f[1 .. k] = ScanBit(f[1 .. k - 1], inv[k])
  <2>1. f[1 .. k] = IF 1 .. k = {} THEN ScanStart
                    ELSE ScanBit(f[(1 .. k) \ {Max(1 .. k)}], inv[Max(1 .. k)])
    BY <1>7, Segment
  <2> QED
    BY <2>1, Segment
<1> HIDE DEF Eq
<1> DEFINE g == [k \in 0 .. n |-> f[1 .. k]]
           S == {k \in Nat : k <= n => g[k] \in ScanState}
<1>11. g[0] = ScanStart /\ g[n] = f[1 .. n]
  BY <1>9
<1>12. \A k \in 1 .. n : g[k] = ScanBit(g[k - 1], inv[k])
  BY <1>10
<1>13. g = [k \in 0 .. n |-> g[k]]
  OBVIOUS
<1> HIDE DEF g
<1>14. 0 \in S /\ \A k \in Nat : k \in S => k + 1 \in S
  <2>1. ASSUME NEW k \in Nat, k \in S, k + 1 <= n
        PROVE  g[k + 1] \in ScanState
    <3>1. k + 1 \in 1 .. n /\ (k + 1) - 1 = k /\ k <= n
      BY <2>1
    <3>2. g[k] \in ScanState /\ inv[k + 1] \in {0, 1} /\ g[k + 1] = ScanBit(g[k], inv[k + 1])
      BY <1>1, <1>12, <2>1, <3>1
    <3> QED
      BY <1>2, <3>2
  <2> QED
    BY <1>2, <1>11, <2>1
<1> HIDE DEF S
<1>15. Nat \subseteq S
  BY <1>14, SetInduction
<1>16. g \in [0 .. n -> ScanState]
  BY <1>13, <1>15 DEF S
<1> QED
  BY <1>8, <1>11, <1>12, <1>16 DEF Scans

\* While the bits are ones they are counted, in a byte.
LEMMA CountsOnes ==
    ASSUME NEW n \in Nat, NEW inv, NEW g, Scans(g, inv, n),
           NEW m \in 0 .. n, m <= KeyBits, \A i \in 1 .. m : inv[i] = 1
    PROVE  /\ ~g[m].done /\ g[m].bits = <<>> /\ g[m].temp = <<>>
           /\ g[m].ones = IF m = KeyBits THEN 0 ELSE m
<1> DEFINE At(k) == /\ ~g[k].done /\ g[k].bits = <<>> /\ g[k].temp = <<>>
                    /\ g[k].ones = IF k = KeyBits THEN 0 ELSE k
           S == {k \in Nat : k <= m => At(k)}
<1>1. KeyBits \in Nat /\ KeyBits > 1
  BY SizesAre
<1>2. At(0)
  BY <1>1 DEF ScanStart, Scans
<1>3. ASSUME NEW k \in Nat, k + 1 <= m, At(k)
      PROVE  At(k + 1)
  <2>1. k + 1 \in 1 .. n /\ k + 1 \in 1 .. m /\ (k + 1) - 1 = k /\ k \in 0 .. n /\ k < KeyBits
    BY <1>1, <1>3
  <2>2. g[k + 1] = ScanBit(g[k], 1) /\ g[k] \in ScanState
    <3>1. g[k + 1] = ScanBit(g[(k + 1) - 1], inv[k + 1]) /\ g[k] \in ScanState
      BY <2>1 DEF Scans
    <3> QED
      BY <2>1, <3>1
  <2>3. /\ ~g[k + 1].done /\ g[k + 1].ones = (g[k].ones + 1) % KeyBits
        /\ g[k + 1].bits = g[k].bits /\ g[k + 1].temp = g[k].temp
    BY <1>3, <2>2, ScanOne
  <2>4. g[k].ones = k
    BY <1>1, <1>3, <2>1
  <2>5. (k + 1) % KeyBits = IF k + 1 = KeyBits THEN 0 ELSE k + 1
    BY <1>1, <2>1, WrapsAt
  <2> QED
    BY <1>3, <2>3, <2>4, <2>5
<1> HIDE DEF At
<1>4. 0 \in S /\ \A k \in Nat : k \in S => k + 1 \in S
  BY <1>2, <1>3
<1> HIDE DEF S
<1>5. m \in S /\ m \in Nat
  BY <1>4, SetInduction
<1>6. At(m)
  BY <1>5 DEF S
<1> QED
  BY <1>6 DEF At

\* The bits behind the first zero, whole bytes of them in temp.
Scanned(inv, n, k, st) ==
    /\ st.done /\ st.ones = n
    /\ \E q \in Nat : Len(st.temp) = Byte * q
    /\ Len(st.bits) < Byte
    /\ Len(st.temp) + Len(st.bits) = k - n - 1
    /\ \A j \in 1 .. Len(st.temp) : st.temp[j] = inv[n + 1 + j]
    /\ \A j \in 1 .. Len(st.bits) : st.bits[j] = inv[n + 1 + Len(st.temp) + j]

\* One round behind the first zero.
LEMMA CollectsBit ==
    ASSUME NEW st \in ScanState, NEW inv, NEW n \in Nat, NEW k \in Nat, k >= n + 1,
           inv[k + 1] \in {0, 1}, Scanned(inv, n, k, st)
    PROVE  Scanned(inv, n, k + 1, ScanBit(st, inv[k + 1]))
<1> DEFINE bit == inv[k + 1]
           r == ScanBit(st, bit)
           T == Len(st.temp)
           U == Len(st.bits)
           full == U = Byte - 1
           more == Append(st.bits, bit)
<1>1. /\ st.bits \in Seq(Bit) /\ st.temp \in Seq(Bit) /\ bit \in {0, 1}
      /\ st.done /\ st.ones = n /\ U < Byte
      /\ T + U = k - n - 1
      /\ T \in Nat /\ U \in Nat
  BY DEF ScanState, Scanned
<1>2. /\ r.done /\ r.ones = n
      /\ full => r.bits = <<>> /\ r.temp = st.temp \o more
      /\ ~full => r.bits = more /\ r.temp = st.temp
  <2>1. /\ r.done /\ r.ones = st.ones
        /\ r.bits = IF full THEN <<>> ELSE more
        /\ r.temp = IF full THEN st.temp \o more ELSE st.temp
    BY <1>1, ScanRest, Zenon
  <2> QED
    BY <1>1, <2>1
<1>3. /\ more \in Seq(Bit) /\ Len(more) = U + 1
      /\ \A j \in 1 .. U : more[j] = st.bits[j]
      /\ more[U + 1] = bit
  BY <1>1 DEF Bit
<1>4. \A j \in 1 .. U + 1 : more[j] = inv[n + 1 + T + j]
  <2> TAKE j \in 1 .. U + 1
  <2>1. j \in 1 .. U \/ j = U + 1
    BY <1>1
  <2>2. n + 1 + T + (U + 1) = k + 1
    <3> HIDE DEF T, U
    <3> QED
      BY <1>1
  <2>3. \A i \in 1 .. U : st.bits[i] = inv[n + 1 + T + i]
    BY DEF Scanned
  <2> QED
    BY <1>3, <2>1, <2>2, <2>3
<1>5. \A j \in 1 .. T : st.temp[j] = inv[n + 1 + j]
  BY DEF Scanned
<1>6. PICK q \in Nat : T = Byte * q
  BY DEF Scanned
<1>9. Byte \in Nat /\ Byte > 1
  BY SizesAre
<1> HIDE DEF bit, r, more, T, U
<1>7. CASE full
  <2>1. /\ Len(st.temp \o more) = T + Len(more)
        /\ \A j \in 1 .. T : (st.temp \o more)[j] = st.temp[j]
        /\ \A j \in 1 .. Len(more) : (st.temp \o more)[T + j] = more[j]
    <3>1. \A s, t \in Seq(Bit) :
            /\ Len(s \o t) = Len(s) + Len(t)
            /\ \A i \in 1 .. Len(s) : (s \o t)[i] = s[i]
            /\ \A i \in 1 .. Len(t) : (s \o t)[Len(s) + i] = t[i]
      BY Joined
    <3>2. st.temp \in Seq(Bit) /\ more \in Seq(Bit)
      BY <1>1, <1>3
    <3> QED
      BY <3>1, <3>2, Zenon DEF T
  <2>2. Len(more) = Byte /\ U + 1 = Byte
    BY <1>1, <1>3, <1>7, <1>9
  <2>3. \A j \in 1 .. T + Byte : (st.temp \o more)[j] = inv[n + 1 + j]
    <3> TAKE j \in 1 .. T + Byte
    <3>1. CASE j <= T
      <4>1. j \in 1 .. T
        BY <1>1, <3>1
      <4> QED
        BY <1>5, <2>1, <4>1
    <3>2. CASE ~(j <= T)
      <4>1. j - T \in 1 .. U + 1 /\ n + 1 + T + (j - T) = n + 1 + j /\ T + (j - T) = j
        BY <1>1, <1>9, <2>2, <3>2
      <4>2. (st.temp \o more)[j] = more[j - T]
        BY <2>1, <2>2, <4>1
      <4> QED
        BY <1>4, <4>1, <4>2
    <3> QED
      BY <3>1, <3>2
  <2>4. r.temp = st.temp \o more /\ Len(r.temp) = T + Byte /\ r.bits = <<>> /\ Len(r.bits) = 0
    BY <1>2, <1>7, <2>1, <2>2
  <2>5. T + Byte = Byte * (q + 1) /\ q + 1 \in Nat
    BY <1>6, <1>9
  <2>6. \E x \in Nat : Len(r.temp) = Byte * x
    BY <2>4, <2>5
  <2>7. Len(r.temp) + Len(r.bits) = (k + 1) - n - 1 /\ Len(r.bits) < Byte
    <3>1. (T + Byte) + 0 = (k + 1) - n - 1 /\ 0 < Byte
      BY <1>1, <1>9, <2>2
    <3> QED
      BY <2>4, <3>1, Zenon
  <2>8. \A j \in 1 .. Len(r.bits) : r.bits[j] = inv[n + 1 + Len(r.temp) + j]
    BY <2>4
  <2> QED
    BY <1>2, <2>3, <2>4, <2>6, <2>7, <2>8 DEF Scanned, r, bit
<1>8. CASE ~full
  <2>1. r.temp = st.temp /\ r.bits = more /\ Len(r.bits) = U + 1 /\ Len(r.temp) = T
    BY <1>2, <1>3, <1>8 DEF T
  <2>2. T + (U + 1) = (k + 1) - n - 1 /\ U + 1 < Byte
    BY <1>1, <1>8, <1>9
  <2>3. /\ \A j \in 1 .. Len(r.bits) : r.bits[j] = inv[n + 1 + Len(r.temp) + j]
        /\ \A j \in 1 .. Len(r.temp) : r.temp[j] = inv[n + 1 + j]
        /\ \E x \in Nat : Len(r.temp) = Byte * x
        /\ Len(r.temp) + Len(r.bits) = (k + 1) - n - 1 /\ Len(r.bits) < Byte
    BY <1>4, <1>5, <1>6, <2>1, <2>2, Zenon
  <2> QED
    BY <1>2, <2>3 DEF Scanned, r, bit
<1> QED
  BY <1>7, <1>8

\* The end of the loop, for a key whose inverse has a zero behind n ones.
LEMMA EndOfScan ==
    ASSUME NEW inv \in Bits(KeyBits), NEW n \in 0 .. KeyBits - 1,
           \A i \in 1 .. n : inv[i] = 1, inv[n + 1] = 0
    PROVE  /\ FoldLeft(ScanBit, ScanStart, inv) \in ScanState
           /\ Scanned(inv, n, KeyBits, FoldLeft(ScanBit, ScanStart, inv))
<1> DEFINE N == KeyBits
<1>1. N \in Nat /\ N > 1 /\ n \in Nat /\ n + 1 \in 1 .. N /\ n \in 0 .. N
      /\ n + 1 \in 0 .. N /\ n <= N /\ n # N
  BY SizesAre
<1>2. PICK g : Scans(g, inv, N) /\ FoldLeft(ScanBit, ScanStart, inv) = g[N]
  BY <1>1, ScanSteps
<1> HIDE DEF N
<1>3. \A k \in 0 .. N : g[k] \in ScanState
  BY <1>2 DEF Scans
<1>4. /\ ~g[n].done /\ g[n].bits = <<>> /\ g[n].temp = <<>>
      /\ g[n].ones = n
  BY <1>1, <1>2, CountsOnes DEF N
<1>5. g[n + 1] = ScanBit(g[n], 0)
  <2>1. g[n + 1] = ScanBit(g[(n + 1) - 1], inv[n + 1])
    BY <1>1, <1>2 DEF Scans
  <2> QED
    BY <1>1, <2>1
<1>6. /\ g[n + 1].done /\ g[n + 1].ones = n
      /\ g[n + 1].bits = <<>> /\ g[n + 1].temp = <<>>
  BY <1>1, <1>3, <1>4, <1>5, ScanZero
<1> DEFINE At(k) == Scanned(inv, n, k, g[k])
           S == {k \in Nat : k >= n + 1 /\ k <= N => At(k)}
<1>7. At(n + 1)
  <2>1. /\ Len(g[n + 1].bits) = 0 /\ Len(g[n + 1].temp) = 0
    BY <1>6
  <2>2. /\ 0 = Byte * 0 /\ 0 < Byte /\ 0 + 0 = (n + 1) - n - 1
    BY <1>1, SizesAre
  <2>3. \E q \in Nat : Len(g[n + 1].temp) = Byte * q
    BY <2>1, <2>2
  <2> QED
    BY <1>6, <2>1, <2>2, <2>3 DEF Scanned
<1>8. ASSUME NEW k \in Nat, k >= n + 1, k + 1 <= N, At(k)
      PROVE  At(k + 1)
  <2>1. k + 1 \in 1 .. N /\ (k + 1) - 1 = k /\ k \in 0 .. N
    BY <1>1, <1>8
  <2>2. inv[k + 1] \in {0, 1}
    BY <2>1 DEF Bits, N
  <2>3. g[k + 1] = ScanBit(g[k], inv[k + 1])
    <3>1. g[k + 1] = ScanBit(g[(k + 1) - 1], inv[k + 1])
      BY <1>2, <2>1 DEF Scans
    <3> QED
      BY <2>1, <3>1
  <2>4. g[k] \in ScanState
    BY <1>3, <2>1
  <2> QED
    BY <1>1, <1>8, <2>2, <2>3, <2>4, CollectsBit
<1> HIDE DEF At
<1>9. 0 \in S /\ \A k \in Nat : k \in S => k + 1 \in S
  <2>1. 0 \in S
    BY <1>1
  <2>2. ASSUME NEW k \in Nat, k \in S, k + 1 >= n + 1, k + 1 <= N
        PROVE  At(k + 1)
    <3>1. CASE k = n
      BY <1>7, <3>1
    <3>2. CASE k # n
      <4>1. k >= n + 1 /\ k <= N
        BY <1>1, <2>2, <3>2
      <4> QED
        BY <1>8, <2>2, <4>1
    <3> QED
      BY <3>1, <3>2
  <2> QED
    BY <2>1, <2>2
<1> HIDE DEF S
<1>10. N \in S
  BY <1>1, <1>9, SetInduction
<1>11. At(N) /\ g[N] \in ScanState
  BY <1>1, <1>3, <1>10 DEF S
<1> QED
  BY <1>2, <1>11 DEF At, N

\* The end of the loop for the key of zeros: the counter has wrapped.
LEMMA EndOfOnes ==
    ASSUME NEW inv \in Bits(KeyBits), \A i \in 1 .. KeyBits : inv[i] = 1
    PROVE  /\ FoldLeft(ScanBit, ScanStart, inv).ones = 0
           /\ FoldLeft(ScanBit, ScanStart, inv).temp = <<>>
<1>1. KeyBits \in Nat /\ KeyBits \in 0 .. KeyBits /\ KeyBits <= KeyBits
  BY SizesAre
<1>2. PICK g : Scans(g, inv, KeyBits) /\ FoldLeft(ScanBit, ScanStart, inv) = g[KeyBits]
  BY <1>1, ScanSteps
<1>3. g[KeyBits].ones = 0 /\ g[KeyBits].temp = <<>>
  BY <1>1, <1>2, CountsOnes
<1> QED
  BY <1>2, <1>3

\* A quotient is what its multiple says.
LEMMA Quotient ==
    ASSUME NEW r \in Nat, NEW b \in Nat, b > 0, NEW q \in Nat, b * q <= r, r < b * q + b
    PROVE  r \div b = q
<1>1. PICK x \in Nat : x = r - b * q /\ x < b
  <2>1. b * q \in Nat
    OBVIOUS
  <2> QED
    BY <2>1
<1> QED
  OBVIOUS

\* The bits behind the ones and the zero that fill bytes.
Whole(n) == Byte * ((KeyBits - n - 1) \div Byte)

\* At the end temp holds them.
LEMMA TempIs ==
    ASSUME NEW inv \in Bits(KeyBits), NEW n \in 0 .. KeyBits - 1, NEW st \in ScanState,
           Scanned(inv, n, KeyBits, st)
    PROVE  /\ st.temp \in Seq(Bit) /\ Len(st.temp) = Whole(n)
           /\ Whole(n) \in Nat /\ Whole(n) <= KeyBits - n - 1
           /\ \A j \in 1 .. Whole(n) : st.temp[j] = inv[n + 1 + j]
<1>1. Byte \in Nat /\ Byte > 1 /\ KeyBits \in Nat
  BY SizesAre
<1>2. st.temp \in Seq(Bit) /\ Len(st.temp) \in Nat /\ Len(st.bits) \in Nat
  BY DEF ScanState
<1>3. PICK q \in Nat : Len(st.temp) = Byte * q
  BY DEF Scanned
<1>4. PICK t, u, r \in Nat : t = Len(st.temp) /\ u = Len(st.bits) /\ r = KeyBits - n - 1
  BY <1>1, <1>2
<1>5. t = Byte * q /\ t + u = r /\ u < Byte
  BY <1>3, <1>4 DEF Scanned
<1>6. t <= r /\ r < t + Byte
  BY <1>1, <1>5
<1>7. r \div Byte = q
  BY <1>1, <1>5, <1>6, Quotient
<1>8. Whole(n) = t
  BY <1>4, <1>5, <1>7 DEF Whole
<1>9. \A j \in 1 .. t : st.temp[j] = inv[n + 1 + j]
  BY <1>4 DEF Scanned
<1> QED
  BY <1>2, <1>4, <1>6, <1>8, <1>9

----------------------------------------------------------------------------
(* Addresses and partial keys, bit by bit.                                 *)

\* Bits of a length are sequences.
LEMMA BitSequences ==
    /\ \A n \in Nat : \A bs \in Bits(n) : bs \in Seq(Bit) /\ Len(bs) = n /\ DOMAIN bs = 1 .. n
    /\ \A bs \in Seq(Bit) : bs \in Bits(Len(bs)) /\ Len(bs) \in Nat
<1>1. ASSUME NEW n \in Nat, NEW bs \in Bits(n)
      PROVE  bs \in Seq(Bit) /\ Len(bs) = n /\ DOMAIN bs = 1 .. n
  BY DEF Bits, Bit
<1>2. ASSUME NEW bs \in Seq(Bit)
      PROVE  bs \in Bits(Len(bs)) /\ Len(bs) \in Nat
  <2>1. Len(bs) \in Nat /\ bs \in [1 .. Len(bs) -> Bit]
    BY LenProperties
  <2> QED
    BY <2>1 DEF Bits, Bit
<1> QED
  BY <1>1, <1>2

\* Two sequences of bits, one behind the other.
LEMMA JoinedBits ==
    \A s, t \in Seq(Bit) :
      /\ s \o t \in Seq(Bit) /\ Len(s \o t) = Len(s) + Len(t)
      /\ \A i \in 1 .. Len(s) : (s \o t)[i] = s[i]
      /\ \A i \in 1 .. Len(t) : (s \o t)[Len(s) + i] = t[i]
BY Joined

\* A part of a sequence of bits.
LEMMA BitSlice ==
    \A s \in Seq(Bit) : \A m, n, l \in Nat :
      m >= 1 /\ n <= Len(s) /\ m + l = n + 1 =>
        /\ SubSeq(s, m, n) \in Seq(Bit) /\ Len(SubSeq(s, m, n)) = l
        /\ \A i \in 1 .. l : SubSeq(s, m, n)[i] = s[m + i - 1]
BY Slice

\* Bits that agree everywhere are the same.
LEMMA SameBits ==
    ASSUME NEW n \in Nat, NEW a \in Bits(n), NEW b \in Bits(n), \A i \in 1 .. n : a[i] = b[i]
    PROVE  a = b
BY DEF Bits

\* copy() of bits, zeros behind them.
LEMMA CopyIntoIs ==
    ASSUME NEW bs \in Seq(Bit), NEW n \in Nat
    PROVE  /\ CopyInto(bs, n) \in Bits(n)
           /\ \A i \in 1 .. n : CopyInto(bs, n)[i] = IF i <= Len(bs) THEN bs[i] ELSE 0
<1> DEFINE m == Len(bs)
<1>1. m \in Nat
  OBVIOUS
<1>2. CASE m < n
  <2> DEFINE z == Zeros(n - m)
  <2>1. n - m \in Nat
    BY <1>1, <1>2
  <2>2. z \in Bits(n - m) /\ \A i \in 1 .. n - m : z[i] = 0
    BY <2>1 DEF Zeros, Bits
  <2>3. z \in Seq(Bit) /\ Len(z) = n - m
    BY <2>1, <2>2, BitSequences
  <2>4. CopyInto(bs, n) = bs \o z
    BY <1>2 DEF CopyInto
  <2> HIDE DEF z
  <2>5. /\ bs \o z \in Seq(Bit) /\ Len(bs \o z) = m + Len(z)
        /\ \A i \in 1 .. m : (bs \o z)[i] = bs[i]
        /\ \A i \in 1 .. Len(z) : (bs \o z)[m + i] = z[i]
    BY <2>3, Joined
  <2> HIDE DEF m
  <2>6. m + Len(z) = n
    BY <1>1, <2>3
  <2>7. bs \o z \in Bits(n)
    <3>1. bs \o z \in Bits(Len(bs \o z))
      BY <2>5, BitSequences
    <3> QED
      BY <2>5, <2>6, <3>1
  <2>8. ASSUME NEW i \in 1 .. n
        PROVE  (bs \o z)[i] = IF i <= m THEN bs[i] ELSE 0
    <3>1. CASE i <= m
      <4>1. i \in 1 .. m
        BY <1>1, <3>1
      <4> QED
        BY <2>5, <3>1, <4>1
    <3>2. CASE ~(i <= m)
      <4>1. i - m \in 1 .. n - m /\ m + (i - m) = i
        BY <1>1, <3>2
      <4>2. (bs \o z)[m + (i - m)] = z[i - m]
        BY <2>3, <2>5, <4>1
      <4> QED
        BY <2>2, <3>2, <4>1, <4>2
    <3> QED
      BY <3>1, <3>2
  <2> QED
    BY <2>4, <2>7, <2>8 DEF m
<1>3. CASE ~(m < n)
  <2>1. CopyInto(bs, n) = SubSeq(bs, 1, n)
    BY <1>3 DEF CopyInto
  <2>2. 1 \in Nat /\ 1 >= 1 /\ n <= Len(bs) /\ 1 + n = n + 1 /\ \A i \in 1 .. n : 1 + i - 1 = i
    BY <1>1, <1>3
  <2>3. /\ SubSeq(bs, 1, n) \in Seq(Bit) /\ Len(SubSeq(bs, 1, n)) = n
        /\ \A i \in 1 .. n : SubSeq(bs, 1, n)[i] = bs[1 + i - 1]
    BY <2>2, BitSlice
  <2>4. SubSeq(bs, 1, n) \in Bits(n)
    BY <2>3, BitSequences
  <2>5. \A i \in 1 .. n : i <= m
    BY <1>1, <1>3
  <2> QED
    BY <2>1, <2>2, <2>3, <2>4, <2>5
<1> QED
  BY <1>1, <1>2, <1>3

\* The two prefixes, which differ in the last bit.
LEMMA PrefixesAre ==
    /\ GetPrefix \in Bits(Byte) /\ SubnetPrefix \in Bits(Byte)
    /\ GetPrefix # SubnetPrefix
<1> DEFINE z == Zeros(Byte - 2)
<1>1. Byte \in Nat /\ Byte > 1 /\ Byte - 2 \in Nat
  BY SizesAre
<1>2. z \in Bits(Byte - 2)
  BY <1>1 DEF Zeros, Bits
<1>3. z \in Seq(Bit) /\ Len(z) = Byte - 2
  BY <1>1, <1>2, BitSequences
<1>4. /\ <<1, 0>> \in Seq(Bit) /\ Len(<<1, 0>>) = 2 /\ <<1, 0>>[2] = 0
      /\ <<1, 1>> \in Seq(Bit) /\ Len(<<1, 1>>) = 2 /\ <<1, 1>>[2] = 1
  BY DEF Bit
<1>5. ASSUME NEW e \in Seq(Bit), Len(e) = 2
      PROVE  z \o e \in Bits(Byte) /\ (z \o e)[Byte] = e[2]
  <2> HIDE DEF z
  <2>1. /\ z \o e \in Seq(Bit) /\ Len(z \o e) = Len(z) + Len(e)
        /\ \A i \in 1 .. Len(e) : (z \o e)[Len(z) + i] = e[i]
    <3>1. z \in Seq(Bit)
      BY <1>3
    <3> QED
      BY <3>1, JoinedBits, Zenon
  <2>2. Len(z) + Len(e) = Byte /\ Len(z) + 2 = Byte /\ 2 \in 1 .. Len(e)
    BY <1>1, <1>3, <1>5
  <2>3. z \o e \in Bits(Len(z \o e))
    BY <2>1, BitSequences
  <2> QED
    BY <2>1, <2>2, <2>3
<1> HIDE DEF z
<1> DEFINE x == z \o <<1, 0>>
           y == z \o <<1, 1>>
<1>6. x \in Bits(Byte) /\ x[Byte] = 0 /\ y \in Bits(Byte) /\ y[Byte] = 1
  BY <1>4, <1>5
<1> HIDE DEF x, y
<1>7. x # y
  BY <1>6
<1> QED
  BY <1>6, <1>7 DEF GetPrefix, SubnetPrefix, x, y, z

\* How many bits of an address follow the prefix and the counter.
Room == AddressBits - 2 * Byte

\* An address, of its parts.
AddressOf(prefix, n, body) ==
    [i \in 1 .. AddressBits |->
       IF i <= Byte THEN prefix[i]
       ELSE IF i <= 2 * Byte THEN ByteBits[n][i - Byte]
       ELSE body[i - 2 * Byte]]

\* The parts of an address.
LEMMA PartsOfAddress ==
    ASSUME NEW prefix \in Bits(Byte), NEW n \in 0 .. KeyBits - 1, NEW body \in Bits(Room)
    PROVE  LET a == AddressOf(prefix, n, body)
           IN  /\ a \in Bits(AddressBits)
               /\ \A i \in 1 .. Byte : a[i] = prefix[i]
               /\ \A i \in 1 .. Byte : a[Byte + i] = ByteBits[n][i]
               /\ \A i \in 1 .. Room : a[2 * Byte + i] = body[i]
<1> DEFINE a == AddressOf(prefix, n, body)
<1>1. Byte \in Nat /\ Byte > 1 /\ AddressBits \in Nat /\ 2 * Byte <= AddressBits
  BY SizesAre
<1>2. Room \in Nat /\ AddressBits = 2 * Byte + Room
  BY <1>1 DEF Room
<1>3. ByteBits[n] \in Bits(Byte)
  BY BitsOfByte
<1>4. ASSUME NEW i \in 1 .. AddressBits
      PROVE  a[i] \in {0, 1}
  <2>1. a[i] = IF i <= Byte THEN prefix[i]
               ELSE IF i <= 2 * Byte THEN ByteBits[n][i - Byte] ELSE body[i - 2 * Byte]
    BY DEF AddressOf
  <2>2. CASE i <= Byte
    <3>1. i \in 1 .. Byte
      BY <1>1, <2>2
    <3> QED
      BY <2>1, <2>2, <3>1 DEF Bits
  <2>3. CASE ~(i <= Byte) /\ i <= 2 * Byte
    <3>1. i - Byte \in 1 .. Byte
      BY <1>1, <2>3
    <3> QED
      BY <1>3, <2>1, <2>3, <3>1 DEF Bits
  <2>4. CASE ~(i <= Byte) /\ ~(i <= 2 * Byte)
    <3>1. i - 2 * Byte \in 1 .. Room
      BY <1>1, <1>2, <2>4
    <3> QED
      BY <2>1, <2>4, <3>1 DEF Bits
  <2> QED
    BY <2>2, <2>3, <2>4
<1>5. a \in Bits(AddressBits)
  <2>1. a = [i \in 1 .. AddressBits |-> a[i]]
    BY DEF AddressOf
  <2> HIDE DEF a
  <2> QED
    BY <1>4, <2>1 DEF Bits
<1>6. \A i \in 1 .. Byte : a[i] = prefix[i]
  <2> TAKE i \in 1 .. Byte
  <2>1. i \in 1 .. AddressBits /\ i <= Byte
    BY <1>1
  <2> QED
    BY <2>1 DEF AddressOf
<1>7. \A i \in 1 .. Byte : a[Byte + i] = ByteBits[n][i]
  <2> TAKE i \in 1 .. Byte
  <2>1. /\ Byte + i \in 1 .. AddressBits /\ ~(Byte + i <= Byte) /\ Byte + i <= 2 * Byte
        /\ (Byte + i) - Byte = i
    BY <1>1
  <2>2. a[Byte + i] = ByteBits[n][(Byte + i) - Byte]
    BY <2>1 DEF AddressOf
  <2> QED
    BY <2>1, <2>2
<1>8. \A i \in 1 .. Room : a[2 * Byte + i] = body[i]
  <2> TAKE i \in 1 .. Room
  <2>1. /\ 2 * Byte + i \in 1 .. AddressBits /\ ~(2 * Byte + i <= Byte)
        /\ ~(2 * Byte + i <= 2 * Byte) /\ (2 * Byte + i) - 2 * Byte = i
    BY <1>1, <1>2
  <2>2. a[2 * Byte + i] = body[(2 * Byte + i) - 2 * Byte]
    BY <2>1 DEF AddressOf
  <2> QED
    BY <2>1, <2>2
<1> QED
  BY <1>5, <1>6, <1>7, <1>8

\* Bits with these parts are that address.
LEMMA AddressHasParts ==
    ASSUME NEW prefix \in Bits(Byte), NEW n \in 0 .. KeyBits - 1, NEW body \in Bits(Room),
           NEW a \in Bits(AddressBits),
           \A i \in 1 .. Byte : a[i] = prefix[i],
           \A i \in 1 .. Byte : a[Byte + i] = ByteBits[n][i],
           \A i \in 1 .. Room : a[2 * Byte + i] = body[i]
    PROVE  a = AddressOf(prefix, n, body)
<1> DEFINE b == AddressOf(prefix, n, body)
<1>1. Byte \in Nat /\ Byte > 1 /\ AddressBits \in Nat /\ 2 * Byte <= AddressBits
  BY SizesAre
<1>2. Room \in Nat /\ AddressBits = 2 * Byte + Room
  BY <1>1 DEF Room
<1>3. /\ b \in Bits(AddressBits)
      /\ \A i \in 1 .. Byte : b[i] = prefix[i]
      /\ \A i \in 1 .. Byte : b[Byte + i] = ByteBits[n][i]
      /\ \A i \in 1 .. Room : b[2 * Byte + i] = body[i]
  BY PartsOfAddress
<1> HIDE DEF b
<1>4. ASSUME NEW i \in 1 .. AddressBits
      PROVE  a[i] = b[i]
  <2>1. \/ i \in 1 .. Byte
        \/ i - Byte \in 1 .. Byte /\ Byte + (i - Byte) = i
        \/ i - 2 * Byte \in 1 .. Room /\ 2 * Byte + (i - 2 * Byte) = i
    BY <1>1, <1>2
  <2> QED
    BY <1>3, <2>1
<1>5. a = b
  BY <1>1, <1>3, <1>4, SameBits
<1> QED
  BY <1>5 DEF b

\* What follows the counter when temp holds t.
Body(t) == [i \in 1 .. Room |-> IF i <= Len(t) THEN t[i] ELSE 0]

\* The address that AddrForKey puts together.
LEMMA Assembled ==
    ASSUME NEW prefix \in Bits(Byte), NEW n \in 0 .. KeyBits - 1, NEW t \in Seq(Bit)
    PROVE  /\ CopyInto(prefix \o ByteBits[n] \o t, AddressBits) = AddressOf(prefix, n, Body(t))
           /\ Body(t) \in Bits(Room)
<1> DEFINE B == ByteBits[n]
           front == prefix \o B
           w == front \o t
           T == Len(t)
           a == CopyInto(w, AddressBits)
<1>1. /\ Byte \in Nat /\ Byte > 1 /\ AddressBits \in Nat /\ 2 * Byte <= AddressBits
      /\ Room \in Nat /\ AddressBits = 2 * Byte + Room /\ T \in Nat
  BY SizesAre DEF Room
<1>2. B \in Seq(Bit) /\ Len(B) = Byte /\ prefix \in Seq(Bit) /\ Len(prefix) = Byte
  BY <1>1, BitsOfByte, BitSequences
<1> HIDE DEF B
<1>3. /\ front \in Seq(Bit) /\ Len(front) = Byte + Byte
      /\ \A i \in 1 .. Byte : front[i] = prefix[i]
      /\ \A i \in 1 .. Byte : front[Byte + i] = B[i]
  <2>1. /\ front \in Seq(Bit) /\ Len(front) = Len(prefix) + Len(B)
        /\ \A i \in 1 .. Len(prefix) : front[i] = prefix[i]
        /\ \A i \in 1 .. Len(B) : front[Len(prefix) + i] = B[i]
    BY <1>2, JoinedBits, Zenon
  <2> HIDE DEF front
  <2> QED
    BY <1>2, <2>1, Zenon
<1> HIDE DEF front
<1>4. /\ w \in Seq(Bit) /\ Len(w) = (Byte + Byte) + T
      /\ \A i \in 1 .. Byte + Byte : w[i] = front[i]
      /\ \A i \in 1 .. T : w[(Byte + Byte) + i] = t[i]
  <2>1. /\ w \in Seq(Bit) /\ Len(w) = Len(front) + T
        /\ \A i \in 1 .. Len(front) : w[i] = front[i]
        /\ \A i \in 1 .. T : w[Len(front) + i] = t[i]
    BY <1>3, JoinedBits, Zenon
  <2> HIDE DEF w, T
  <2> QED
    BY <1>3, <2>1, Zenon
<1> HIDE DEF w, T
<1>5. /\ a \in Bits(AddressBits)
      /\ \A i \in 1 .. AddressBits : a[i] = IF i <= Len(w) THEN w[i] ELSE 0
  BY <1>1, <1>4, CopyIntoIs
<1> HIDE DEF a
<1>6. \A i \in 1 .. Byte : a[i] = prefix[i]
  <2> TAKE i \in 1 .. Byte
  <2>1. i \in 1 .. AddressBits /\ i <= (Byte + Byte) + T /\ i \in 1 .. Byte + Byte
    BY <1>1
  <2> QED
    BY <1>3, <1>4, <1>5, <2>1
<1>7. \A i \in 1 .. Byte : a[Byte + i] = B[i]
  <2> TAKE i \in 1 .. Byte
  <2>1. /\ Byte + i \in 1 .. AddressBits /\ Byte + i <= (Byte + Byte) + T
        /\ Byte + i \in 1 .. Byte + Byte
    BY <1>1
  <2> QED
    BY <1>3, <1>4, <1>5, <2>1
<1>8. \A i \in 1 .. Room : a[2 * Byte + i] = IF i <= T THEN t[i] ELSE 0
  <2> TAKE i \in 1 .. Room
  <2>1. /\ 2 * Byte + i \in 1 .. AddressBits /\ 2 * Byte + i = (Byte + Byte) + i
        /\ 2 * Byte + i <= (Byte + Byte) + T <=> i <= T
        /\ i <= T => i \in 1 .. T
    BY <1>1
  <2>2. a[2 * Byte + i] = IF i <= T THEN w[(Byte + Byte) + i] ELSE 0
    BY <1>4, <1>5, <2>1
  <2> QED
    BY <1>4, <2>1, <2>2
<1>9. Body(t) \in Bits(Room) /\ \A i \in 1 .. Room : Body(t)[i] = IF i <= T THEN t[i] ELSE 0
  <2>1. \A i \in 1 .. Room : Body(t)[i] = IF i <= T THEN t[i] ELSE 0
    BY DEF Body, T
  <2>2. \A i \in 1 .. T : t[i] \in {0, 1}
    BY BitSequences DEF Bits, T
  <2>3. \A i \in 1 .. Room : Body(t)[i] \in {0, 1}
    <3> TAKE i \in 1 .. Room
    <3>1. i <= T => i \in 1 .. T
      BY <1>1
    <3> QED
      BY <2>1, <2>2, <3>1
  <2>4. Body(t) = [i \in 1 .. Room |-> Body(t)[i]]
    BY DEF Body
  <2>5. Body(t) \in Bits(Room)
    BY <2>3, <2>4 DEF Bits
  <2> QED
    BY <2>1, <2>5
<1>10. \A i \in 1 .. Room : a[2 * Byte + i] = Body(t)[i]
  BY <1>8, <1>9
<1>11. a = AddressOf(prefix, n, Body(t))
  BY <1>5, <1>6, <1>7, <1>9, <1>10, AddressHasParts DEF B
<1> QED
  BY <1>9, <1>11 DEF a, w, front, B

\* The bits of a key behind n ones and a zero that get into its address.
Behind(inv, n) == [i \in 1 .. Room |-> IF i <= Whole(n) THEN inv[n + 1 + i] ELSE 0]

\* They are what temp holds.
LEMMA BodyIs ==
    ASSUME NEW inv, NEW n, NEW t, Len(t) = Whole(n), Whole(n) \in Nat,
           \A j \in 1 .. Whole(n) : t[j] = inv[n + 1 + j]
    PROVE  Body(t) = Behind(inv, n)
<1>1. ASSUME NEW i \in 1 .. Room
      PROVE  (IF i <= Len(t) THEN t[i] ELSE 0) = (IF i <= Whole(n) THEN inv[n + 1 + i] ELSE 0)
  <2>1. Room \in Nat
    BY SizesAre DEF Room
  <2>2. i <= Whole(n) => i \in 1 .. Whole(n)
    BY <2>1
  <2> QED
    BY <2>2
<1> QED
  BY <1>1 DEF Body, Behind

\* The complement of bits, and its complement.
LEMMA InverseIs ==
    ASSUME NEW n \in Nat, NEW bs \in Bits(n)
    PROVE  /\ Inverse01(bs) \in Bits(n)
           /\ Inverse01(Inverse01(bs)) = bs
<1>1. DOMAIN bs = 1 .. n /\ \A i \in 1 .. n : bs[i] \in {0, 1}
  BY DEF Bits
<1>2. Inverse01(bs) \in Bits(n) /\ \A i \in 1 .. n : Inverse01(bs)[i] = 1 - bs[i]
  BY <1>1 DEF Inverse01, Bits
<1>3. DOMAIN Inverse01(bs) = 1 .. n
  BY <1>2 DEF Bits
<1>4. /\ Inverse01(Inverse01(bs)) \in Bits(n)
      /\ \A i \in 1 .. n : Inverse01(Inverse01(bs))[i] = 1 - Inverse01(bs)[i]
  <2> DEFINE cs == Inverse01(bs)
  <2>1. cs \in Bits(n) /\ DOMAIN cs = 1 .. n /\ \A i \in 1 .. n : cs[i] \in {0, 1}
    BY <1>2, <1>3 DEF Bits
  <2> HIDE DEF cs
  <2>2. Inverse01(cs) \in Bits(n) /\ \A i \in 1 .. n : Inverse01(cs)[i] = 1 - cs[i]
    BY <2>1 DEF Inverse01, Bits
  <2> QED
    BY <2>2 DEF cs
<1>5. \A i \in 1 .. n : Inverse01(Inverse01(bs))[i] = bs[i]
  BY <1>1, <1>2, <1>4
<1> QED
  BY <1>2, <1>4, <1>5, SameBits

\* Either there is a first zero or there are only ones.
LEMMA FirstZero ==
    ASSUME NEW inv \in Bits(KeyBits)
    PROVE  \/ \A i \in 1 .. KeyBits : inv[i] = 1
           \/ \E n \in 0 .. KeyBits - 1 : inv[n + 1] = 0 /\ \A i \in 1 .. n : inv[i] = 1
<1> SUFFICES ASSUME ~\A i \in 1 .. KeyBits : inv[i] = 1
             PROVE  \E n \in 0 .. KeyBits - 1 : inv[n + 1] = 0 /\ \A i \in 1 .. n : inv[i] = 1
  OBVIOUS
<1> DEFINE Z == {i \in 1 .. KeyBits : inv[i] # 1}
<1>1. KeyBits \in Nat /\ \A i \in 1 .. KeyBits : inv[i] = 0 \/ inv[i] = 1
  BY SizesAre DEF Bits
<1>2. Z # {} /\ Z \in SUBSET Nat
  BY <1>1
<1>3. PICK x \in Z : \A y \in Z : x <= y
  BY <1>2, LeastNumber
<1>4. x \in 1 .. KeyBits /\ inv[x] = 0
  BY <1>1
<1>5. \A i \in 1 .. x - 1 : inv[i] = 1
  <2> TAKE i \in 1 .. x - 1
  <2>1. i \in 1 .. KeyBits /\ ~(x <= i)
    BY <1>1, <1>4
  <2> QED
    BY <1>3, <2>1
<1>6. x - 1 \in 0 .. KeyBits - 1 /\ (x - 1) + 1 = x
  BY <1>1, <1>4
<1>7. inv[(x - 1) + 1] = 0
  BY <1>4, <1>6
<1> QED
  BY <1>5, <1>6, <1>7

\* The address of a key, for an inverse with a zero and for one without.
LEMMA AddressIs ==
    ASSUME NEW key \in Bits(KeyBits)
    PROVE  /\ \A n \in 0 .. KeyBits - 1 :
                (\A i \in 1 .. n : Inverse01(key)[i] = 1) /\ Inverse01(key)[n + 1] = 0
                  => /\ AddrForKey(key) = AddressOf(GetPrefix, n, Behind(Inverse01(key), n))
                     /\ Behind(Inverse01(key), n) \in Bits(Room)
                     /\ Whole(n) \in Nat /\ Whole(n) <= KeyBits - n - 1
           /\ (\A i \in 1 .. KeyBits : Inverse01(key)[i] = 1)
                => /\ AddrForKey(key) = AddressOf(GetPrefix, 0, Zeros(Room))
                   /\ Zeros(Room) \in Bits(Room)
<1> DEFINE inv == Inverse01(key)
           end == FoldLeft(ScanBit, ScanStart, inv)
<1>1. inv \in Bits(KeyBits) /\ KeyBits \in Nat /\ KeyBits > 1 /\ 0 \in 0 .. KeyBits - 1
  BY SizesAre, InverseIs
<1>2. AddrForKey(key) = CopyInto(GetPrefix \o ByteBits[end.ones] \o end.temp, AddressBits)
  BY DEF AddrForKey, ScanStart
<1>3. GetPrefix \in Bits(Byte)
  BY PrefixesAre
<1> HIDE DEF inv
<1>4. ASSUME NEW n \in 0 .. KeyBits - 1, \A i \in 1 .. n : inv[i] = 1, inv[n + 1] = 0
      PROVE  /\ AddrForKey(key) = AddressOf(GetPrefix, n, Behind(inv, n))
             /\ Behind(inv, n) \in Bits(Room)
             /\ Whole(n) \in Nat /\ Whole(n) <= KeyBits - n - 1
  <2>1. end \in ScanState /\ Scanned(inv, n, KeyBits, end)
    BY <1>1, <1>4, EndOfScan
  <2> HIDE DEF end
  <2>2. end.ones = n
    BY <2>1 DEF Scanned
  <2>3. /\ end.temp \in Seq(Bit) /\ Len(end.temp) = Whole(n)
        /\ Whole(n) \in Nat /\ Whole(n) <= KeyBits - n - 1
        /\ \A j \in 1 .. Whole(n) : end.temp[j] = inv[n + 1 + j]
    BY <1>1, <2>1, TempIs
  <2>4. Body(end.temp) = Behind(inv, n)
    BY <2>3, BodyIs
  <2> QED
    BY <1>2, <1>3, <2>2, <2>3, <2>4, Assembled
<1>5. ASSUME \A i \in 1 .. KeyBits : inv[i] = 1
      PROVE  /\ AddrForKey(key) = AddressOf(GetPrefix, 0, Zeros(Room))
             /\ Zeros(Room) \in Bits(Room)
  <2>1. end.ones = 0 /\ end.temp = <<>>
    BY <1>1, <1>5, EndOfOnes
  <2> HIDE DEF end
  <2>2. <<>> \in Seq(Bit) /\ Len(<<>>) = 0
    OBVIOUS
  <2>3. Body(<<>>) = Zeros(Room)
    <3>1. \A i \in 1 .. Room : ~(i <= 0)
      BY SizesAre DEF Room
    <3> QED
      BY <3>1 DEF Body, Zeros
  <2> QED
    BY <1>1, <1>2, <1>3, <2>1, <2>2, <2>3, Assembled
<1> QED
  BY <1>4, <1>5 DEF inv

\* AddrForKey computes what its comment says, for every key and every width.
LEMMA AddressAlwaysDerived ==
    ASSUME NEW key \in Bits(KeyBits)
    PROVE  DerivesAddress(key)
<1> DEFINE inv == Inverse01(key)
           N == KeyBits
           Leads(n) == (\A i \in 1 .. n : inv[i] = 1) /\ (n < N => inv[n + 1] = 0)
<1>1. N \in Nat /\ N > 1 /\ inv \in Bits(N) /\ Len(inv) = N /\ inv \in Seq(Bit)
  BY SizesAre, InverseIs, BitSequences
<1>2. LeadingOnes(inv) = CHOOSE n \in 0 .. N : Leads(n)
  BY <1>1 DEF LeadingOnes
<1> HIDE DEF inv, N
<1>3. \A m, n \in 0 .. N : Leads(m) /\ Leads(n) => m = n
  <2> SUFFICES ASSUME NEW m \in 0 .. N, NEW n \in 0 .. N, Leads(m), Leads(n), m < n
               PROVE  FALSE
    BY <1>1
  <2>1. m + 1 \in 1 .. n /\ m < N
    BY <1>1
  <2>2. inv[m + 1] = 1 /\ inv[m + 1] = 0
    BY <2>1
  <2> QED
    BY <2>2
<1>4. \A n \in 0 .. N : Leads(n) => LeadingOnes(inv) = n
  <2> HIDE DEF Leads
  <2> QED
    BY <1>2, <1>3
<1>5. CASE \A i \in 1 .. N : inv[i] = 1
  <2>1. N \in 0 .. N /\ Leads(N)
    BY <1>1, <1>5
  <2>2. LeadingOnes(inv) = N
    BY <1>4, <2>1
  <2>3. ~(LeadingOnes(inv) < N)
    BY <1>1, <2>2
  <2> QED
    BY <2>3 DEF DerivesAddress, inv, N
<1>6. ASSUME NEW n \in 0 .. N - 1, inv[n + 1] = 0, \A i \in 1 .. n : inv[i] = 1
      PROVE  DerivesAddress(key)
  <2>1. n \in 0 .. N /\ n \in Nat /\ n + 2 \in 1 .. N + 1 /\ N \in (n + 2) - 1 .. N
        /\ N - (n + 2) + 1 = N - n - 1 /\ N - n - 1 \in Nat
    BY <1>1
  <2>2. LeadingOnes(inv) = n
    BY <1>4, <1>6, <2>1
  <2>3. /\ AddrForKey(key) = AddressOf(GetPrefix, n, Behind(inv, n))
        /\ Whole(n) \in Nat /\ Whole(n) <= N - n - 1
    BY <1>6, AddressIs DEF inv, N
  <2> DEFINE rest == SubSeq(inv, n + 2, N)
             t == SubSeq(rest, 1, Whole(n))
  <2>4. /\ rest \in Seq(Bit) /\ Len(rest) = N - n - 1
        /\ \A i \in 1 .. N - n - 1 : rest[i] = inv[(n + 2) + i - 1]
    <3> DEFINE m == n + 2
               l == N - n - 1
               c == SubSeq(inv, m, N)
    <3>1. m \in Nat /\ l \in Nat /\ m >= 1 /\ N <= Len(inv) /\ m + l = N + 1
      BY <1>1, <2>1
    <3>2. c = rest
      OBVIOUS
    <3> HIDE DEF m, l, rest
    <3>3. inv \in Seq(Bit) /\ N \in Nat
      BY <1>1
    <3>4. c \in Seq(Bit) /\ Len(c) = l /\ \A i \in 1 .. l : c[i] = inv[m + i - 1]
      BY <3>1, <3>3, BitSlice
    <3> HIDE DEF c
    <3> QED
      BY <3>2, <3>4, Zenon DEF m, l
  <2> HIDE DEF rest
  <2>5. /\ t \in Seq(Bit) /\ Len(t) = Whole(n)
        /\ \A i \in 1 .. Whole(n) : t[i] = rest[i]
    <3>1. 1 \in Nat /\ 1 >= 1 /\ Whole(n) <= Len(rest) /\ 1 + Whole(n) = Whole(n) + 1
      BY <1>1, <2>1, <2>3, <2>4
    <3>2. /\ t \in Seq(Bit) /\ Len(t) = Whole(n)
          /\ \A i \in 1 .. Whole(n) : t[i] = rest[1 + i - 1]
      BY <2>3, <2>4, <3>1, BitSlice
    <3>3. \A i \in 1 .. Whole(n) : 1 + i - 1 = i
      BY <2>3
    <3> HIDE DEF t
    <3> QED
      BY <3>2, <3>3
  <2> HIDE DEF t
  <2>6. \A i \in 1 .. Whole(n) : t[i] = inv[n + 1 + i]
    <3> TAKE i \in 1 .. Whole(n)
    <3>1. i \in 1 .. N - n - 1 /\ (n + 2) + i - 1 = n + 1 + i
      BY <1>1, <2>1, <2>3
    <3> QED
      BY <2>4, <2>5, <3>1
  <2>7. Body(t) = Behind(inv, n)
    BY <2>3, <2>5, <2>6, BodyIs
  <2>8. GetPrefix \in Bits(Byte)
    BY PrefixesAre
  <2>9. CopyInto(GetPrefix \o ByteBits[n] \o t, AddressBits) = AddressOf(GetPrefix, n, Behind(inv, n))
    BY <2>5, <2>7, <2>8, Assembled DEF N
  <2>10. t = SubSeq(rest, 1, Byte * (Len(rest) \div Byte))
    BY <2>4 DEF t, Whole, N
  <2>11. AddressReference(key) = CopyInto(GetPrefix \o ByteBits[n] \o t, AddressBits)
    BY <1>1, <2>2, <2>10 DEF AddressReference, inv, rest
  <2> QED
    BY <2>3, <2>9, <2>11 DEF DerivesAddress
<1>7. \/ \A i \in 1 .. N : inv[i] = 1
      \/ \E n \in 0 .. N - 1 : inv[n + 1] = 0 /\ \A i \in 1 .. n : inv[i] = 1
  BY <1>1, FirstZero DEF N
<1> QED
  BY <1>5, <1>6, <1>7

\* Every address has a counter and, behind it, zeros where the key has ended.
LEMMA AddressHasForm ==
    ASSUME NEW key \in Bits(KeyBits)
    PROVE  \E n \in 0 .. KeyBits - 1, body \in Bits(Room) :
             /\ AddrForKey(key) = AddressOf(GetPrefix, n, body)
             /\ \A j \in 1 .. Room : ~(j <= Whole(n)) => body[j] = 0
<1> DEFINE inv == Inverse01(key)
<1>1. KeyBits \in Nat /\ KeyBits > 1 /\ inv \in Bits(KeyBits) /\ 0 \in 0 .. KeyBits - 1
  BY SizesAre, InverseIs
<1>2. CASE \A i \in 1 .. KeyBits : inv[i] = 1
  <2>1. AddrForKey(key) = AddressOf(GetPrefix, 0, Zeros(Room)) /\ Zeros(Room) \in Bits(Room)
    BY <1>2, AddressIs
  <2>2. \A j \in 1 .. Room : Zeros(Room)[j] = 0
    BY DEF Zeros
  <2> QED
    BY <1>1, <2>1, <2>2
<1>3. ASSUME NEW n \in 0 .. KeyBits - 1, inv[n + 1] = 0, \A i \in 1 .. n : inv[i] = 1
      PROVE  /\ AddrForKey(key) = AddressOf(GetPrefix, n, Behind(inv, n))
             /\ Behind(inv, n) \in Bits(Room)
             /\ \A j \in 1 .. Room : ~(j <= Whole(n)) => Behind(inv, n)[j] = 0
  <2>1. /\ AddrForKey(key) = AddressOf(GetPrefix, n, Behind(inv, n))
        /\ Behind(inv, n) \in Bits(Room)
    BY <1>3, AddressIs
  <2>2. \A j \in 1 .. Room : ~(j <= Whole(n)) => Behind(inv, n)[j] = 0
    BY DEF Behind
  <2> QED
    BY <2>1, <2>2
<1>4. \/ \A i \in 1 .. KeyBits : inv[i] = 1
      \/ \E n \in 0 .. KeyBits - 1 : inv[n + 1] = 0 /\ \A i \in 1 .. n : inv[i] = 1
  BY <1>1, FirstZero
<1> HIDE DEF inv
<1> QED
  BY <1>2, <1>3, <1>4

\* The partial key of an address: its ones, a zero, and the bits that follow.
LEMMA KeyOfAddress ==
    ASSUME NEW prefix \in Bits(Byte), NEW n \in 0 .. KeyBits - 1, NEW body \in Bits(Room)
    PROVE  LET key == GetKey(AddressOf(prefix, n, body))
           IN  /\ key \in Bits(KeyBits)
               /\ \A i \in 1 .. n : Inverse01(key)[i] = 1
               /\ Inverse01(key)[n + 1] = 0
               /\ \A j \in 1 .. Room : n + 1 + j <= KeyBits => Inverse01(key)[n + 1 + j] = body[j]
<1> DEFINE a == AddressOf(prefix, n, body)
           count == SubSeq(a, Byte + 1, 2 * Byte)
           rest == SubSeq(a, 2 * Byte + 1, Len(a))
           N == KeyBits
<1>1. /\ Byte \in Nat /\ Byte > 1 /\ AddressBits \in Nat /\ 2 * Byte <= AddressBits
      /\ Room \in Nat /\ AddressBits = 2 * Byte + Room /\ N \in Nat /\ N > 1
  BY SizesAre DEF Room
<1>2. /\ a \in Bits(AddressBits)
      /\ \A i \in 1 .. Byte : a[Byte + i] = ByteBits[n][i]
      /\ \A i \in 1 .. Room : a[2 * Byte + i] = body[i]
  BY PartsOfAddress
<1> HIDE DEF a
<1>3. a \in Seq(Bit) /\ Len(a) = AddressBits
  BY <1>1, <1>2, BitSequences
<1>4. count = ByteBits[n]
  <2>1. /\ Byte + 1 \in Nat /\ 2 * Byte \in Nat /\ Byte + 1 >= 1 /\ 2 * Byte <= Len(a)
        /\ (Byte + 1) + Byte = 2 * Byte + 1
    BY <1>1, <1>3
  <2>2. /\ count \in Seq(Bit) /\ Len(count) = Byte
        /\ \A i \in 1 .. Byte : count[i] = a[(Byte + 1) + i - 1]
    BY <1>1, <1>3, <2>1, BitSlice
  <2> HIDE DEF count
  <2>4. \A i \in 1 .. Byte : (Byte + 1) + i - 1 = Byte + i
    BY <1>1
  <2>5. count \in Bits(Byte)
    BY <2>2, <2>2, BitSequences
  <2>6. ByteBits[n] \in Bits(Byte)
    BY BitsOfByte
  <2>7. \A i \in 1 .. Byte : count[i] = ByteBits[n][i]
    BY <1>2, <2>2, <2>4
  <2> QED
    BY <1>1, <2>5, <2>6, <2>7, SameBits
<1>5. rest = body
  <2>1. /\ 2 * Byte + 1 \in Nat /\ Len(a) \in Nat /\ 2 * Byte + 1 >= 1 /\ Len(a) <= Len(a)
        /\ (2 * Byte + 1) + Room = Len(a) + 1
    BY <1>1, <1>3
  <2>2. /\ rest \in Seq(Bit) /\ Len(rest) = Room
        /\ \A i \in 1 .. Room : rest[i] = a[(2 * Byte + 1) + i - 1]
    BY <1>1, <1>3, <2>1, BitSlice
  <2> HIDE DEF rest
  <2>5. \A i \in 1 .. Room : (2 * Byte + 1) + i - 1 = 2 * Byte + i
    BY <1>1
  <2>6. rest \in Bits(Room)
    BY <2>2, BitSequences
  <2>7. \A i \in 1 .. Room : rest[i] = body[i]
    BY <1>2, <2>2, <2>5
  <2> QED
    BY <1>1, <2>6, <2>7, SameBits
<1>6. ByteValue(count) = n
  BY <1>4, BitsOfByte
<1> DEFINE front == Ones(n) \o <<0>>
           w == front \o body
           c == CopyInto(w, N)
<1>7. GetKey(a) = Inverse01(c)
  BY <1>5, <1>6 DEF GetKey
<1>8. n \in Nat /\ n < N
  BY <1>1
<1>9. /\ Ones(n) \in Seq(Bit) /\ Len(Ones(n)) = n /\ \A i \in 1 .. n : Ones(n)[i] = 1
  <2>1. Ones(n) \in Bits(n) /\ \A i \in 1 .. n : Ones(n)[i] = 1
    BY <1>8 DEF Ones, Bits
  <2> QED
    BY <1>8, <2>1, BitSequences
<1>10. body \in Seq(Bit) /\ Len(body) = Room
  BY <1>1, BitSequences
<1>11. /\ front \in Seq(Bit) /\ Len(front) = n + 1
       /\ \A i \in 1 .. n : front[i] = 1
       /\ front[n + 1] = 0
  <2>1. 0 \in Bit
    BY DEF Bit
  <2>2. /\ front \in Seq(Bit) /\ Len(front) = Len(Ones(n)) + 1
        /\ \A i \in 1 .. Len(Ones(n)) : front[i] = Ones(n)[i]
        /\ front[Len(Ones(n)) + 1] = 0
    BY <1>9, <2>1, OneMore
  <2> HIDE DEF front
  <2> QED
    BY <1>9, <2>2
<1> HIDE DEF front
<1>12. /\ w \in Seq(Bit) /\ Len(w) = (n + 1) + Room
       /\ \A i \in 1 .. n + 1 : w[i] = front[i]
       /\ \A i \in 1 .. Room : w[(n + 1) + i] = body[i]
  <2>1. /\ w \in Seq(Bit) /\ Len(w) = Len(front) + Len(body)
        /\ \A i \in 1 .. Len(front) : w[i] = front[i]
        /\ \A i \in 1 .. Len(body) : w[Len(front) + i] = body[i]
    BY <1>10, <1>11, JoinedBits, Zenon
  <2> HIDE DEF w
  <2> QED
    BY <1>10, <1>11, <2>1, Zenon
<1> HIDE DEF w
<1>13. c \in Bits(N) /\ \A i \in 1 .. N : c[i] = IF i <= Len(w) THEN w[i] ELSE 0
  BY <1>1, <1>12, CopyIntoIs
<1> HIDE DEF c, N
<1>14. Inverse01(c) \in Bits(N) /\ Inverse01(Inverse01(c)) = c
  BY <1>1, <1>13, InverseIs
<1>15. \A i \in 1 .. n : c[i] = 1
  <2> TAKE i \in 1 .. n
  <2>1. i \in 1 .. N /\ i <= (n + 1) + Room /\ i \in 1 .. n + 1
    BY <1>1, <1>8
  <2> QED
    BY <1>11, <1>12, <1>13, <2>1
<1>16. c[n + 1] = 0
  <2>1. n + 1 \in 1 .. N /\ n + 1 <= (n + 1) + Room /\ n + 1 \in 1 .. n + 1
    BY <1>1, <1>8
  <2> QED
    BY <1>11, <1>12, <1>13, <2>1
<1>17. ASSUME NEW j \in 1 .. Room, n + 1 + j <= N
       PROVE  c[n + 1 + j] = body[j]
  <2>1. n + 1 + j \in 1 .. N /\ n + 1 + j <= (n + 1) + Room /\ n + 1 + j = (n + 1) + j
    BY <1>1, <1>8, <1>17
  <2> QED
    BY <1>12, <1>13, <2>1
<1> QED
  BY <1>7, <1>14, <1>15, <1>16, <1>17 DEF a, N

\* The partial key of an address has that address, whatever its prefix.
LEMMA Recovered ==
    ASSUME NEW prefix \in Bits(Byte), NEW n \in 0 .. KeyBits - 1, NEW body \in Bits(Room),
           \A j \in 1 .. Room : ~(j <= Whole(n)) => body[j] = 0
    PROVE  /\ GetKey(AddressOf(prefix, n, body)) \in Bits(KeyBits)
           /\ AddrForKey(GetKey(AddressOf(prefix, n, body))) = AddressOf(GetPrefix, n, body)
<1> DEFINE key == GetKey(AddressOf(prefix, n, body))
           inv == Inverse01(key)
<1>1. /\ key \in Bits(KeyBits)
      /\ \A i \in 1 .. n : inv[i] = 1
      /\ inv[n + 1] = 0
      /\ \A j \in 1 .. Room : n + 1 + j <= KeyBits => inv[n + 1 + j] = body[j]
  BY KeyOfAddress
<1> HIDE DEF key
<1>2. /\ AddrForKey(key) = AddressOf(GetPrefix, n, Behind(inv, n))
      /\ Behind(inv, n) \in Bits(Room)
      /\ Whole(n) \in Nat /\ Whole(n) <= KeyBits - n - 1
  BY <1>1, AddressIs
<1> HIDE DEF inv
<1>3. KeyBits \in Nat /\ Room \in Nat
  BY SizesAre DEF Room
<1>4. \A j \in 1 .. Room : Behind(inv, n)[j] = body[j]
  <2> TAKE j \in 1 .. Room
  <2>1. Behind(inv, n)[j] = IF j <= Whole(n) THEN inv[n + 1 + j] ELSE 0
    BY DEF Behind
  <2>2. j <= Whole(n) => n + 1 + j <= KeyBits
    BY <1>2, <1>3
  <2> QED
    BY <1>1, <2>1, <2>2
<1>5. Behind(inv, n) = body
  BY <1>2, <1>3, <1>4, SameBits
<1> QED
  BY <1>1, <1>2, <1>5 DEF key

\* The subnet that belongs to an address.
SubnetOf(a) == SubnetPrefix \o SubSeq(a, Byte + 1, SubnetBits)

\* Its bits.
LEMMA SubnetIs ==
    ASSUME NEW a \in Bits(AddressBits)
    PROVE  /\ SubnetOf(a) \in Bits(SubnetBits)
           /\ \A i \in 1 .. Byte : SubnetOf(a)[i] = SubnetPrefix[i]
           /\ \A i \in Byte + 1 .. SubnetBits : SubnetOf(a)[i] = a[i]
<1> DEFINE p == SubnetPrefix
           t == SubSeq(a, Byte + 1, SubnetBits)
           s == p \o t
           L == SubnetBits - Byte
<1>1. /\ Byte \in Nat /\ Byte > 1 /\ SubnetBits \in Nat /\ AddressBits \in Nat
      /\ 2 * Byte <= SubnetBits /\ SubnetBits <= AddressBits
  BY SizesAre
<1>2. p \in Seq(Bit) /\ Len(p) = Byte /\ a \in Seq(Bit) /\ Len(a) = AddressBits
  BY <1>1, PrefixesAre, BitSequences
<1>3. t \in Seq(Bit) /\ Len(t) = L /\ \A i \in 1 .. L : t[i] = a[(Byte + 1) + i - 1]
  <2>1. /\ Byte + 1 \in Nat /\ L \in Nat /\ Byte + 1 >= 1 /\ SubnetBits <= Len(a)
        /\ (Byte + 1) + L = SubnetBits + 1
    BY <1>1, <1>2
  <2> HIDE DEF L
  <2> QED
    BY <1>1, <1>2, <2>1, BitSlice
<1> HIDE DEF p, t, L
<1>4. /\ s \in Seq(Bit) /\ Len(s) = Byte + L
      /\ \A i \in 1 .. Byte : s[i] = p[i]
      /\ \A i \in 1 .. L : s[Byte + i] = t[i]
  <2>1. /\ s \in Seq(Bit) /\ Len(s) = Len(p) + Len(t)
        /\ \A i \in 1 .. Len(p) : s[i] = p[i]
        /\ \A i \in 1 .. Len(t) : s[Len(p) + i] = t[i]
    BY <1>2, <1>3, JoinedBits, Zenon
  <2> HIDE DEF s
  <2> QED
    BY <1>2, <1>3, <2>1, Zenon
<1> HIDE DEF s
<1>5. Byte + L = SubnetBits
  BY <1>1 DEF L
<1>6. s \in Bits(SubnetBits)
  BY <1>4, <1>5, BitSequences
<1>7. \A i \in Byte + 1 .. SubnetBits : s[i] = a[i]
  <2> TAKE i \in Byte + 1 .. SubnetBits
  <2>1. i - Byte \in 1 .. L /\ Byte + (i - Byte) = i /\ (Byte + 1) + (i - Byte) - 1 = i
    BY <1>1 DEF L
  <2>2. s[Byte + (i - Byte)] = t[i - Byte] /\ t[i - Byte] = a[(Byte + 1) + (i - Byte) - 1]
    BY <1>3, <1>4, <2>1
  <2> QED
    BY <2>1, <2>2
<1> QED
  BY <1>4, <1>6, <1>7 DEF SubnetOf, s, p, t

\* An address of which the subnet's bits are left.
Cut(body) == [i \in 1 .. Room |-> IF i <= SubnetBits - 2 * Byte THEN body[i] ELSE 0]

\* Cutting keeps bits, and the zeros behind the key.
LEMMA CutIs ==
    ASSUME NEW body \in Bits(Room)
    PROVE  /\ Cut(body) \in Bits(Room)
           /\ \A n : (\A j \in 1 .. Room : ~(j <= Whole(n)) => body[j] = 0)
                       => \A j \in 1 .. Room : ~(j <= Whole(n)) => Cut(body)[j] = 0
<1>1. \A i \in 1 .. Room : Cut(body)[i] = IF i <= SubnetBits - 2 * Byte THEN body[i] ELSE 0
  BY DEF Cut
<1>2. \A i \in 1 .. Room : body[i] \in {0, 1}
  BY DEF Bits
<1>3. \A i \in 1 .. Room : Cut(body)[i] \in {0, 1}
  BY <1>1, <1>2
<1>4. Cut(body) = [i \in 1 .. Room |-> Cut(body)[i]]
  BY DEF Cut
<1>5. Cut(body) \in Bits(Room)
  BY <1>3, <1>4 DEF Bits
<1> QED
  BY <1>1, <1>5

\* A subnet that is filled up with zeros has the parts of an address.
LEMMA FilledSubnet ==
    ASSUME NEW n \in 0 .. KeyBits - 1, NEW body \in Bits(Room)
    PROVE  CopyInto(SubnetOf(AddressOf(GetPrefix, n, body)), AddressBits)
             = AddressOf(SubnetPrefix, n, Cut(body))
<1> DEFINE a == AddressOf(GetPrefix, n, body)
           s == SubnetOf(a)
           b == CopyInto(s, AddressBits)
<1>1. /\ Byte \in Nat /\ Byte > 1 /\ SubnetBits \in Nat /\ AddressBits \in Nat
      /\ 2 * Byte <= SubnetBits /\ SubnetBits <= AddressBits
      /\ Room \in Nat /\ AddressBits = 2 * Byte + Room
  BY SizesAre DEF Room
<1>2. GetPrefix \in Bits(Byte) /\ SubnetPrefix \in Bits(Byte)
  BY PrefixesAre
<1>3. /\ a \in Bits(AddressBits)
      /\ \A i \in 1 .. Byte : a[Byte + i] = ByteBits[n][i]
      /\ \A i \in 1 .. Room : a[2 * Byte + i] = body[i]
  BY <1>2, PartsOfAddress
<1> HIDE DEF a
<1>4. /\ s \in Bits(SubnetBits)
      /\ \A i \in 1 .. Byte : s[i] = SubnetPrefix[i]
      /\ \A i \in Byte + 1 .. SubnetBits : s[i] = a[i]
  BY <1>3, SubnetIs
<1> HIDE DEF s
<1>5. s \in Seq(Bit) /\ Len(s) = SubnetBits
  BY <1>1, <1>4, BitSequences
<1>6. /\ b \in Bits(AddressBits)
      /\ \A i \in 1 .. AddressBits : b[i] = IF i <= SubnetBits THEN s[i] ELSE 0
  BY <1>1, <1>5, CopyIntoIs
<1> HIDE DEF b
<1>7. \A i \in 1 .. Byte : b[i] = SubnetPrefix[i]
  <2> TAKE i \in 1 .. Byte
  <2>1. i \in 1 .. AddressBits /\ i <= SubnetBits
    BY <1>1
  <2> QED
    BY <1>4, <1>6, <2>1
<1>8. \A i \in 1 .. Byte : b[Byte + i] = ByteBits[n][i]
  <2> TAKE i \in 1 .. Byte
  <2>1. /\ Byte + i \in 1 .. AddressBits /\ Byte + i <= SubnetBits
        /\ Byte + i \in Byte + 1 .. SubnetBits
    BY <1>1
  <2>2. b[Byte + i] = s[Byte + i] /\ s[Byte + i] = a[Byte + i]
    BY <1>4, <1>6, <2>1
  <2> QED
    BY <1>3, <2>2
<1>9. \A i \in 1 .. Room : b[2 * Byte + i] = Cut(body)[i]
  <2> TAKE i \in 1 .. Room
  <2>1. /\ 2 * Byte + i \in 1 .. AddressBits
        /\ i <= SubnetBits - 2 * Byte <=> 2 * Byte + i <= SubnetBits
        /\ 2 * Byte + i <= SubnetBits => 2 * Byte + i \in Byte + 1 .. SubnetBits
    BY <1>1
  <2>2. Cut(body)[i] = IF i <= SubnetBits - 2 * Byte THEN body[i] ELSE 0
    BY DEF Cut
  <2>3. b[2 * Byte + i] = IF 2 * Byte + i <= SubnetBits THEN s[2 * Byte + i] ELSE 0
    BY <1>6, <2>1
  <2>4. 2 * Byte + i <= SubnetBits => s[2 * Byte + i] = a[2 * Byte + i]
    BY <1>4, <2>1
  <2> QED
    BY <1>3, <2>1, <2>2, <2>3, <2>4
<1>10. Cut(body) \in Bits(Room)
  BY CutIs
<1>11. b = AddressOf(SubnetPrefix, n, Cut(body))
  BY <1>2, <1>6, <1>7, <1>8, <1>9, <1>10, AddressHasParts
<1> QED
  BY <1>11 DEF b, s, a

\* What is cut off is not in the subnet.
LEMMA CutKeepsSubnet ==
    ASSUME NEW n \in 0 .. KeyBits - 1, NEW body \in Bits(Room)
    PROVE  SubnetOf(AddressOf(GetPrefix, n, Cut(body))) = SubnetOf(AddressOf(GetPrefix, n, body))
<1> DEFINE a == AddressOf(GetPrefix, n, body)
           c == AddressOf(GetPrefix, n, Cut(body))
<1>1. /\ Byte \in Nat /\ Byte > 1 /\ SubnetBits \in Nat /\ AddressBits \in Nat
      /\ 2 * Byte <= SubnetBits /\ SubnetBits <= AddressBits
      /\ Room \in Nat /\ AddressBits = 2 * Byte + Room
  BY SizesAre DEF Room
<1>2. GetPrefix \in Bits(Byte) /\ Cut(body) \in Bits(Room)
  BY PrefixesAre, CutIs
<1>3. /\ a \in Bits(AddressBits)
      /\ \A i \in 1 .. Byte : a[Byte + i] = ByteBits[n][i]
      /\ \A i \in 1 .. Room : a[2 * Byte + i] = body[i]
  BY <1>2, PartsOfAddress
<1>4. /\ c \in Bits(AddressBits)
      /\ \A i \in 1 .. Byte : c[Byte + i] = ByteBits[n][i]
      /\ \A i \in 1 .. Room : c[2 * Byte + i] = Cut(body)[i]
  BY <1>2, PartsOfAddress
<1> HIDE DEF a, c
<1>5. \A i \in Byte + 1 .. SubnetBits : c[i] = a[i]
  <2> TAKE i \in Byte + 1 .. SubnetBits
  <2>1. CASE i <= 2 * Byte
    <3>1. i - Byte \in 1 .. Byte /\ Byte + (i - Byte) = i
      BY <1>1, <2>1
    <3>2. a[Byte + (i - Byte)] = ByteBits[n][i - Byte] /\ c[Byte + (i - Byte)] = ByteBits[n][i - Byte]
      BY <1>3, <1>4, <3>1
    <3> QED
      BY <3>1, <3>2
  <2>2. CASE ~(i <= 2 * Byte)
    <3> DEFINE j == i - 2 * Byte
    <3>1. j \in 1 .. Room /\ 2 * Byte + j = i /\ j <= SubnetBits - 2 * Byte
      BY <1>1, <2>2
    <3> HIDE DEF j
    <3>2. a[2 * Byte + j] = body[j] /\ c[2 * Byte + j] = Cut(body)[j] /\ Cut(body)[j] = body[j]
      BY <1>3, <1>4, <3>1 DEF Cut
    <3> QED
      BY <3>1, <3>2
  <2> QED
    BY <2>1, <2>2
<1> DEFINE s == SubnetOf(a)
           r == SubnetOf(c)
<1>6. /\ s \in Bits(SubnetBits)
      /\ \A i \in 1 .. Byte : s[i] = SubnetPrefix[i]
      /\ \A i \in Byte + 1 .. SubnetBits : s[i] = a[i]
  BY <1>3, SubnetIs
<1>7. /\ r \in Bits(SubnetBits)
      /\ \A i \in 1 .. Byte : r[i] = SubnetPrefix[i]
      /\ \A i \in Byte + 1 .. SubnetBits : r[i] = c[i]
  BY <1>4, SubnetIs
<1> HIDE DEF s, r
<1>8. \A i \in 1 .. SubnetBits : r[i] = s[i]
  <2> TAKE i \in 1 .. SubnetBits
  <2>1. i \in 1 .. Byte \/ i \in Byte + 1 .. SubnetBits
    BY <1>1
  <2> QED
    BY <1>5, <1>6, <1>7, <2>1
<1>9. r = s
  BY <1>1, <1>6, <1>7, <1>8, SameBits
<1> QED
  BY <1>9 DEF r, s, a, c

\* The first byte of bits.
LEMMA FirstByte ==
    ASSUME NEW m \in Nat, NEW a \in Bits(m), Byte <= m, NEW p \in Bits(Byte),
           \A i \in 1 .. Byte : a[i] = p[i]
    PROVE  SubSeq(a, 1, Byte) = p
<1> DEFINE f == SubSeq(a, 1, Byte)
<1>1. Byte \in Nat /\ Byte > 1
  BY SizesAre
<1>2. a \in Seq(Bit) /\ Len(a) = m
  BY BitSequences
<1>3. 1 \in Nat /\ 1 >= 1 /\ Byte <= Len(a) /\ 1 + Byte = Byte + 1
      /\ \A i \in 1 .. Byte : 1 + i - 1 = i
  BY <1>1, <1>2
<1>4. f \in Seq(Bit) /\ Len(f) = Byte /\ \A i \in 1 .. Byte : f[i] = a[1 + i - 1]
  BY <1>1, <1>2, <1>3, BitSlice
<1> HIDE DEF f
<1>5. f \in Bits(Byte)
  BY <1>4, BitSequences
<1>6. \A i \in 1 .. Byte : f[i] = p[i]
  BY <1>3, <1>4
<1>7. f = p
  BY <1>1, <1>5, <1>6, SameBits
<1> QED
  BY <1>7 DEF f

\* Addresses and subnets begin with their prefixes.
LEMMA KindsAreTold ==
    ASSUME NEW n \in 0 .. KeyBits - 1, NEW body \in Bits(Room)
    PROVE  /\ AddressIsValid(AddressOf(GetPrefix, n, body))
           /\ ~SubnetIsValid(AddressOf(GetPrefix, n, body))
           /\ SubnetIsValid(SubnetOf(AddressOf(GetPrefix, n, body)))
           /\ ~AddressIsValid(SubnetOf(AddressOf(GetPrefix, n, body)))
<1> DEFINE a == AddressOf(GetPrefix, n, body)
           s == SubnetOf(a)
<1>1. /\ Byte \in Nat /\ SubnetBits \in Nat /\ AddressBits \in Nat
      /\ Byte <= SubnetBits /\ Byte <= AddressBits
  BY SizesAre
<1>2. GetPrefix \in Bits(Byte) /\ SubnetPrefix \in Bits(Byte) /\ GetPrefix # SubnetPrefix
  BY PrefixesAre
<1>3. a \in Bits(AddressBits) /\ \A i \in 1 .. Byte : a[i] = GetPrefix[i]
  BY <1>2, PartsOfAddress
<1> HIDE DEF a
<1>4. s \in Bits(SubnetBits) /\ \A i \in 1 .. Byte : s[i] = SubnetPrefix[i]
  BY <1>3, SubnetIs
<1> HIDE DEF s
<1>5. SubSeq(a, 1, Byte) = GetPrefix
  BY <1>1, <1>2, <1>3, FirstByte
<1>6. SubSeq(s, 1, Byte) = SubnetPrefix
  BY <1>1, <1>2, <1>4, FirstByte
<1>7. /\ AddressIsValid(a) /\ ~SubnetIsValid(a)
      /\ SubnetIsValid(s) /\ ~AddressIsValid(s)
  BY <1>2, <1>5, <1>6 DEF AddressIsValid, SubnetIsValid
<1> QED
  BY <1>7 DEF a, s

\* Every owner is found, for every key and every width: the partial key of its
\* address, and the one of its subnet, stand for them and are its own key to the
\* routing layer; AddrForKey computes what its comment says.
THEOREM OwnersAreFound ==
    \A key \in PublicKeys : DerivesAddress(key) /\ FindsOwner(key)
<1> TAKE key \in PublicKeys
<1>1. key \in Bits(KeyBits)
  BY DEF Bits, PublicKeys
<1>2. DerivesAddress(key)
  BY <1>1, AddressAlwaysDerived
<1> DEFINE a == AddrForKey(key)
           s == SubnetForKey(key)
           ka == GetKey(a)
           ks == SubnetGetKey(s)
<1>3. PICK n \in 0 .. KeyBits - 1, body \in Bits(Room) :
        /\ a = AddressOf(GetPrefix, n, body)
        /\ \A j \in 1 .. Room : ~(j <= Whole(n)) => body[j] = 0
  BY <1>1, AddressHasForm
<1>4. GetPrefix \in Bits(Byte) /\ SubnetPrefix \in Bits(Byte)
  BY PrefixesAre
<1>5. Cut(body) \in Bits(Room) /\ \A j \in 1 .. Room : ~(j <= Whole(n)) => Cut(body)[j] = 0
  BY <1>3, CutIs
<1>6. s = SubnetOf(AddressOf(GetPrefix, n, body))
  BY <1>3 DEF SubnetForKey, SubnetOf
<1>7. AddrForKey(ka) = a
  BY <1>3, <1>4, Recovered
<1>8. ks = GetKey(AddressOf(SubnetPrefix, n, Cut(body)))
  BY <1>6, FilledSubnet DEF SubnetGetKey
<1>9. AddrForKey(ks) = AddressOf(GetPrefix, n, Cut(body))
  BY <1>4, <1>5, <1>8, Recovered
<1>10. SubnetForKey(ks) = SubnetOf(AddressOf(GetPrefix, n, Cut(body)))
  BY <1>9 DEF SubnetForKey, SubnetOf
<1>11. SubnetForKey(ks) = s
  BY <1>6, <1>10, CutKeepsSubnet
<1>12. SubnetForKey(ka) = s
  BY <1>7 DEF SubnetForKey
<1>13. KeyXform(ka) = KeyXform(key) /\ KeyXform(ks) = KeyXform(key)
  BY <1>11, <1>12 DEF KeyXform
<1>14. /\ AddressIsValid(a) /\ ~SubnetIsValid(a)
       /\ SubnetIsValid(s) /\ ~AddressIsValid(s)
  BY <1>3, <1>6, KindsAreTold
<1>15. FindsOwner(key)
  BY <1>7, <1>11, <1>13, <1>14 DEF FindsOwner
<1> QED
  BY <1>2, <1>15

----------------------------------------------------------------------------
(* The calls of MCFunctions.                                               *)

\* What each call carries.
CallTyped ==
    /\ call.of = "half" => call.high \in Half
    /\ call.of = "address" => call.key \in PublicKeys
    /\ call.of = "packet" => /\ call.a \in Nodes /\ call.b \in Nodes /\ call.p \in Packet
                             /\ call.mA \in MTUs /\ call.mB \in MTUs
    /\ call.of = "doctor" => call.snapshot \in Snapshots
    /\ call.of \in {"pick", "peers"} => call.order \in Orders /\ call.a \in Sample(call.order)
    /\ call.of = "peers" => call.b \in Sample(call.order) /\ call.c \in Sample(call.order)
    /\ call.of = "config" => /\ call.doc \in Documents /\ call.keyFile \in KeyFiles
                             /\ call.r1 \in Seeds /\ call.r2 \in Seeds

\* Two halves are a key.
LEMMA HalvesAreKeys ==
    ASSUME NEW h \in Half, NEW l \in Half
    PROVE  h \o l \in PublicKeys
<1> DEFINE m == KeyBits \div 2
           key == h \o l
<1>1. m \in Nat /\ KeyBits = m + m /\ h \in Bits(m) /\ l \in Bits(m)
  BY SizesAre DEF Half, Bits
<1> HIDE DEF m
<1>2. h \in Seq(Bit) /\ Len(h) = m /\ l \in Seq(Bit) /\ Len(l) = m
  BY <1>1, BitSequences
<1>3. key \in Seq(Bit) /\ Len(key) = Len(h) + Len(l)
  BY <1>2, JoinedBits
<1> HIDE DEF key
<1>4. key \in Bits(Len(key)) /\ Len(key) = KeyBits
  BY <1>1, <1>2, <1>3, BitSequences
<1>5. key \in PublicKeys
  BY <1>4 DEF Bits, PublicKeys
<1> QED
  BY <1>5 DEF key

\* Every call carries arguments of its function.
LEMMA CallsAreTyped == Spec => []CallTyped
<1>1. Init => CallTyped
  BY DEF Init, CallTyped
<1>2. CallTyped /\ [Next]_call => CallTyped'
  <2> SUFFICES ASSUME CallTyped, [Next]_call
               PROVE  CallTyped'
    OBVIOUS
  <2>1. CASE AddressHalf
    <3>1. call'.of = "half" /\ call'.high \in Half
      BY <2>1 DEF AddressHalf
    <3> QED
      BY <3>1 DEF CallTyped
  <2>2. CASE PacketCall
    BY <2>2 DEF PacketCall, CallTyped
  <2>3. CASE DoctorCall
    BY <2>3 DEF DoctorCall, CallTyped
  <2>4. CASE PeersPick
    BY <2>4 DEF PeersPick, CallTyped
  <2>5. CASE ConfigCall
    BY <2>5 DEF ConfigCall, CallTyped
  <2>6. CASE AddressCall
    <3>1. call.high \in Half
      BY <2>6 DEF AddressCall, CallTyped
    <3>2. PICK l \in Half : call' = [of |-> "address", key |-> call.high \o l]
      BY <2>6 DEF AddressCall
    <3>3. call'.of = "address" /\ call'.key \in PublicKeys
      BY <3>1, <3>2, HalvesAreKeys
    <3> QED
      BY <3>3 DEF CallTyped
  <2>7. CASE PeersCall
    <3>1. call.of = "pick" /\ call.order \in Orders /\ call.a \in Sample(call.order)
      BY <2>7 DEF PeersCall, CallTyped
    <3> QED
      BY <2>7, <3>1 DEF PeersCall, CallTyped
  <2>8. CASE UNCHANGED call
    BY <2>8 DEF CallTyped
  <2> QED
    BY <2>1, <2>2, <2>3, <2>4, <2>5, <2>6, <2>7, <2>8 DEF Next, Start
<1> QED
  BY <1>1, <1>2, PTL DEF Spec

\* The bounded arguments are among the ones of the theorems.
LEMMA ArgumentsOfAnySize ==
    /\ Packet \subseteq AnyPacket /\ MTUs \subseteq Nat
    /\ Snapshots \subseteq AnySnapshot
    /\ \A order : Sample(order) \subseteq PeerEntry
<1>1. Packet \subseteq AnyPacket /\ MTUs \subseteq Nat
  <2>1. Sizes \subseteq Nat /\ MTUs \subseteq Nat
    BY MTUAssumption
  <2> QED
    BY <2>1 DEF Packet, AnyPacket
<1>2. Snapshots \subseteq AnySnapshot
  <2>1. /\ Peer \subseteq [up: BOOLEAN, latency: Nat] /\ 0 .. MaxRoutes \subseteq Nat
        /\ 0 .. 1 \subseteq Nat
    BY DoctorAssumption DEF Peer
  <2>2. BoundedSeq(Peer, MaxPeers) \subseteq Seq([up: BOOLEAN, latency: Nat])
    <3> SUFFICES ASSUME NEW t \in BoundedSeq(Peer, MaxPeers)
                 PROVE  t \in Seq([up: BOOLEAN, latency: Nat])
      OBVIOUS
    <3>1. PICK m \in 0 .. MaxPeers : t \in [1 .. m -> Peer]
      BY DEF BoundedSeq, SeqOf
    <3>2. m \in Nat /\ t \in [1 .. m -> [up: BOOLEAN, latency: Nat]]
      BY <2>1, <3>1, DoctorAssumption
    <3> DEFINE E == [up: BOOLEAN, latency: Nat]
    <3> HIDE DEF E
    <3>3. \A f : f \in [1 .. m -> E] => f \in Seq(E)
      BY <3>2
    <3> QED
      BY <3>2, <3>3 DEF E
  <2> QED
    BY <2>1, <2>2 DEF Snapshots, AnySnapshot
<1>3. ASSUME NEW order
      PROVE  Sample(order) \subseteq PeerEntry
  <2>1. /\ (CHOOSE x \in Costs : TRUE) \in Costs
        /\ (CHOOSE x \in Priorities : TRUE) \in Priorities
        /\ (CHOOSE x \in Uptimes : TRUE) \in Uptimes
        /\ (CHOOSE x \in Latencies : TRUE) \in Latencies
        /\ (CHOOSE x \in BOOLEAN : TRUE) \in BOOLEAN
    BY SampleAssumption
  <2> QED
    BY <2>1 DEF Sample, PeerEntry
<1> QED
  BY <1>1, <1>2, <1>3

\* The packets of every run of the functions: MTUs agree, reads are authentic,
\* nothing is lost.
THEOREM PacketsAreSound == Spec => []PacketsSound
<1>1. CallTyped => PacketsSound
  <2> SUFFICES ASSUME CallTyped, call.of = "packet"
               PROVE  /\ MTUsAgree(call.mA)
                      /\ Authentic(call.a, AdapterMTU(call.mA), call.p, call.b)
                      /\ call.a # call.b =>
                           DeliveredOrAnswered(call.a, call.b, call.p, call.mA, call.mB)
    BY DEF PacketsSound
  <2>1. /\ call.a \in Nodes /\ call.b \in Nodes /\ call.p \in AnyPacket
        /\ call.mA \in Nat /\ call.mB \in Nat
    BY ArgumentsOfAnySize DEF CallTyped
  <2>2. AdapterMTU(call.mA) \in Nat
    BY <2>1, AdapterMTUIsInterfaceMTU, InterfaceMTUBounds
  <2> QED
    BY <2>1, <2>2, MTUsAlwaysAgree, ReadsAreAuthentic, NothingIsLost
<1> QED
  BY <1>1, CallsAreTyped, PTL

\* The diagnoses of every run of the functions.
THEOREM DoctorIsSound == Spec => []DoctorSound
<1>1. CallTyped => DoctorSound
  BY ArgumentsOfAnySize, DiagnosisIsRight DEF CallTyped, DoctorSound
<1> QED
  BY <1>1, CallsAreTyped, PTL

\* The peer lists of every run of the functions.
THEOREM PeersAreSound == Spec => []PeersSound
<1>1. CallTyped => PeersSound
  <2> SUFFICES ASSUME CallTyped, call.of = "peers"
               PROVE  /\ OrdersPeers(call.order, call.a, call.b, call.c)
                      /\ FastestFirst(<<call.a, call.b, call.c>>)
    BY DEF PeersSound
  <2>1. call.order \in Orders /\ call.a \in PeerEntry /\ call.b \in PeerEntry /\ call.c \in PeerEntry
    BY ArgumentsOfAnySize DEF CallTyped
  <2>2. <<call.a, call.b, call.c>> \in Seq(PeerEntry)
    BY <2>1
  <2> QED
    BY <2>1, <2>2, PeersAreOrdered, ListIsSorted
<1> QED
  BY <1>1, CallsAreTyped, PTL

\* The configurations of every run of the functions.
THEOREM IdentityIsSound == Spec => []IdentitySound
<1>1. CallTyped => IdentitySound
  BY IdentityIsKept DEF CallTyped, IdentitySound
<1> QED
  BY <1>1, CallsAreTyped, PTL

\* The addresses of every run of the functions.
THEOREM AddressesAreSound == Spec => []AddressesSound
<1>1. CallTyped => AddressesSound
  BY OwnersAreFound DEF CallTyped, AddressesSound
<1> QED
  BY <1>1, CallsAreTyped, PTL
=============================================================================
