----------------------------- MODULE PeerOrder -----------------------------
(***************************************************************************)
(* The orders in which src/src/admin/getpeers.go lists peers.              *)
(*                                                                         *)
(* Costs and priorities are unsigned words of 2 * HalfWord values; their   *)
(* difference wraps and is then read as a signed word.  Uptimes are        *)
(* floating-point seconds, here in quarters; int() of their difference     *)
(* drops the fraction.                                                     *)
(***************************************************************************)
EXTENDS Integers, Sequences, FiniteSets, SequencesExt

CONSTANTS
    HalfWord,     \* the words whose top bit is clear, 2^63 in the code
    Costs, Priorities, Uptimes, Latencies, PeerKeys

ASSUME WordAssumption ==
    /\ HalfWord \in Nat \ {0}
    /\ Costs \subseteq 0 .. HalfWord - 1
    /\ Priorities \subseteq 0 .. HalfWord - 1
    /\ Uptimes \subseteq Nat /\ Latencies \subseteq Nat /\ PeerKeys \subseteq Nat

PeerEntry == [Up: BOOLEAN, Inbound: BOOLEAN, Latency: Latencies, Cost: Costs,
              Priority: Priorities, Uptime: Uptimes, PublicKey: PeerKeys]

\* Mutant: the difference stays unsigned.
Difference_Unsigned(a, b) == (a - b) % (2 * HalfWord)

\* int(a - b) of two uint64.
Difference(a, b) ==
    LET d == (a - b) % (2 * HalfWord)
    IN  IF d >= HalfWord THEN d - 2 * HalfWord ELSE d

\* int(a - b) of two float64, which is 0 for less than a second either way.
WholeSeconds(a, b) == IF a >= b THEN (a - b) \div 4 ELSE -((b - a) \div 4)

\* strings.Compare.
Compare(a, b) == IF a < b THEN -1 ELSE IF a > b THEN 1 ELSE 0

\* A chain of "if d := ...; d != 0 { return int(d) }": the comparison of the first
\* field that differs, and 0 if none does.
FirstOf(chain) ==
    LET differ == {i \in DOMAIN chain : chain[i].differ}
    IN  IF differ = {} THEN 0
        ELSE chain[CHOOSE i \in differ : \A j \in differ : i <= j].d

ByKey(a, b) == [differ |-> a.PublicKey # b.PublicKey, d |-> Compare(a.PublicKey, b.PublicKey)]
ByCost(a, b) == [differ |-> a.Cost # b.Cost, d |-> Difference(a.Cost, b.Cost)]
ByPriority(a, b) == [differ |-> a.Priority # b.Priority, d |-> Difference(a.Priority, b.Priority)]
ByUptime(a, b) == [differ |-> a.Uptime # b.Uptime, d |-> WholeSeconds(a.Uptime, b.Uptime)]

sortByCost(a, b) == FirstOf(<<ByCost(a, b), ByKey(a, b), ByPriority(a, b), ByUptime(a, b)>>)
sortByUptime(a, b) == FirstOf(<<ByUptime(a, b), ByKey(a, b), ByPriority(a, b), ByCost(a, b)>>)

sortByDefault(a, b) ==
    IF a.Inbound # b.Inbound THEN (IF b.Inbound THEN -1 ELSE 1)
    ELSE FirstOf(<<ByKey(a, b), ByPriority(a, b), ByCost(a, b), ByUptime(a, b)>>)

sortByLatency(a, b) ==
    IF a.Up # b.Up THEN (IF a.Up THEN -1 ELSE 1)
    ELSE IF (a.Latency = 0) # (b.Latency = 0) THEN (IF a.Latency > 0 THEN -1 ELSE 1)
    ELSE IF a.Latency # b.Latency THEN Compare(a.Latency, b.Latency)
    ELSE sortByCost(a, b)

Orders == {"uptime", "cost", "latency", "default"}

\* The switch of getPeersHandler.
Sorter(order, a, b) ==
    CASE order = "uptime"  -> sortByUptime(a, b)
      [] order = "cost"    -> sortByCost(a, b)
      [] order = "latency" -> sortByLatency(a, b)
      [] order = "default" -> sortByDefault(a, b)

\* slices.SortStableFunc, as it sorts up to 20 entries: each entry in turn moves
\* forward past the entries it is less than.  Longer slices are sorted so in
\* blocks of 20 which symMerge then merges; all stable sorts give one and the same
\* list when the comparison is consistent (see OrdersPeers).
InsertPeer(order, sorted, p) ==
    LET before == {i \in 0 .. Len(sorted) :
                     \A j \in i + 1 .. Len(sorted) : Sorter(order, p, sorted[j]) < 0}
        at == CHOOSE i \in before : \A j \in before : i <= j
    IN  SubSeq(sorted, 1, at) \o <<p>> \o SubSeq(sorted, at + 1, Len(sorted))

SortPeers(order, peers) ==
    FoldLeft(LAMBDA sorted, p : InsertPeer(order, sorted, p), <<>>, peers)

----------------------------------------------------------------------------
(* Properties.                                                             *)

\* The four comparisons never contradict themselves, in spite of differences that
\* wrap: they are antisymmetric, "less" is transitive, and so no list is sorted
\* into a cycle.  Equality is transitive too, as SortStableFunc asks, if no two of
\* the peers are less than a second apart in uptime without being equal; truncated
\* seconds are not transitive.
OrdersPeers(order, a, b, c) ==
    LET Less(x, y) == Sorter(order, x, y) < 0
        Same(x, y) == Sorter(order, x, y) = 0
        Apart(x, y) == x.Uptime = y.Uptime \/ WholeSeconds(x.Uptime, y.Uptime) # 0
    IN  /\ Less(a, b) <=> Sorter(order, b, a) > 0
        /\ Less(a, b) /\ Less(b, c) => Less(a, c)
        /\ (Apart(a, b) /\ Apart(b, c) /\ Apart(a, c))
              => (Same(a, b) /\ Same(b, c) => Same(a, c))

\* The list by latency has the peers that are up first, among them the ones with
\* a sample, fastest first: what the peer selection of an operator reads off it.
\* No peer gets lost or listed twice.
FastestFirst(peers) ==
    LET list == SortPeers("latency", peers)
        Worse(p, q) ==
            \/ ~p.Up /\ q.Up
            \/ /\ p.Up = q.Up /\ q.Latency > 0
               /\ p.Latency = 0 \/ p.Latency > q.Latency
    IN  /\ \A p \in Range(peers) : Cardinality({i \in DOMAIN list : list[i] = p})
                                     = Cardinality({i \in DOMAIN peers : peers[i] = p})
        /\ \A i, j \in DOMAIN list : i < j => ~Worse(list[i], list[j])
=============================================================================
