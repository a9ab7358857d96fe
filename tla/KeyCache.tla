------------------------------ MODULE KeyCache ------------------------------
(***************************************************************************)
(* What the key store of src/src/ipv6rwc/ipv6rwc.go promises: it knows     *)
(* some keys, and it holds back a packet for some destinations.  A packet  *)
(* is held back only while no known key owns its destination, and learning *)
(* the owner releases it.  Keys are forgotten, and packets dropped, at any *)
(* time.                                                                   *)
(***************************************************************************)
CONSTANTS
    Keys,     \* public keys of remote nodes
    Dests,    \* destinations: addresses and subnets
    DestsOf   \* the address and the subnet derived from a key

VARIABLES
    known,    \* the keys with an entry
    waiting   \* the destinations with a packet held back

vars == <<known, waiting>>

Owned(d) == \E k \in known : d \in DestsOf[k]

Init == known = {} /\ waiting = {}

Learn(k) == known' = known \cup {k} /\ waiting' = waiting \ DestsOf[k]
Forget(k) == known' = known \ {k} /\ UNCHANGED waiting
Hold(d) == ~Owned(d) /\ waiting' = waiting \cup {d} /\ UNCHANGED known
Drop(d) == waiting' = waiting \ {d} /\ UNCHANGED known

Next ==
    \/ \E k \in Keys : Learn(k) \/ Forget(k)
    \/ \E d \in Dests : Hold(d) \/ Drop(d)

Spec == Init /\ [][Next]_vars
=============================================================================
