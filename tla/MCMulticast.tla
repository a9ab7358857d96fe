---------------------------- MODULE MCMulticast ----------------------------
(* Multicast for TLC: one interface with one address and two rules that    *)
(* match it; one configured listener and one name for those of multicast.  *)
EXTENDS Multicast

CONSTANTS eth, ws

MCRules == <<
    [match |-> {eth}, beacon |-> TRUE, listen |-> FALSE, password |-> "p"],
    [match |-> {eth}, beacon |-> FALSE, listen |-> TRUE, password |-> "q"] >>

MCBeacons == {
    [zone |-> eth, valid |-> TRUE, password |-> "q"],
    [zone |-> eth, valid |-> TRUE, password |-> "p"],
    [zone |-> eth, valid |-> FALSE, password |-> "q"] }
=============================================================================
