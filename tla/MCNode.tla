------------------------------- MODULE MCNode -------------------------------
(* Node for TLC: a diagnosis, a request whose handler is registered late on a  *)
(* connection that is kept, and requests that fail, with and without keeping it. *)
EXTENDS Node

MCRequests == {
    [name |-> "doctor", keep |-> FALSE],
    [name |-> "multicast", keep |-> TRUE],
    [name |-> "unknown", keep |-> FALSE],
    [name |-> "malformed", keep |-> TRUE] }
=============================================================================
