----------------------------- MODULE MCHostQueue -----------------------------
(* A small instance of HostQueue for TLC. *)
EXTENDS HostQueue

CONSTANT g1

\* The host decides both ways about one guest and approves the other.
MCOps == [u \in Users |-> IF u = g1 THEN {"join", "approve", "reject"} ELSE {"join", "approve"}]
=============================================================================
