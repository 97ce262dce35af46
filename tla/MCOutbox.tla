------------------------------ MODULE MCOutbox ------------------------------
(* A small instance of Outbox for TLC: a reply, the command that follows it *)
(* and an effect of the desktop.                                            *)
EXTENDS Outbox, TLC

CONSTANTS r1, c1, d1

MixedTurnOf == [e \in Effects |-> IF e = d1 THEN Desktop ELSE r1]
OneRank == [e \in Effects |-> 1]
=============================================================================
