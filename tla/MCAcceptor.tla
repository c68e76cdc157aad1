----------------------------- MODULE MCAcceptor -----------------------------
(* Instances of Acceptor for TLC.  Thread ids are numbers, so that the map   *)
(* has an order; one more id than connections lets ids be taken out of order.*)
EXTENDS Acceptor

CONSTANTS c1, c2, c3

MCConns == {c1, c2, c3}
MCTids == 1 .. 4
=============================================================================
