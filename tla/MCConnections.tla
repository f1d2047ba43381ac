----------------------------- MODULE MCConnections -----------------------------
(* A small node: one outbound endpoint, room for one inbound session, and two  *)
(* inbound session threads, so that one can be ending while the next starts.   *)
(* One of the two other nodes has nonce 0.                                     *)
EXTENDS Connections, TLC

CONSTANTS i1, i2, o1, r1, r2

MCIn == {i1, i2}
MCOut == {o1}
MCRemote == {r1, r2}
MCLoopback == {r2}
MCTarget == (o1 :> r1)
=============================================================================
