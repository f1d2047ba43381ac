---------------------------- MODULE MCChainStore ----------------------------
(***************************************************************************)
(* Instances of ChainStore for TLC: a tree of four blocks with a fork at   *)
(* the genesis block, so that a chain can grow, be reorganised to a        *)
(* heavier branch, and have a rival of equal work.                         *)
(*                                                                         *)
(*      b0 --- a1 --- a2                                                    *)
(*       \--- b1                                                           *)
(***************************************************************************)
EXTENDS ChainStore, TLC

CONSTANTS b0, a1, a2, b1

MCBlock == {b0, a1, a2, b1}

MCChain == (b0 :> {b0}) @@ (a1 :> {b0, a1}) @@ (a2 :> {b0, a1, a2}) @@ (b1 :> {b0, b1})
=============================================================================
