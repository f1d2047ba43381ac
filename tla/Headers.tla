------------------------------ MODULE Headers -------------------------------
(***************************************************************************)
(* What a request for headers is answered with (net.cpp), for a session    *)
(* between two nodes and for a one-shot synchronisation alike.             *)
(***************************************************************************)
EXTENDS BlockTree

CONSTANTS
    Locator,    \* Locator[b]: make_block_locator of the chain that ends in b
    MaxHeaders  \* MAX_HEADERS_PER_RESPONSE

ASSUME LocatorAssumption ==
    /\ Locator \in [Block -> SUBSET Block]
    /\ \A b \in Block : {b, Genesis} \subseteq Locator[b] /\ Locator[b] \subseteq Chain[b]
    /\ MaxHeaders \in Nat \ {0}

\* The highest block of a set of blocks of one chain.
Highest(S) == CHOOSE b \in S : \A c \in S : Work(c) <= Work(b)

\* locate_fork_index: genesis, if nothing in the locator is on the chain.
ForkOf(locator, b) == Highest((locator \cup {Genesis}) \cap Chain[b])

\* The last block of headers_after_locator.
LastHeader(from, b) == Highest({c \in Chain[b] : Work(c) <= Work(from) + MaxHeaders})
=============================================================================
