------------------------------ MODULE HeaderFollow ------------------------------
(***************************************************************************)
(* What relaying headers promises, with no relayer in sight: the light     *)
(* client's block only ever goes up, to blocks that descend from it or     *)
(* replace a lower branch, and once the node's chain rests the light       *)
(* client reaches it.                                                      *)
(***************************************************************************)
EXTENDS HeaderChain

VARIABLES chain, side

\* Both start at one block.
Init == chain = side /\ Height(chain) >= 1

NodeMoves == Height(chain') > Height(chain) /\ side' = side

\* The new block comes from a chain the node has or had, or is handed in by
\* someone else: all the contract asks of it is that it is higher.
SideMoves == Height(side') > Height(side) /\ chain' = chain

Next == NodeMoves \/ SideMoves

\* If the node's best block stops changing, the light client gets there.
Follows == <>[][FALSE]_chain => <>[](side = chain)

Spec == Init /\ [][Next]_<<chain, side>> /\ Follows
================================================================================
