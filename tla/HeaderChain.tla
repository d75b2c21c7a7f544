------------------------------ MODULE HeaderChain ------------------------------
(***************************************************************************)
(* Block headers as the relayer sees them.  A block is named by the path   *)
(* that leads to it from genesis: the sequence of the labels of the        *)
(* branches its ancestors lie on, so that its length is its height, its    *)
(* prefixes are its ancestors, and two blocks are the same block exactly   *)
(* when their names, which stand for their hashes, are equal.              *)
(***************************************************************************)
EXTENDS Integers, Sequences

\* The hash of no block: JavaScript's null.
Null == << >>

Height(block) == Len(block)

Ancestor(block, h) == SubSeq(block, 1, h)

OnChain(block, best) ==
    /\ Height(block) <= Height(best)
    /\ Ancestor(best, Height(block)) = block

\* `confirmations` of getblockheader: -1 for a block off the active chain.
BlockConfirmations(block, best) ==
    IF OnChain(block, best) THEN Height(best) - Height(block) + 1 ELSE -1

\* The heights at which two blocks have the same ancestor.
CommonHeights(left, right) ==
    {h \in 0..Height(left) :
        h <= Height(right) /\ Ancestor(left, h) = Ancestor(right, h)}

(***************************************************************************)
(* commonAncestor(left, right), against a node whose best block is `best`  *)
(* throughout.  The loop steps the higher header down, and the right one   *)
(* when they are level, so that a pair of heights determines the next; it  *)
(* ends when the headers meet or when the lower one has as many            *)
(* confirmations as it is below the other.                                 *)
(***************************************************************************)
Visits(left, right) ==
    {p \in (0..Height(left)) \X (0..Height(right)) :
        \/ p[1] = Height(left) /\ p[2] >= p[1]
        \/ p[2] = Height(right) /\ p[1] >= p[2]
        \/ p[1] \in {p[2], p[2] + 1}}

\* The fast path: by its confirmations, `low` is below `high` on one chain.
SeemsBelow(low, high, best) ==
    /\ Height(low) < Height(high)
    /\ BlockConfirmations(low, best) - 1 = Height(high) - Height(low)

LoopEnds(left, right, best, p) ==
    LET l == Ancestor(left, p[1])
        r == Ancestor(right, p[2])
    IN  l = r \/ SeemsBelow(r, l, best) \/ SeemsBelow(l, r, best)

\* h is the height of the block commonAncestor(left, right) returns.
IsCommonAncestor(left, right, best, h) ==
    \E p \in Visits(left, right) :
        /\ LoopEnds(left, right, best, p)
        /\ \A q \in Visits(left, right) :
              LoopEnds(left, right, best, q) => q[1] + q[2] <= p[1] + p[2]
        /\ h = IF p[1] < p[2] THEN p[1] ELSE p[2]
===============================================================================
