--------------------------- MODULE RelayHeader_proofs ---------------------------
(***************************************************************************)
(* What holds of the header relay for every batch size and every bound:    *)
(* its types, that a batch starts on the light client's chain, that the    *)
(* contract accepts a batch that reaches the node's best block, that the   *)
(* rest of the loop runs in step, and the safety half of HeaderFollow.     *)
(* The node may reorganise between any two requests: what the argument     *)
(* rests on is not the confirmations the relayer reads, but the order in   *)
(* which commonAncestor steps its two headers down.                        *)
(***************************************************************************)
EXTENDS RelayHeader, SequenceTheorems, TLAPS

IsParent(b, c) == Height(c) = Height(b) + 1 /\ Ancestor(c, Height(b)) = b

\* Neither chain falls back to genesis, and the relayer notes only blocks as
\* high as the light client has been.
HeightsOK == Height(chain) >= 1 /\ Height(side) >= 1 /\ Height(lastHash) <= Height(side)

\* commonAncestor starts no lower on the node's side, and never lets its left
\* header fall below its right one, which stays on the light client's chain:
\* the exit on the confirmations of the left header is never the one taken.
WalkOK ==
    /\ pc \in {"left", "right"} => Height(full) >= Height(at)
    /\ pc = "right" => left.hash = full
    /\ pc = "walk" => OnChain(right.hash, at) /\ Height(left.hash) >= Height(right.hash)

\* A header's nextblockhash was its child when it was read, and stays one.
BatchOK ==
    /\ pc \notin {"batch", "submit"} => batch = << >>
    /\ pc \in {"batch", "submit"} =>
        /\ cursor.next # Null => IsParent(cursor.hash, cursor.next)
        /\ batch # << >> => cursor.hash = batch[Len(batch)]
        /\ \A i \in 1..Len(batch) - 1 : IsParent(batch[i], batch[i + 1])
        /\ pc = "submit" => batch # << >>

IInv == TypeOK /\ HeightsOK /\ WalkOK /\ BatchOK /\ StartIsOnSideChain

--------------------------------------------------------------------------------
(* Chains *)

LEMMA NullIsBlock == Null \in Block /\ Height(Null) = 0
BY EmptySeq DEF Null, Block, Height

LEMMA HeightIsNat == ASSUME NEW b \in Block PROVE Height(b) \in Nat
BY DEF Block, Height

LEMMA OnlyNullIsLow == ASSUME NEW b \in Block, b # Null PROVE Height(b) >= 1
BY EmptySeq DEF Block, Height, Null

LEMMA AncestorIsBlock ==
    ASSUME NEW b \in Block, NEW h \in 0..Height(b)
    PROVE  Ancestor(b, h) \in Block /\ Height(Ancestor(b, h)) = h
BY HeaderAssumption DEF Block, Ancestor, Height

LEMMA AncestorOfSelf == ASSUME NEW b \in Block PROVE Ancestor(b, Height(b)) = b
BY SubSeqFull DEF Block, Ancestor, Height

LEMMA AncestorOfAncestor ==
    ASSUME NEW b \in Block, NEW h \in 0..Height(b), NEW g \in 0..h
    PROVE  Ancestor(Ancestor(b, h), g) = Ancestor(b, g)
<1>1. Ancestor(b, h) \in Block /\ Height(Ancestor(b, h)) = h
  BY AncestorIsBlock
<1>2. g \in 0..Height(b) /\ g \in 0..Height(Ancestor(b, h))
  BY <1>1, HeightIsNat
<1>3. /\ Ancestor(Ancestor(b, h), g) \in Seq(0..MaxForks)
      /\ Len(Ancestor(Ancestor(b, h), g)) = g
      /\ Ancestor(b, g) \in Seq(0..MaxForks)
      /\ Len(Ancestor(b, g)) = g
  BY <1>1, <1>2, AncestorIsBlock DEF Block, Height
<1>4. \A i \in 1..g : Ancestor(Ancestor(b, h), g)[i] = Ancestor(b, g)[i]
  BY <1>2 DEF Ancestor, Block, Height
<1> QED BY <1>3, <1>4, SeqEqual

\* An ancestor of a block on a chain is on that chain.
LEMMA AncestorIsOnChain ==
    ASSUME NEW b \in Block, NEW best \in Block, OnChain(b, best), NEW h \in 0..Height(b)
    PROVE  OnChain(Ancestor(b, h), best)
<1>1. Height(b) \in 0..Height(best) /\ Ancestor(best, Height(b)) = b
  BY HeightIsNat DEF OnChain
<1>2. Ancestor(b, h) = Ancestor(best, h)
  BY <1>1, AncestorOfAncestor
<1>3. Height(Ancestor(b, h)) = h /\ h <= Height(best)
  BY <1>1, AncestorIsBlock, HeightIsNat
<1> QED BY <1>2, <1>3 DEF OnChain

\* The block above a block of a chain, on that chain.
LEMMA NextIsChild ==
    ASSUME NEW b \in Block, NEW best \in Block, OnChain(b, best), b # best
    PROVE  /\ Ancestor(best, Height(b) + 1) \in Block \ {Null}
           /\ IsParent(b, Ancestor(best, Height(b) + 1))
<1> DEFINE c == Ancestor(best, Height(b) + 1)
<1>1. Height(b) <= Height(best) /\ Ancestor(best, Height(b)) = b
  BY DEF OnChain
<1>2. Height(b) \in Nat /\ Height(best) \in Nat
  BY HeightIsNat
<1>3. Height(b) # Height(best)
  BY <1>1, AncestorOfSelf
<1>4. Height(b) + 1 \in 0..Height(best) /\ Height(b) \in 0..Height(b) + 1
  BY <1>1, <1>2, <1>3
<1>5. c \in Block /\ Height(c) = Height(b) + 1
  BY <1>4, AncestorIsBlock
<1>6. c # Null
  BY <1>2, <1>5, NullIsBlock
<1>7. Ancestor(c, Height(b)) = b
  BY <1>1, <1>4, AncestorOfAncestor
<1> QED BY <1>5, <1>6, <1>7 DEF IsParent

LEMMA MinedIsBlock ==
    ASSUME NEW b \in Block, Height(b) >= 1
    PROVE  /\ Append(b, b[Height(b)]) \in Block
           /\ Height(Append(b, b[Height(b)])) = Height(b) + 1
<1>1. b[Height(b)] \in 0..MaxForks
  <2>1. b \in Seq(0..MaxForks) /\ Len(b) \in 1..Len(b)
    BY DEF Block, Height
  <2> QED BY <2>1, ElementOfSeq DEF Height
<1> QED BY <1>1 DEF Block, Height

LEMMA BranchIsBlock ==
    ASSUME chain \in Block, forks \in 0..MaxForks, forks < MaxForks,
           NEW f \in 0..Height(chain), NEW n \in Nat
    PROVE  Branch(f, n) \in Block /\ Height(Branch(f, n)) = f + n
<1>1. Ancestor(chain, f) \in Block /\ Height(Ancestor(chain, f)) = f
  BY AncestorIsBlock
<1>2. forks + 1 \in 0..MaxForks
  BY HeaderAssumption
<1> DEFINE new == [i \in 1..n |-> forks + 1]
<1>3. new \in Seq(0..MaxForks) /\ Len(new) = n
  BY <1>2
<1> QED BY <1>1, <1>3 DEF Branch, Block, Height

--------------------------------------------------------------------------------
(* Headers *)

\* What getblockheader says of a block, whatever the node's best block is.
LEMMA HeaderIsRead ==
    ASSUME chain \in Block, NEW b \in Block
    PROVE  /\ GetBlockHeader(b) \in Header
           /\ GetBlockHeader(b).hash = b
           /\ GetBlockHeader(b).next # Null => IsParent(b, GetBlockHeader(b).next)
<1>1. BlockConfirmations(b, chain) \in Int
  BY HeightIsNat DEF BlockConfirmations
<1>2. CASE OnChain(b, chain) /\ b # chain
  BY <1>1, <1>2, NextIsChild DEF GetBlockHeader, Header
<1>3. CASE ~(OnChain(b, chain) /\ b # chain)
  BY <1>1, <1>3, NullIsBlock DEF GetBlockHeader, Header
<1> QED BY <1>2, <1>3

LEMMA NoHeaderIsHeader == NoHeader \in Header
BY NullIsBlock DEF NoHeader, Header

\* The header below another.
LEMMA PrevIsBelow ==
    ASSUME NEW header \in Header, Height(header.hash) >= 1
    PROVE  Prev(header) \in Block /\ Height(Prev(header)) = Height(header.hash) - 1
<1>1. header.hash \in Block
  BY DEF Header
<1>2. Height(header.hash) - 1 \in 0..Height(header.hash)
  BY <1>1, HeightIsNat
<1> QED BY <1>1, <1>2, AncestorIsBlock DEF Prev

--------------------------------------------------------------------------------
(* The induction *)

LEMMA Initially == Init => IInv
<1> SUFFICES ASSUME Init PROVE IInv
  OBVIOUS
<1> DEFINE start == [h \in 1..InitHeight |-> 0]
<1>1. start \in Seq(0..MaxForks) /\ Len(start) = InitHeight
  <2>1. 0 \in 0..MaxForks /\ InitHeight \in Nat
    BY HeaderAssumption
  <2> QED BY <2>1
<1>2. chain = start /\ side = start
  BY DEF Init
<1> HIDE DEF start
<1>3. chain \in Block /\ Height(chain) = InitHeight /\ side \in Block /\ Height(side) = InitHeight
  BY <1>1, <1>2 DEF Block, Height
<1>4. TypeOK
  <2>1. batch \in Seq(Block \ {Null})
    BY EmptySeq DEF Init
  <2>2. forks \in 0..MaxForks /\ faults \in Nat /\ pc \in PCs /\ known \subseteq Block
    BY <1>3, HeaderAssumption DEF Init, PCs
  <2>3. lastHash \in Block /\ full \in Block /\ at \in Block
    BY NullIsBlock DEF Init
  <2>4. left \in Header /\ right \in Header /\ cursor \in Header
    BY NoHeaderIsHeader DEF Init
  <2> QED BY <1>3, <2>1, <2>2, <2>3, <2>4 DEF TypeOK
<1>5. HeightsOK
  <2>1. Height(lastHash) = 0
    BY NullIsBlock DEF Init
  <2> QED BY <1>3, <2>1, HeaderAssumption DEF HeightsOK
<1>6. pc = "header" /\ batch = << >>
  BY DEF Init
<1> QED BY <1>4, <1>5, <1>6 DEF IInv, WalkOK, BatchOK, StartIsOnSideChain

\* A step that returns from relayHeader.
LEMMA ReturnKeeps ==
    ASSUME IInv, Return, side' \in Block, Height(side') >= Height(side),
           lastHash' \in Block, Height(lastHash') <= Height(side'), faults' \in Nat,
           UNCHANGED node
    PROVE  IInv'
<1>1. TypeOK'
  <2>1. batch' \in Seq(Block \ {Null})
    BY EmptySeq DEF Return
  <2> QED BY <2>1, NullIsBlock, NoHeaderIsHeader DEF Return, Goto, node, IInv, TypeOK, PCs
<1>2. HeightsOK'
  BY HeightIsNat DEF node, IInv, TypeOK, HeightsOK
<1>3. pc' = "best" /\ batch' = << >>
  BY DEF Return, Goto
<1> QED BY <1>1, <1>2, <1>3 DEF IInv, WalkOK, BatchOK, StartIsOnSideChain

LEMMA ReadSideChainKeeps == ASSUME IInv, ReadSideChain PROVE IInv'
<1>1. lastHash' \in Block /\ Height(lastHash') <= Height(side)
  BY HeightIsNat DEF ReadSideChain, Noted, IInv, TypeOK, HeightsOK
<1>2. CASE side = full
  <2>1. Return /\ UNCHANGED <<node, side, faults>>
    BY <1>2 DEF ReadSideChain
  <2>2. side' \in Block /\ Height(side') >= Height(side) /\ faults' \in Nat
    BY <2>1, HeightIsNat DEF IInv, TypeOK
  <2> QED BY <1>1, <2>1, <2>2, ReturnKeeps
<1>3. CASE side # full
  BY <1>1, <1>3
  DEF ReadSideChain, Goto, node, IInv, TypeOK, PCs, HeightsOK, WalkOK, BatchOK,
      StartIsOnSideChain
<1> QED BY <1>2, <1>3

LEMMA ReadInfoKeeps == ASSUME IInv, ReadInfo PROVE IInv'
<1>1. UNCHANGED <<node, side, lastHash, faults>> /\ HeightsOK
  BY DEF ReadInfo, IInv
<1>2. CASE Return
  BY <1>1, <1>2, ReturnKeeps, HeightIsNat DEF IInv, TypeOK, HeightsOK
<1>3. CASE ~Return
  BY <1>3
  DEF ReadInfo, Goto, node, IInv, TypeOK, PCs, HeightsOK, WalkOK, BatchOK,
      StartIsOnSideChain
<1> QED BY <1>2, <1>3

LEMMA FetchLeftKeeps == ASSUME IInv, FetchLeft PROVE IInv'
<1>1. left' \in Header /\ left'.hash = full
  BY HeaderIsRead DEF FetchLeft, IInv, TypeOK
<1> QED
  BY <1>1 DEF FetchLeft, Goto, node, IInv, TypeOK, PCs, HeightsOK, WalkOK, BatchOK,
      StartIsOnSideChain

LEMMA FetchRightKeeps == ASSUME IInv, FetchRight PROVE IInv'
<1>1. right' \in Header /\ right'.hash = at
  BY HeaderIsRead DEF FetchRight, IInv, TypeOK
<1>2. OnChain(at, at)
  BY AncestorOfSelf, HeightIsNat DEF OnChain, IInv, TypeOK
<1> QED
  BY <1>1, <1>2
  DEF FetchRight, Goto, node, IInv, TypeOK, PCs, HeightsOK, WalkOK, BatchOK,
      StartIsOnSideChain

\* The higher header steps down, and the right one when they are level: the
\* left one is never the lower of the two.
LEMMA WalkKeeps == ASSUME IInv, Walk PROVE IInv'
<1> DEFINE l == Height(left.hash)
           r == Height(right.hash)
<1>1. left \in Header /\ right \in Header /\ left.hash \in Block /\ right.hash \in Block
  BY DEF IInv, TypeOK, Header
<1>2. l \in Nat /\ r \in Nat /\ l >= r /\ OnChain(right.hash, at)
  BY <1>1, HeightIsNat DEF Walk, IInv, WalkOK
<1>3. UNCHANGED <<node, side, pc, lastHash, full, at, cursor, batch, faults>> /\ pc = "walk"
  BY DEF Walk
<1>4. /\ left' \in Header /\ right' \in Header
      /\ OnChain(right'.hash, at) /\ Height(left'.hash) >= Height(right'.hash)
  <2>1. CASE l > r
    <3>1. Prev(left) \in Block /\ Height(Prev(left)) = l - 1
      BY <1>1, <1>2, <2>1, PrevIsBelow
    <3>2. left' = GetBlockHeader(Prev(left)) /\ right' = right
      BY <2>1 DEF Walk
    <3>3. left' \in Header /\ left'.hash = Prev(left)
      BY <3>1, <3>2, HeaderIsRead DEF IInv, TypeOK
    <3> QED BY <1>1, <1>2, <2>1, <3>1, <3>2, <3>3
  <2>2. CASE ~(l > r)
    <3>1. r >= 1
      <4>1. left.hash # right.hash
        BY DEF Walk, Met
      <4>2. l = r
        BY <1>2, <2>2
      <4>3. CASE r = 0
        <5>1. left.hash = Null /\ right.hash = Null
          BY <1>1, <4>2, <4>3, OnlyNullIsLow
        <5> QED BY <4>1, <5>1
      <4> QED BY <1>2, <4>3
    <3>2. Prev(right) \in Block /\ Height(Prev(right)) = r - 1
      BY <1>1, <3>1, PrevIsBelow
    <3>3. right' = GetBlockHeader(Prev(right)) /\ left' = left
      BY <2>2 DEF Walk
    <3>4. right' \in Header /\ right'.hash = Prev(right)
      BY <3>2, <3>3, HeaderIsRead DEF IInv, TypeOK
    <3>5. OnChain(Prev(right), at)
      <4>1. r - 1 \in 0..r /\ at \in Block
        BY <1>2, <3>1 DEF IInv, TypeOK
      <4> QED BY <1>1, <1>2, <4>1, AncestorIsOnChain DEF Prev
    <3> QED BY <1>1, <1>2, <3>2, <3>3, <3>4, <3>5
  <2> QED BY <2>1, <2>2
<1> HIDE DEF l, r
<1>5. TypeOK' /\ HeightsOK'
  BY <1>3, <1>4 DEF node, IInv, TypeOK, HeightsOK
<1> QED BY <1>3, <1>4, <1>5 DEF IInv, WalkOK, BatchOK, StartIsOnSideChain

\* commonAncestor returns its right header or one equal to it.
LEMMA MetIsRight ==
    ASSUME IInv, pc = "walk", NEW start \in Met(left, right)
    PROVE  start = right.hash
<1>1. left.hash \in Block /\ right.hash \in Block /\ Height(left.hash) >= Height(right.hash)
  BY DEF IInv, TypeOK, Header, WalkOK
<1>2. ~Confirms(left, right)
  BY <1>1, HeightIsNat DEF Confirms
<1> QED BY <1>2 DEF Met

LEMMA FetchStartKeeps == ASSUME IInv, FetchStart PROVE IInv'
<1>1. PICK start \in Met(left, right) : cursor' = GetBlockHeader(start)
  BY DEF FetchStart
<1>2. start = right.hash /\ start \in Block /\ OnChain(start, at)
  BY MetIsRight DEF FetchStart, IInv, TypeOK, Header, WalkOK
<1>3. /\ cursor' \in Header /\ cursor'.hash = start
      /\ cursor'.next # Null => IsParent(cursor'.hash, cursor'.next)
  BY <1>1, <1>2, HeaderIsRead DEF IInv, TypeOK
<1>4. /\ pc' = "batch" /\ left' = NoHeader /\ right' = NoHeader
      /\ UNCHANGED <<node, side, lastHash, full, at, batch, faults>>
  BY DEF FetchStart, Goto
<1>5. batch = << >>
  BY DEF FetchStart, IInv, BatchOK
<1>6. TypeOK' /\ HeightsOK'
  BY <1>3, <1>4, NoHeaderIsHeader DEF node, IInv, TypeOK, PCs, HeightsOK
<1>7. BatchOK' /\ StartIsOnSideChain'
  BY <1>2, <1>3, <1>4, <1>5, EmptySeq DEF BatchOK, StartIsOnSideChain
<1> QED BY <1>4, <1>6, <1>7 DEF IInv, WalkOK

\* The header appended is the child of the last one, or of the block the batch
\* starts from.
LEMMA FetchNextKeeps == ASSUME IInv, FetchNext PROVE IInv'
<1> DEFINE c == cursor.next
           n == Len(batch)
<1>1. /\ pc = "batch" /\ c # Null /\ c \in Block /\ cursor.hash \in Block
      /\ IsParent(cursor.hash, c)
  BY DEF FetchNext, HasNext, IInv, TypeOK, Header, BatchOK
<1>2. /\ cursor' \in Header /\ cursor'.hash = c
      /\ cursor'.next # Null => IsParent(cursor'.hash, cursor'.next)
  BY <1>1, HeaderIsRead DEF FetchNext, IInv, TypeOK
<1>3. batch' = Append(batch, c) /\ batch \in Seq(Block \ {Null}) /\ n \in Nat
  BY DEF FetchNext, IInv, TypeOK
<1>4. UNCHANGED <<node, side, pc, lastHash, full, at, left, right, faults>>
  BY DEF FetchNext
<1>5. (n > 0 => cursor.hash = batch[n]) /\ (\A i \in 1..n - 1 : IsParent(batch[i], batch[i + 1]))
  BY <1>1, <1>3, EmptySeq DEF IInv, BatchOK
<1> HIDE DEF c
<1>6. /\ batch' \in Seq(Block \ {Null}) /\ Len(batch') = n + 1 /\ batch' # << >>
      /\ batch'[n + 1] = c
      /\ \A i \in 1..n : batch'[i] = batch[i]
  BY <1>1, <1>3
<1> HIDE DEF n
<1>7. \A i \in 1..n : IsParent(batch'[i], batch'[i + 1])
  <2> SUFFICES ASSUME NEW i \in 1..n PROVE IsParent(batch'[i], batch'[i + 1])
    OBVIOUS
  <2>1. CASE i = n
    BY <1>1, <1>3, <1>5, <1>6, <2>1
  <2>2. CASE i # n
    <3>1. i \in 1..n - 1 /\ i + 1 \in 1..n
      BY <1>3, <2>2
    <3> QED BY <1>5, <1>6, <3>1
  <2> QED BY <2>1, <2>2
<1>8. StartIsOnSideChain'
  <2>1. CASE batch = << >>
    <3>1. n = 0 /\ batch'[1] = c
      BY <1>6, <2>1 DEF n
    <3>2. Height(c) - 1 = Height(cursor.hash) /\ Ancestor(c, Height(cursor.hash)) = cursor.hash
      BY <1>1, HeightIsNat DEF IsParent
    <3>3. OnChain(cursor.hash, at)
      BY <1>1, <2>1 DEF IInv, StartIsOnSideChain
    <3> QED BY <1>4, <1>6, <3>1, <3>2, <3>3 DEF StartIsOnSideChain
  <2>2. CASE batch # << >>
    <3>1. n > 0 /\ batch'[1] = batch[1]
      <4>1. n > 0
        BY <1>3, <2>2, EmptySeq DEF n
      <4> QED BY <1>3, <1>6, <4>1
    <3>2. OnChain(Ancestor(batch[1], Height(batch[1]) - 1), at)
      BY <1>1, <2>2 DEF IInv, StartIsOnSideChain
    <3> QED BY <1>4, <1>6, <3>1, <3>2 DEF StartIsOnSideChain
  <2> QED BY <2>1, <2>2
<1>9. BatchOK'
  <2>1. \A i \in 1..Len(batch') - 1 : IsParent(batch'[i], batch'[i + 1])
    BY <1>3, <1>6, <1>7
  <2>2. cursor'.hash = batch'[Len(batch')] /\ pc' = "batch"
    BY <1>1, <1>2, <1>4, <1>6
  <2> QED BY <1>2, <2>1, <2>2 DEF BatchOK
<1>10. TypeOK' /\ HeightsOK'
  BY <1>2, <1>4, <1>6 DEF node, IInv, TypeOK, HeightsOK
<1> QED BY <1>1, <1>4, <1>8, <1>9, <1>10 DEF IInv, WalkOK

LEMMA BatchDoneKeeps == ASSUME IInv, BatchDone PROVE IInv'
<1>1. UNCHANGED <<node, side, lastHash, faults>> /\ pc = "batch"
  BY DEF BatchDone
<1>2. CASE batch = << >>
  <2>1. Return
    BY <1>2 DEF BatchDone
  <2> QED BY <1>1, <2>1, ReturnKeeps, HeightIsNat DEF IInv, TypeOK, HeightsOK
<1>3. CASE batch # << >>
  BY <1>1, <1>3
  DEF BatchDone, Goto, node, IInv, TypeOK, PCs, HeightsOK, WalkOK, BatchOK,
      StartIsOnSideChain
<1> QED BY <1>2, <1>3

\* The light client's block changes only to a higher one.
LEMMA SubmitRaises ==
    ASSUME IInv, Submit
    PROVE  side' = side \/ (side' \in Block /\ Height(side') > Height(side))
<1>1. CASE Accepts(batch)
  <2>1. batch \in Seq(Block \ {Null}) /\ Len(batch) > 0
    BY <1>1 DEF Accepts, IInv, TypeOK
  <2>2. Len(batch) \in 1..Len(batch)
    BY <2>1
  <2>3. batch[Len(batch)] \in Block \ {Null}
    BY <2>1, <2>2, ElementOfSeq
  <2> QED BY <1>1, <2>3 DEF Submit, Accepts
<1>2. CASE ~Accepts(batch)
  BY <1>2 DEF Submit
<1> QED BY <1>1, <1>2

LEMMA SubmitKeeps == ASSUME IInv, Submit PROVE IInv'
<1>1. side' \in Block /\ Height(side') >= Height(side)
  BY SubmitRaises, HeightIsNat DEF IInv, TypeOK
<1>2. Height(lastHash) <= Height(side')
  BY <1>1, HeightIsNat DEF IInv, TypeOK, HeightsOK
<1> QED BY <1>1, <1>2, ReturnKeeps DEF Submit, IInv, TypeOK

LEMMA RelayHeaderFailsKeeps == ASSUME IInv, RelayHeaderFails PROVE IInv'
<1>1. Return /\ UNCHANGED <<node, side, lastHash>> /\ faults' \in Nat
  BY DEF RelayHeaderFails, IInv, TypeOK
<1> QED BY <1>1, ReturnKeeps, HeightIsNat DEF IInv, TypeOK, HeightsOK

--------------------------------------------------------------------------------
(* The node and the other relayers *)

\* The node's best block and the light client's only go up, and the relayer is
\* not disturbed.
Rises ==
    /\ chain' \in Block /\ Height(chain') >= Height(chain)
    /\ side' \in Block /\ Height(side') >= Height(side)

LEMMA RiseKeeps ==
    ASSUME IInv, Rises, known' \subseteq Block, forks' \in 0..MaxForks,
           UNCHANGED <<pc, locals, faults>>
    PROVE  IInv'
<1>1. TypeOK'
  BY DEF locals, Rises, IInv, TypeOK
<1>2. HeightsOK'
  BY HeightIsNat DEF locals, Rises, IInv, TypeOK, HeightsOK
<1> QED BY <1>1, <1>2 DEF locals, IInv, WalkOK, BatchOK, StartIsOnSideChain

\* What a step of the environment may do to the two chains.
NodeRises == chain' \in Block /\ Height(chain') > Height(chain) /\ side' = side
SideRises == side' \in Block /\ Height(side') > Height(side) /\ chain' = chain

LEMMA EnvironmentRises ==
    ASSUME IInv, Environment
    PROVE  /\ NodeRises \/ SideRises \/ UNCHANGED <<chain, side>>
           /\ known' \subseteq Block /\ forks' \in 0..MaxForks
           /\ UNCHANGED <<pc, locals, faults>>
<1>1. CASE Mine
  <2>1. /\ Append(chain, chain[Height(chain)]) \in Block
        /\ Height(Append(chain, chain[Height(chain)])) = Height(chain) + 1
    BY MinedIsBlock DEF IInv, TypeOK, HeightsOK
  <2>2. chain' \in Block /\ Height(chain') > Height(chain) /\ side' = side
    BY <1>1, <2>1, HeightIsNat DEF Mine, NodeMovesTo, IInv, TypeOK
  <2>3. known' \subseteq Block /\ forks' = forks /\ UNCHANGED <<pc, locals, faults>>
    BY <1>1, <2>1 DEF Mine, NodeMovesTo, IInv, TypeOK
  <2> QED BY <2>2, <2>3 DEF NodeRises, IInv, TypeOK
<1>2. CASE NodeLearns
  BY <1>2 DEF NodeLearns, IInv, TypeOK
<1>3. CASE NodeAdopts
  BY <1>3 DEF NodeAdopts, NodeMovesTo, NodeRises, IInv, TypeOK
<1>4. CASE OtherRelayHeaders
  BY <1>4 DEF OtherRelayHeaders, node, SideRises, IInv, TypeOK
<1>5. ASSUME NEW f \in 0..MaxHeight, Reorg(f)
      PROVE  NodeRises /\ known' \subseteq Block /\ forks' \in 0..MaxForks
             /\ UNCHANGED <<pc, locals, faults>>
  <2>1. f \in 0..Height(chain) /\ Height(chain) + 1 - f \in Nat
    BY <1>5, HeightIsNat, HeaderAssumption DEF Reorg, IInv, TypeOK
  <2>2. /\ Branch(f, Height(chain) + 1 - f) \in Block
        /\ Height(Branch(f, Height(chain) + 1 - f)) = f + (Height(chain) + 1 - f)
    BY <1>5, <2>1, BranchIsBlock DEF Reorg, IInv, TypeOK
  <2>3. f + (Height(chain) + 1 - f) > Height(chain) /\ forks' \in 0..MaxForks
    BY <1>5, <2>1, HeightIsNat, HeaderAssumption DEF Reorg, IInv, TypeOK
  <2> QED BY <1>5, <2>2, <2>3 DEF Reorg, NodeMovesTo, NodeRises, IInv, TypeOK
<1>6. ASSUME NEW f \in 0..MaxHeight, OtherRelayFork(f)
      PROVE  SideRises /\ known' \subseteq Block /\ forks' \in 0..MaxForks
             /\ UNCHANGED <<pc, locals, faults>>
  <2>1. f \in 0..Height(chain) /\ Height(side) + 1 - f \in Nat
    BY <1>6, HeightIsNat, HeaderAssumption DEF OtherRelayFork, IInv, TypeOK
  <2>2. /\ Branch(f, Height(side) + 1 - f) \in Block
        /\ Height(Branch(f, Height(side) + 1 - f)) = f + (Height(side) + 1 - f)
    BY <1>6, <2>1, BranchIsBlock DEF OtherRelayFork, IInv, TypeOK
  <2>3. f + (Height(side) + 1 - f) > Height(side) /\ forks' \in 0..MaxForks
    BY <1>6, <2>1, HeightIsNat, HeaderAssumption DEF OtherRelayFork, IInv, TypeOK
  <2> QED BY <1>6, <2>2, <2>3 DEF OtherRelayFork, SideRises, IInv, TypeOK
<1> QED BY <1>1, <1>2, <1>3, <1>4, <1>5, <1>6 DEF Environment

LEMMA EnvironmentKeeps == ASSUME IInv, Environment PROVE IInv'
<1>1. Rises
  BY EnvironmentRises, HeightIsNat DEF Rises, NodeRises, SideRises, IInv, TypeOK
<1> QED BY <1>1, EnvironmentRises, RiseKeeps

LEMMA NextKeeps == IInv /\ [Next]_vars => IInv'
<1> SUFFICES ASSUME IInv, [Next]_vars PROVE IInv'
  OBVIOUS
<1>1. CASE ReadFullNode \/ CheckBest \/ RelayTheRest \/ UNCHANGED vars
  BY <1>1
  DEF ReadFullNode, CheckBest, RelayTheRest, vars, Goto, node, locals, IInv, TypeOK, PCs,
      HeightsOK, WalkOK, BatchOK, StartIsOnSideChain
<1>2. CASE ReadSideChain
  BY <1>2, ReadSideChainKeeps
<1>3. CASE ReadInfo
  BY <1>3, ReadInfoKeeps
<1>4. CASE FetchLeft
  BY <1>4, FetchLeftKeeps
<1>5. CASE FetchRight
  BY <1>5, FetchRightKeeps
<1>6. CASE Walk
  BY <1>6, WalkKeeps
<1>7. CASE FetchStart
  BY <1>7, FetchStartKeeps
<1>8. CASE FetchNext
  BY <1>8, FetchNextKeeps
<1>9. CASE BatchDone
  BY <1>9, BatchDoneKeeps
<1>10. CASE Submit
  BY <1>10, SubmitKeeps
<1>11. CASE RelayHeaderFails
  BY <1>11, RelayHeaderFailsKeeps
<1>12. CASE Environment
  BY <1>12, EnvironmentKeeps
<1> QED
  BY <1>1, <1>2, <1>3, <1>4, <1>5, <1>6, <1>7, <1>8, <1>9, <1>10, <1>11, <1>12 DEF Next, Step

LEMMA SpecKeepsIInv == Spec => []IInv
BY Initially, NextKeeps, PTL DEF Spec

--------------------------------------------------------------------------------
(* Theorems *)

\* Every variable of the header relay has its type, however the node and the
\* other relayers interfere.
THEOREM TypeCorrect == Spec => []TypeOK
<1>1. IInv => TypeOK
  BY DEF IInv
<1> QED BY <1>1, SpecKeepsIInv, PTL

\* commonAncestor (relayer 186-229) returns a block of the light client's
\* chain, and the batch begins above it: StartIsOnSideChain.
THEOREM BatchStartsOnSideChain == Spec => []StartIsOnSideChain
<1>1. IInv => StartIsOnSideChain
  BY DEF IInv
<1> QED BY <1>1, SpecKeepsIInv, PTL

\* The light client contract takes a batch that reaches the node's best block,
\* if its own best block has not moved: CompleteBatchIsAccepted.
THEOREM CompleteBatchesAreAccepted == Spec => []CompleteBatchIsAccepted
<1>1. ASSUME IInv, pc = "submit", side = at, batch[Len(batch)] = chain,
             Height(chain) > Height(at)
      PROVE  Accepts(batch)
  <2>1. batch \in Seq(Block \ {Null}) /\ batch # << >>
    BY <1>1 DEF IInv, TypeOK, BatchOK
  <2>2. Len(batch) > 0
    BY <2>1, EmptySeq
  <2>3. OnChain(Ancestor(batch[1], Height(batch[1]) - 1), side)
    BY <1>1, <2>1 DEF IInv, StartIsOnSideChain
  <2>4. \A i \in 1..Len(batch) - 1 : Ancestor(batch[i + 1], Height(batch[i])) = batch[i]
    BY <1>1 DEF IInv, BatchOK, IsParent
  <2> QED BY <1>1, <2>2, <2>3, <2>4 DEF Accepts
<1>2. IInv => CompleteBatchIsAccepted
  BY <1>1 DEF CompleteBatchIsAccepted
<1> QED BY <1>2, SpecKeepsIInv, PTL

\* relay goes on to the deposits and checkpoints (relayer 96) with the light
\* client at or above the block it was last in step with: RestIsInStep.
THEOREM TheRestIsInStep == Spec => []RestIsInStep
<1>1. IInv => RestIsInStep
  BY DEF IInv, HeightsOK, RestIsInStep
<1> QED BY <1>1, SpecKeepsIInv, PTL

\* The safety half of HeaderFollow: both start at one block, and a step moves
\* the node or the light client to a higher block or leaves both alone.
THEOREM FollowsSafely == Spec => HF!Init /\ [][HF!Next]_<<chain, side>>
<1>1. Init => HF!Init
  <2>1. Init => chain = side /\ Height(chain) >= 1
    BY Initially DEF Init, IInv, HeightsOK
  <2> QED BY <2>1 DEF HF!Init, HF!Height, Height
<1>2. IInv /\ [Next]_vars => [HF!Next]_<<chain, side>>
  <2> SUFFICES ASSUME IInv, [Next]_vars PROVE [HF!Next]_<<chain, side>>
    OBVIOUS
  <2>1. NodeRises \/ SideRises => HF!Next
    BY DEF NodeRises, SideRises, HF!Next, HF!NodeMoves, HF!SideMoves, HF!Height, Height
  <2>2. CASE Environment
    BY <2>1, <2>2, EnvironmentRises
  <2>3. CASE Submit
    BY <2>1, <2>3, SubmitRaises DEF Submit, node, SideRises
  <2>4. CASE ~Environment /\ ~Submit
    BY <2>4
    DEF Next, Step, ReadFullNode, ReadSideChain, ReadInfo, FetchLeft, FetchRight, Walk,
        FetchStart, FetchNext, BatchDone, CheckBest, RelayTheRest, RelayHeaderFails, vars, node
  <2> QED BY <2>2, <2>3, <2>4
<1> QED BY <1>1, <1>2, SpecKeepsIInv, PTL DEF Spec

================================================================================
