-------------------------- MODULE RelayDeposit_proofs --------------------------
(***************************************************************************)
(* What holds of the deposit loop for every set of transactions, every     *)
(* layout of outputs and every bound: its types, the mark of every pending *)
(* row, and the heights a scan asks for.  They are one induction: the mark needs every scanned block   *)
(* to have a height above 0, which needs the scan to stay above height 0,  *)
(* which needs the light client never to go back.                          *)
(***************************************************************************)
EXTENDS RelayDeposit, SequenceTheorems, TLAPS

\* The output under the loops is one the transaction has, and its script has
\* been found among the watched ones, at the awaits where that matters.
CursorOK ==
    /\ pc \in {"mempoolOut", "mempoolIndex", "output", "relay"} => cur \in Tx \X Nat
    /\ pc \in {"mempoolIndex", "relay"} => CurHasOutput /\ CurScript \in Script
    /\ pc = "mempoolIndex" => CurTx \in relayed
    /\ Visiting => CurVout >= 1

\* Neither the node nor the light client falls back below where it started.
HeightsOK ==
    /\ Height(chain) >= InitHeight
    /\ Height(side) >= InitHeight
    /\ Height(tip) <= Height(side)

\* Every block in the scan has a height above 0.
ScanOK ==
    /\ pc = "scan" => numBlocks <= Height(side)
    /\ ScanHeightsExist
    /\ \A b \in blocks : Height(b.hash) >= 1
    /\ pc \in {"tx", "output", "relay"} => Height(hash) >= 1

IInv ==
    /\ TypeOK
    /\ CursorOK
    /\ HeightsOK
    /\ ScanOK
    /\ UnconfirmedRowIsMarked

--------------------------------------------------------------------------------
(* Lemmas on the deposit index *)

\* insertDeposit adds at most the row it is given.
LEMMA InsertDepositAdds ==
    ASSUME NEW idx, NEW s, NEW t, NEW i, NEW h
    PROVE  InsertDeposit(idx, s, t, i, h) \subseteq idx \cup {IndexRow(s, t, i, h)}
BY DEF InsertDeposit, Insert

\* removeDeposit adds nothing.
LEMMA RemoveDepositShrinks ==
    ASSUME NEW idx, NEW s, NEW t, NEW i
    PROVE  RemoveDeposit(idx, s, t, i) \subseteq idx
BY DEF RemoveDeposit, Delete

--------------------------------------------------------------------------------
(* Lemmas on chains *)

LEMMA AncestorIsBlock ==
    ASSUME NEW b \in Block, NEW h \in 0..Height(b)
    PROVE  Ancestor(b, h) \in Block /\ Height(Ancestor(b, h)) = h
BY BoundsAssumption DEF Block, Ancestor, Height

LEMMA MinedIsBlock ==
    ASSUME NEW b \in Block, Height(b) >= 1
    PROVE  /\ Append(b, b[Height(b)]) \in Block
           /\ Height(Append(b, b[Height(b)])) = Height(b) + 1
<1>1. b[Height(b)] \in 0..MaxForks
  <2>1. b \in Seq(0..MaxForks) /\ Len(b) >= 1
    BY DEF Block, Height
  <2>2. Len(b) \in 1..Len(b)
    BY <2>1
  <2>3. QED
    BY <2>1, <2>2, ElementOfSeq DEF Height
<1>2. QED
  BY <1>1 DEF Block, Height

LEMMA BranchIsBlock ==
    ASSUME chain \in Block, forks \in 0..MaxForks, forks < MaxForks,
           NEW f \in 0..Height(chain), NEW n \in Nat
    PROVE  Branch(f, n) \in Block /\ Height(Branch(f, n)) = f + n
<1>1. Ancestor(chain, f) \in Block /\ Height(Ancestor(chain, f)) = f
  BY AncestorIsBlock
<1>2. forks + 1 \in 0..MaxForks
  BY BoundsAssumption
<1> DEFINE new == [i \in 1..n |-> forks + 1]
<1>3. new \in Seq(0..MaxForks) /\ Len(new) = n
  BY <1>2
<1>4. QED
  BY <1>1, <1>3 DEF Branch, Block, Height

--------------------------------------------------------------------------------
(* The induction *)

LEMMA InitIsGood == Init => IInv
<1> SUFFICES ASSUME Init PROVE IInv
  OBVIOUS
<1> DEFINE start == [h \in 1..InitHeight |-> 0]
<1>1. start \in Seq(0..MaxForks) /\ Len(start) = InitHeight
  <2>1. 0 \in 0..MaxForks /\ InitHeight \in Nat
    BY BoundsAssumption, InitHeightAssumption
  <2>2. QED
    BY <2>1
<1>2. chain = start /\ side = start
  BY DEF Init
<1>3. Null \in Block /\ Height(Null) = 0
  BY EmptySeq DEF Null, Block, Height
<1> HIDE DEF start
<1>4. chain \in Block /\ Height(chain) = InitHeight
  BY <1>1, <1>2 DEF Block, Height
<1>5. TypeOK
  <2>1. minedAt \in [Tx -> Nat] /\ pc \in PCs /\ cur \in (Tx \X Nat) \cup {NoCur}
    BY DEF Init, PCs
  <2>2. side \in Block /\ lastHash \in Block /\ prevTip \in Block
        /\ tip \in Block /\ hash \in Block
    BY <1>2, <1>3, <1>4 DEF Init
  <2>3. known \subseteq Block
    BY <1>4 DEF Init
  <2>5. mempool = {} /\ processed = {} /\ expired = {} /\ watched = {} /\ index = {}
        /\ missed = {} /\ relayed = {} /\ blocks = {} /\ todo = {}
    BY DEF Init
  <2>4. forks \in 0..MaxForks /\ numBlocks \in Nat /\ next \in Int /\ low \in Int
        /\ faults \in Nat /\ missed \subseteq Tx \X Nat
    BY BoundsAssumption DEF Init
  <2>6. QED
    BY <1>4, <2>1, <2>2, <2>3, <2>4, <2>5 DEF TypeOK
<1>6. QED
  BY <1>2, <1>3, <1>4, <1>5, InitHeightAssumption
  DEF Init, IInv, CursorOK, Visiting, HeightsOK, ScanOK, ScanHeightsExist,
      UnconfirmedRowIsMarked

LEMMA HeightIsNat == ASSUME NEW b \in Block PROVE Height(b) \in Nat
BY DEF Block, Height

LEMMA NullIsBlock == Null \in Block /\ Height(Null) = 0
BY EmptySeq DEF Null, Block, Height

\* The outputs a mempool scan counts as missed are outputs.
LEMMA OutpointsAreTyped == Outpoints \subseteq Tx \X Nat
<1> SUFFICES ASSUME NEW t \in Tx, NEW i \in DOMAIN Outputs[t] PROVE <<t, i>> \in Tx \X Nat
  BY DEF Outpoints
<1> QED BY OutputsAssumption

LEMMA RelayHeadersKeeps == ASSUME IInv, RelayHeaders PROVE IInv'
<1>1. side' \in Block /\ Height(side') \in Nat /\ Height(side') >= Height(side)
  BY AncestorIsBlock, HeightIsNat DEF RelayHeaders, IInv, TypeOK
<1>2. Height(side') >= InitHeight /\ Height(tip) <= Height(side')
  BY <1>1, HeightIsNat, InitHeightAssumption DEF IInv, TypeOK, HeightsOK
<1>3. pc = "header" /\ pc' = "best"
  BY DEF RelayHeaders, Goto
<1>4. QED
  BY <1>1, <1>2, <1>3
  DEF RelayHeaders, Goto, btc, remote, tables, scan, tips, book,
      IInv, TypeOK, PCs, CursorOK, Visiting, CurTx, CurVout, CurScript, CurHasOutput,
      HeightsOK, ScanOK, ScanHeightsExist, UnconfirmedRowIsMarked

LEMMA ReadTipKeeps == ASSUME IInv, ReadTip PROVE IInv'
<1>1. tip' \in Block /\ prevTip' \in Block /\ Height(tip') <= Height(side)
  BY HeightIsNat DEF ReadTip, IInv, TypeOK, HeightsOK
<1>2. pc' \in {"header", "gap"}
  BY DEF ReadTip, Goto
<1>3. QED
  BY <1>1, <1>2
  DEF ReadTip, btc, remote, tables, scan, tips, book,
      IInv, TypeOK, PCs, CursorOK, Visiting, CurTx, CurVout, CurScript, CurHasOutput,
      HeightsOK, ScanOK, ScanHeightsExist, UnconfirmedRowIsMarked

\* numBlocks is at most the height of the light client: the gap is at most the
\* height of tip, and the minimum at most the height the chain started with.
LEMMA MeasureGapKeeps == ASSUME IInv, MeasureGap PROVE IInv'
<1>1. numBlocks' \in Nat /\ numBlocks' <= Height(side)
  BY HeightIsNat, InitHeightAssumption DEF MeasureGap, ScanSize, IInv, TypeOK, HeightsOK
<1>2. QED
  BY <1>1
  DEF MeasureGap, Goto, btc, remote, tables, scan, tips, book,
      IInv, TypeOK, PCs, CursorOK, Visiting, CurTx, CurVout, CurScript, CurHasOutput,
      HeightsOK, ScanOK, ScanHeightsExist, UnconfirmedRowIsMarked

LEMMA BeginScanKeeps == ASSUME IInv, BeginScan PROVE IInv'
<1>1. next' \in Int /\ low' \in Int /\ low' >= 1
  BY HeightIsNat DEF BeginScan, LowestHeight, IInv, TypeOK, ScanOK
<1>2. QED
  BY <1>1
  DEF BeginScan, Goto, btc, remote, tables, scan, tips, book,
      IInv, TypeOK, PCs, CursorOK, Visiting, CurTx, CurVout, CurScript, CurHasOutput,
      HeightsOK, ScanOK, ScanHeightsExist, UnconfirmedRowIsMarked

LEMMA ReadChunkKeeps == IInv /\ ReadChunk => IInv'
<1> SUFFICES ASSUME IInv, ReadChunk PROVE IInv'
  OBVIOUS
<1>1. \A b \in blocks' : /\ b \in [hash : Block, txs : SUBSET Tx]
                         /\ Height(b.hash) >= 1
  <2> SUFFICES ASSUME NEW b \in blocks'
               PROVE  b \in [hash : Block, txs : SUBSET Tx] /\ Height(b.hash) >= 1
    OBVIOUS
  <2>1. PICK h \in low..next : b = [hash |-> Ancestor(chain, h), txs |-> TxsAt(h)]
    BY DEF ReadChunk, Chunk
  <2>2. h \in 1..Height(chain)
    BY DEF ReadChunk, IInv, TypeOK, ScanOK, ScanHeightsExist, Height, Block
  <2>3. QED
    BY <2>1, <2>2, AncestorIsBlock DEF TxsAt, IInv, TypeOK, Height, Block
<1>2. QED
  BY <1>1, ChunkAssumption
  DEF ReadChunk, Goto, btc, remote, tables, scan, tips, book,
      IInv, TypeOK, PCs, CursorOK, Visiting, HeightsOK, ScanOK, ScanHeightsExist,
      UnconfirmedRowIsMarked

LEMMA MempoolOutKeeps == ASSUME IInv, MempoolOut PROVE IInv'
<1>1. relayed' \subseteq Tx /\ relayed \subseteq relayed'
  BY DEF MempoolOut, Mark, IInv, TypeOK, CursorOK, Visiting, CurTx
<1>2. TypeOK'
  BY <1>1 DEF MempoolOut, Goto, NextOutput, btc, remote, tables, scan, tips, book,
      IInv, TypeOK, PCs, CursorOK, Visiting, CurTx, CurVout
<1>3. CursorOK'
  BY DEF MempoolOut, Goto, NextOutput, Mark, IsWatched, btc, remote, tables, scan, tips, book,
      IInv, TypeOK, CursorOK, Visiting, CurTx, CurVout, CurScript, CurHasOutput
<1>4. HeightsOK' /\ ScanOK' /\ UnconfirmedRowIsMarked'
  BY <1>1 DEF MempoolOut, Goto, btc, remote, tables, scan, tips, book, IInv, HeightsOK, ScanOK,
      ScanHeightsExist, UnconfirmedRowIsMarked
<1>5. QED
  BY <1>2, <1>3, <1>4 DEF IInv

\* The row a scan writes: a pending one is marked, any other has a height.
LEMMA MempoolIndexKeeps == ASSUME IInv, MempoolIndex PROVE IInv'
<1> DEFINE row == IndexRow(CurScript, CurTx, CurVout, 0)
<1>1. index' \subseteq index \cup {row}
  BY InsertDepositAdds DEF MempoolIndex
<1>2. /\ row \in [script : Script, txid : Tx, vout : Nat, height : Nat]
      /\ row.txid \in relayed
  BY DEF MempoolIndex, IndexRow, IInv, CursorOK, Visiting, CurTx, CurVout
<1> HIDE DEF row
<1>4. UnconfirmedRowIsMarked'
  BY <1>1, <1>2 DEF MempoolIndex, IInv, UnconfirmedRowIsMarked
<1>5. index' \subseteq [script : Script, txid : Tx, vout : Nat, height : Nat]
  BY <1>1, <1>2 DEF IInv, TypeOK
<1>6. QED
  BY <1>4, <1>5
  DEF MempoolIndex, Goto, NextOutput, btc, remote, tips, book,
      IInv, TypeOK, PCs, CursorOK, Visiting, CurTx, CurVout, HeightsOK, ScanOK, ScanHeightsExist

LEMMA OutputKeeps == ASSUME IInv, Output PROVE IInv'
<1> DEFINE row == IndexRow(CurScript, CurTx, CurVout, Height(hash))
<1> USE DEF Output
<1>1. \/ index' \subseteq index
      \/ index' \subseteq index \cup {row} /\ CurHasOutput /\ IsWatched(CurScript)
  <2>1. CASE index' = RemoveDeposit(index, CurScript, CurTx, CurVout)
    BY <2>1, RemoveDepositShrinks
  <2>2. CASE /\ CurHasOutput /\ IsWatched(CurScript)
             /\ index' = InsertDeposit(index, CurScript, CurTx, CurVout, Height(hash))
    BY <2>2, InsertDepositAdds
  <2>3. CASE index' = index
    BY <2>3
  <2>4. QED
    BY <2>1, <2>2, <2>3
<1>2. /\ CurHasOutput /\ IsWatched(CurScript) =>
            row \in [script : Script, txid : Tx, vout : Nat, height : Nat]
      /\ row.height # 0
  BY HeightIsNat DEF IndexRow, IsWatched, IInv, TypeOK, CursorOK, Visiting, CurTx, CurVout, ScanOK
<1> HIDE DEF row
<1>4. UnconfirmedRowIsMarked'
  BY <1>1, <1>2 DEF IInv, UnconfirmedRowIsMarked
<1>5. index' \subseteq [script : Script, txid : Tx, vout : Nat, height : Nat]
  BY <1>1, <1>2 DEF IInv, TypeOK
<1>6. CursorOK'
  BY DEF Goto, NextOutput, IsWatched, btc, remote, tables, scan, tips, book, IInv, TypeOK, CursorOK,
      Visiting, CurTx, CurVout, CurScript, CurHasOutput
<1>7. cur' \in (Tx \X Nat) \cup {NoCur} /\ pc' \in {"output", "relay", "tx"}
  BY DEF Goto, NextOutput, IInv, CursorOK, Visiting, CurTx, CurVout
<1>8. QED
  BY <1>4, <1>5, <1>6, <1>7
  DEF btc, remote, tips, book, IInv, TypeOK, PCs, HeightsOK, ScanOK, ScanHeightsExist

LEMMA MempoolTxKeeps == ASSUME IInv, NEW t \in Tx, MempoolTx(t) PROVE IInv'
<1>1. missed' \subseteq Tx \X Nat /\ cur' \in (Tx \X Nat) \cup {NoCur}
  BY DEF MempoolTx, IInv, TypeOK
<1>2. CursorOK'
  BY DEF MempoolTx, Goto, tables, IInv, CursorOK, Visiting, CurTx, CurVout
<1>3. QED
  BY <1>1, <1>2
  DEF MempoolTx, Goto, btc, remote, tables, scan, tips, IInv, TypeOK, PCs,
      HeightsOK, ScanOK, ScanHeightsExist, UnconfirmedRowIsMarked

LEMMA ScanMempoolFailsKeeps == ASSUME IInv, ScanMempoolFails PROVE IInv'
<1>1. missed' \subseteq Tx \X Nat
  BY OutpointsAreTyped DEF ScanMempoolFails, BrokenOff, IInv, TypeOK
<1>2. QED
  BY <1>1
  DEF ScanMempoolFails, MayFail, Goto, btc, remote, tables, scan, tips, Visiting,
      IInv, TypeOK, PCs, CursorOK, Visiting, HeightsOK, ScanOK, ScanHeightsExist,
      UnconfirmedRowIsMarked

LEMMA SubmitDepositAddressKeeps ==
    ASSUME IInv, NEW s \in Script, SubmitDepositAddress(s)
    PROVE  IInv'
<1>1. missed' \subseteq Tx \X Nat /\ watched' \subseteq Script
  BY OutpointsAreTyped DEF SubmitDepositAddress, IInv, TypeOK
<1>2. QED
  BY <1>1
  DEF SubmitDepositAddress, btc, remote, scan, tips, Visiting,
      IInv, TypeOK, CursorOK, Visiting, CurTx, CurVout, CurScript, CurHasOutput,
      HeightsOK, ScanOK, ScanHeightsExist, UnconfirmedRowIsMarked

LEMMA CrashKeeps == ASSUME IInv, Crash PROVE IInv'
<1>1. /\ tip' \in Block /\ Height(tip') <= Height(side)
      /\ missed' \subseteq Tx \X Nat
  BY NullIsBlock, HeightIsNat, OutpointsAreTyped DEF Crash, BrokenOff, IInv, TypeOK
<1>2. QED
  BY <1>1, NullIsBlock
  DEF Crash, Goto, btc, remote, tables, scan, tips, book,
      IInv, TypeOK, PCs, CursorOK, Visiting, CurTx, CurVout, CurScript, CurHasOutput,
      HeightsOK, ScanOK, ScanHeightsExist, UnconfirmedRowIsMarked

\* The node's chain changes, and only to a higher block.
LEMMA NodeMovesKeeps ==
    ASSUME IInv, NEW best \in Block, NEW f, NEW ts, Height(best) >= Height(chain),
           NodeMovesTo(best, f, ts), forks' \in 0..MaxForks,
           UNCHANGED <<remote, tables, pc, scan, tips, book>>
    PROVE  IInv'
<1>1. minedAt' \in [Tx -> Nat] /\ mempool' \subseteq Tx /\ chain' \in Block
      /\ Height(chain') >= InitHeight
      /\ known' \subseteq Block
  BY HeightIsNat, InitHeightAssumption DEF NodeMovesTo, IInv, TypeOK, HeightsOK
<1>2. QED
  BY <1>1
  DEF btc, remote, tables, scan, tips, book,
      IInv, TypeOK, PCs, CursorOK, Visiting, CurTx, CurVout, CurScript, CurHasOutput,
      HeightsOK, ScanOK, ScanHeightsExist, UnconfirmedRowIsMarked

LEMMA OtherRelayForkKeeps ==
    ASSUME IInv, NEW f \in 0..MaxHeight, f < Height(chain), OtherRelayFork(f)
    PROVE  IInv'
<1>1. f \in 0..Height(chain) /\ Height(side) + 1 - f \in Nat
  BY HeightIsNat, BoundsAssumption DEF OtherRelayFork, IInv, TypeOK
<1>2. side' \in Block /\ Height(side') = Height(side) + 1 /\ forks' \in 0..MaxForks
  <2>1. Height(Branch(f, Height(side) + 1 - f)) = f + (Height(side) + 1 - f)
        /\ Branch(f, Height(side) + 1 - f) \in Block
    BY <1>1, BranchIsBlock DEF OtherRelayFork, IInv, TypeOK
  <2>2. QED
    BY <2>1, <1>1, HeightIsNat, BoundsAssumption DEF OtherRelayFork, IInv, TypeOK
<1>3. QED
  BY <1>2, HeightIsNat, InitHeightAssumption
  DEF OtherRelayFork, btc, remote, tables, scan, tips, book,
      IInv, TypeOK, PCs, CursorOK, Visiting, CurTx, CurVout, CurScript, CurHasOutput,
      HeightsOK, ScanOK, ScanHeightsExist, UnconfirmedRowIsMarked

LEMMA NextKeeps == IInv /\ [Next]_vars => IInv'
<1> SUFFICES ASSUME IInv, [Next]_vars PROVE IInv'
  OBVIOUS
<1> USE DEF Goto, MayFail, Fault, ScanEnds, NextOutput, btc, remote, tables, scan, tips, book,
      IInv, TypeOK, PCs, CursorOK, Visiting, CurTx, CurVout, CurScript, CurHasOutput,
      HeightsOK, ScanOK, ScanHeightsExist, UnconfirmedRowIsMarked
<1>1. CASE UNCHANGED vars
  BY <1>1 DEF vars
<1>2. CASE RelayHeaders
  BY <1>2, RelayHeadersKeeps
<1>3. CASE HeadersUpToDate
  BY <1>3 DEF HeadersUpToDate
<1>4. CASE CheckBest
  BY <1>4 DEF CheckBest
<1>5. CASE ScanMempool
  BY <1>5 DEF ScanMempool
<1>6. ASSUME NEW t \in Tx, MempoolTx(t) PROVE IInv'
  BY <1>6, MempoolTxKeeps
<1>7. CASE MempoolDone
  BY <1>7 DEF MempoolDone
<1>8. CASE MempoolOut
  BY <1>8, MempoolOutKeeps
<1>9. CASE MempoolIndex
  BY <1>9, MempoolIndexKeeps
<1>10. CASE ReadTip
  BY <1>10, ReadTipKeeps
<1>11. CASE MeasureGap
  BY <1>11, MeasureGapKeeps
<1>12. CASE BeginScan
  BY <1>12, BeginScanKeeps
<1>13. CASE ReadChunk
  BY <1>13, ReadChunkKeeps
<1>14. CASE ChunkMissesBlock
  BY <1>14, NullIsBlock DEF ChunkMissesBlock
<1>15. CASE ScanDone
  BY <1>15, NullIsBlock DEF ScanDone
<1>16. CASE FilterBlock
  BY <1>16 DEF FilterBlock
<1>17. CASE ChunkDone
  BY <1>17 DEF ChunkDone
<1>18. CASE RemoveExpired
  BY <1>18 DEF RemoveExpired
<1>19. ASSUME NEW t \in Tx, BlockTx(t) PROVE IInv'
  BY <1>19 DEF BlockTx
<1>20. CASE BlockDone
  BY <1>20, NullIsBlock DEF BlockDone
<1>21. CASE Output
  BY <1>21, OutputKeeps
<1>22. CASE RelayDepositTx
  BY <1>22 DEF RelayDepositTx
<1>23. CASE RelayHeadersFails
  BY <1>23 DEF RelayHeadersFails
<1>24. CASE ScanMempoolFails
  BY <1>24, ScanMempoolFailsKeeps
<1>25. CASE RelayDepositFails
  BY <1>25 DEF RelayDepositFails
<1>26. CASE ScanFails
  <2>1. pc' = "header" /\ prevTip' = tip
    BY <1>26 DEF ScanFails
  <2>2. QED
    BY <1>26, <2>1, NullIsBlock DEF ScanFails
<1>27. CASE RelayDepositTxFails
  BY <1>27 DEF RelayDepositTxFails
<1>28. CASE MaybeRelayDepositFails
  BY <1>28 DEF MaybeRelayDepositFails
<1>29. CASE Crash
  BY <1>29, CrashKeeps
<1>30. ASSUME NEW s \in Script, SubmitDepositAddress(s) PROVE IInv'
  BY <1>30, SubmitDepositAddressKeeps
<1>31. ASSUME NEW s \in Script, Expire(s) PROVE IInv'
  BY <1>31 DEF Expire
<1>32. ASSUME NEW t \in Tx, Broadcast(t) PROVE IInv'
  BY <1>32 DEF Broadcast
<1>33. ASSUME NEW t \in Tx, Evict(t) PROVE IInv'
  BY <1>33 DEF Evict
<1>34. CASE Mine
  <2> DEFINE best == Append(chain, chain[Height(chain)])
  <2>1. best \in Block /\ Height(best) >= Height(chain)
    BY MinedIsBlock, HeightIsNat, InitHeightAssumption
  <2>2. PICK ts \in SUBSET mempool : NodeMovesTo(best, Height(chain), ts)
    BY <1>34 DEF Mine
  <2>3. forks' \in 0..MaxForks /\ UNCHANGED <<remote, tables, pc, scan, tips, book>>
    BY <1>34 DEF Mine
  <2> HIDE DEF best
  <2>4. QED
    BY <2>1, <2>2, <2>3, NodeMovesKeeps
<1>35. ASSUME NEW f \in 0..MaxHeight, f < Height(chain), Reorg(f) PROVE IInv'
  <2> DEFINE best == Branch(f, Height(chain) + 1 - f)
  <2>1. best \in Block /\ Height(best) >= Height(chain)
    <3>1. f \in 0..Height(chain) /\ Height(chain) + 1 - f \in Nat
      BY <1>35, HeightIsNat, BoundsAssumption
    <3>2. best \in Block /\ Height(best) = f + (Height(chain) + 1 - f)
      BY <3>1, <1>35, BranchIsBlock DEF Reorg
    <3>3. QED
      BY <3>1, <3>2, HeightIsNat
  <2>2. PICK ts : NodeMovesTo(best, f, ts)
    BY <1>35 DEF Reorg
  <2>3. forks' \in 0..MaxForks /\ UNCHANGED <<remote, tables, pc, scan, tips, book>>
    BY <1>35, BoundsAssumption DEF Reorg
  <2> HIDE DEF best
  <2>4. QED
    BY <2>1, <2>2, <2>3, NodeMovesKeeps
<1>36. CASE AdoptFork
  <2>1. PICK f, ts : NodeMovesTo(side, f, ts)
    BY <1>36 DEF AdoptFork
  <2>2. Height(side) >= Height(chain)
    BY <1>36, HeightIsNat DEF AdoptFork
  <2>3. forks' \in 0..MaxForks /\ UNCHANGED <<remote, tables, pc, scan, tips, book>>
    BY <1>36 DEF AdoptFork
  <2>4. QED
    BY <2>1, <2>2, <2>3, NodeMovesKeeps
<1>37. CASE OtherRelayHeaders
  BY <1>37, HeightIsNat, InitHeightAssumption DEF OtherRelayHeaders
<1>38. ASSUME NEW f \in 0..MaxHeight, f < Height(chain), OtherRelayFork(f) PROVE IInv'
  BY <1>38, OtherRelayForkKeeps
<1>39. ASSUME NEW t \in Tx, NEW i \in DOMAIN Outputs[t], OtherRelayDeposit(t, i)
      PROVE  IInv'
  <2>1. i \in Nat
    BY OutputsAssumption
  <2>2. QED
    BY <1>39, <2>1 DEF OtherRelayDeposit
<1>40. CASE GapUnknown
  BY <1>40 DEF GapUnknown
<1>41. CASE NodeLearns
  BY <1>41 DEF NodeLearns
<1>42. QED
  BY <1>1, <1>2, <1>3, <1>4, <1>5, <1>6, <1>7, <1>8, <1>9, <1>10, <1>11, <1>12,
     <1>13, <1>14, <1>15, <1>16, <1>17, <1>18, <1>19, <1>20, <1>21, <1>22, <1>23, <1>24,
     <1>25, <1>26, <1>27, <1>28, <1>29, <1>30, <1>31, <1>32, <1>33, <1>34, <1>35, <1>36,
     <1>37, <1>38, <1>39, <1>40, <1>41
  DEF Next, Step, MempoolStep, ScanStep, StepFails, Environment

--------------------------------------------------------------------------------
(* Theorems *)

LEMMA SpecKeepsIInv == Spec => []IInv
BY InitIsGood, NextKeeps, PTL DEF Spec

\* Every variable of the loop has its type, whatever is mined, reorganised,
\* failed or restarted.
THEOREM TypeCorrect == Spec => []TypeOK
<1>1. IInv => TypeOK
  BY DEF IInv
<1>2. QED
  BY <1>1, SpecKeepsIInv, PTL

\* A pending row's transaction is in the relayed set, across crashes.
THEOREM PendingRowsAreMarked == Spec => []UnconfirmedRowIsMarked
<1>1. IInv => UnconfirmedRowIsMarked
  BY DEF IInv
<1>2. QED
  BY <1>1, SpecKeepsIInv, PTL

\* No scan reaches below the first block, whatever the window and the gap.
THEOREM ScansStayOnChain == Spec => []ScanHeightsExist
<1>1. IInv => ScanHeightsExist
  BY DEF IInv, ScanOK
<1>2. QED
  BY <1>1, SpecKeepsIInv, PTL

--------------------------------------------------------------------------------
(* The pending list *)

\* After insertDeposit the transaction has a row, and no row is gone.
LEMMA InsertDepositLists ==
    ASSUME NEW idx, NEW s, NEW t, NEW i, NEW h
    PROVE  /\ idx \subseteq InsertDeposit(idx, s, t, i, h)
           /\ \E r \in InsertDeposit(idx, s, t, i, h) : r.txid = t /\ r.vout = i
<1> DEFINE row == IndexRow(s, t, i, h)
<1>1. row.txid = t /\ row.vout = i
  BY DEF IndexRow
<1>2. CASE GetDeposit(idx, s, t, i) = {}
  <2>1. InsertDeposit(idx, s, t, i, h) = Insert(idx, IndexKey, row)
    BY <1>2 DEF InsertDeposit
  <2> HIDE DEF row
  <2>2. CASE \E r \in idx : SameKey(IndexKey, r, row)
    <3>1. PICK r \in idx : SameKey(IndexKey, r, row)
      BY <2>2
    <3>2. r.txid = row.txid /\ r.vout = row.vout
      BY <3>1 DEF SameKey, IndexKey
    <3> QED BY <1>1, <2>1, <2>2, <3>1, <3>2 DEF Insert
  <2>3. CASE ~ \E r \in idx : SameKey(IndexKey, r, row)
    BY <1>1, <2>1, <2>3 DEF Insert
  <2> QED BY <2>2, <2>3
<1>3. CASE GetDeposit(idx, s, t, i) # {}
  <2>1. PICK r \in idx : Matches(r, Outpoint(s, t, i))
    BY <1>3 DEF GetDeposit, Select
  <2>2. r.txid = t /\ r.vout = i
    BY <2>1 DEF Matches, Outpoint
  <2> QED BY <1>3, <2>1, <2>2 DEF InsertDeposit
<1> QED BY <1>2, <1>3

\* removeDeposit drops the row of one outpoint.
LEMMA RemoveDepositDrops ==
    ASSUME NEW idx, NEW s, NEW t, NEW i, NEW r \in idx, r \notin RemoveDeposit(idx, s, t, i)
    PROVE  r.txid = t /\ r.vout = i
<1>1. Matches(r, Outpoint(s, t, i))
  BY DEF RemoveDeposit, Delete
<1> QED BY <1>1 DEF Matches, Outpoint

\* A row leaves in a step of maybeRelayDeposit alone, for the outpoint that the
\* contract has just been asked of.
LEMMA RowLeaves ==
    ASSUME IInv, [Next]_vars, NEW r \in index, r \notin index'
    PROVE  <<r.txid, r.vout>> \in processed
<1>1. Output
  <2>1. ~ UNCHANGED index
    OBVIOUS
  <2>2. ~ MempoolIndex
    BY InsertDepositLists DEF MempoolIndex
  <2>3. ~ (Mine \/ AdoptFork \/ NodeLearns \/ OtherRelayHeaders)
    BY <2>1 DEF Mine, AdoptFork, NodeLearns, OtherRelayHeaders, tables
  <2>4. \A f : ~Reorg(f) /\ ~OtherRelayFork(f)
    BY <2>1 DEF Reorg, OtherRelayFork, tables
  <2>5. \A t : ~Broadcast(t) /\ ~Evict(t) /\ \A i : ~OtherRelayDeposit(t, i)
    BY <2>1 DEF Broadcast, Evict, OtherRelayDeposit, tables
  <2>6. \A s : ~SubmitDepositAddress(s) /\ ~Expire(s)
    BY <2>1 DEF SubmitDepositAddress, Expire, tables
  <2>7. ~Environment
    BY <2>3, <2>4, <2>5, <2>6 DEF Environment
  <2>8. ~(StepFails \/ Crash \/ UNCHANGED vars)
    BY <2>1 DEF StepFails, RelayHeadersFails, ScanMempoolFails, RelayDepositFails, ScanFails,
       RelayDepositTxFails, MaybeRelayDepositFails, Crash, vars, tables
  <2>9. ~(RelayHeaders \/ HeadersUpToDate \/ CheckBest)
    BY <2>1 DEF RelayHeaders, HeadersUpToDate, CheckBest, tables
  <2>10. ~MempoolStep
    BY <2>1, <2>2 DEF MempoolStep, ScanMempool, MempoolTx, MempoolDone, MempoolOut, tables
  <2>11. ~(ReadTip \/ MeasureGap \/ GapUnknown \/ BeginScan \/ ReadChunk \/ ChunkMissesBlock \/ ScanDone)
    BY <2>1 DEF ReadTip, MeasureGap, GapUnknown, BeginScan, ReadChunk, ChunkMissesBlock, ScanDone, tables
  <2>12. ~(FilterBlock \/ ChunkDone \/ RemoveExpired \/ (\E t \in Tx : BlockTx(t)) \/ BlockDone \/ RelayDepositTx)
    BY <2>1 DEF FilterBlock, ChunkDone, RemoveExpired, BlockTx, BlockDone, RelayDepositTx, tables
  <2> QED BY <2>7, <2>8, <2>9, <2>10, <2>11, <2>12 DEF Next, Step, ScanStep
<1>2. index' = RemoveDeposit(index, CurScript, CurTx, CurVout) /\ ProcessedOutpoint
  BY <1>1, InsertDepositLists DEF Output
<1>3. r.txid = CurTx /\ r.vout = CurVout
  BY <1>2, RemoveDepositDrops
<1>4. cur \in Tx \X Nat
  BY <1>1 DEF Output, IInv, CursorOK
<1> QED BY <1>2, <1>3, <1>4 DEF ProcessedOutpoint, CurTx, CurVout

\* An outpoint leaves the pending list by itself and only once it is credited:
\* RowLeavesOnlyWhenCredited.
THEOREM CreditedRowsLeave == Spec => RowLeavesOnlyWhenCredited
<1>1. IInv /\ [Next]_vars => [\A r \in index : r \notin index' => <<r.txid, r.vout>> \in processed]_vars
  BY RowLeaves
<1> QED BY <1>1, SpecKeepsIInv, PTL DEF Spec, RowLeavesOnlyWhenCredited

--------------------------------------------------------------------------------
(* The marked transactions *)

\* What most steps leave alone: the marks, the outpoints that count as missed,
\* and the output a mempool scan is at.
Undisturbed ==
    /\ relayed' = relayed /\ watched' \subseteq watched
    /\ processed \subseteq processed' /\ missed' = missed
    /\ Visiting' = Visiting /\ (Visiting => cur' = cur)

LEMMA MostStepsLeaveMarks ==
    ASSUME [Next]_vars
    PROVE  \/ \E t \in Tx : MempoolTx(t)
           \/ MempoolOut \/ MempoolIndex \/ ScanMempoolFails \/ Crash
           \/ \E s \in Script : SubmitDepositAddress(s)
           \/ Undisturbed
<1> USE DEF Undisturbed, Visiting, Goto, btc, remote, tables, scan, tips, book
<1>1. CASE UNCHANGED vars
  BY <1>1 DEF vars
<1>2. CASE RelayHeaders \/ HeadersUpToDate \/ CheckBest
  BY <1>2 DEF RelayHeaders, HeadersUpToDate, CheckBest
<1>3. CASE ScanMempool \/ MempoolDone
  BY <1>3 DEF ScanMempool, MempoolDone
<1>4. CASE ReadTip \/ MeasureGap \/ GapUnknown \/ BeginScan
  BY <1>4 DEF ReadTip, MeasureGap, GapUnknown, BeginScan
<1>5. CASE ReadChunk \/ ChunkMissesBlock \/ ScanDone
  BY <1>5 DEF ReadChunk, ChunkMissesBlock, ScanDone, ScanEnds
<1>6. CASE FilterBlock \/ ChunkDone \/ RemoveExpired
  BY <1>6 DEF FilterBlock, ChunkDone, RemoveExpired, Fault
<1>7. CASE (\E t \in Tx : BlockTx(t)) \/ BlockDone
  BY <1>7 DEF BlockTx, BlockDone
<1>8. CASE Output \/ RelayDepositTx
  BY <1>8 DEF Output, RelayDepositTx
<1>9. CASE RelayHeadersFails \/ RelayDepositFails \/ ScanFails
           \/ RelayDepositTxFails \/ MaybeRelayDepositFails
  BY <1>9 DEF RelayHeadersFails, RelayDepositFails, ScanFails,
      RelayDepositTxFails, MaybeRelayDepositFails, Fault, ScanEnds
<1>10. CASE Environment
  <2>1. ASSUME NEW s, Expire(s) PROVE Undisturbed
    BY <2>1 DEF Expire
  <2>2. ASSUME NEW t, Broadcast(t) \/ Evict(t) PROVE Undisturbed
    BY <2>2 DEF Broadcast, Evict
  <2>3. CASE Mine \/ AdoptFork \/ NodeLearns \/ OtherRelayHeaders
    BY <2>3 DEF Mine, AdoptFork, NodeLearns, OtherRelayHeaders
  <2>4. ASSUME NEW f, Reorg(f) \/ OtherRelayFork(f) PROVE Undisturbed
    BY <2>4 DEF Reorg, OtherRelayFork
  <2>5. ASSUME NEW t, NEW i, OtherRelayDeposit(t, i) PROVE Undisturbed
    BY <2>5 DEF OtherRelayDeposit
  <2> QED BY <1>10, <2>1, <2>2, <2>3, <2>4, <2>5 DEF Environment
<1> QED
  BY <1>1, <1>2, <1>3, <1>4, <1>5, <1>6, <1>7, <1>8, <1>9, <1>10
  DEF Next, Step, StepFails, MempoolStep, ScanStep

\* What accounts for an output that the mempool scans are past.
Accounted(o) ==
    \/ \E r \in index : r.txid = o[1] /\ r.vout = o[2]
    \/ o \in processed \cup missed

\* A row is dropped only once it is credited: what accounts for an output stays.
LEMMA StaysAccounted ==
    ASSUME IInv, [Next]_vars, NEW o \in Outpoints, Accounted(o),
           processed \subseteq processed', o \in missed => o \in missed'
    PROVE  Accounted(o)'
<1>1. CASE \E r \in index : r.txid = o[1] /\ r.vout = o[2]
  <2>1. PICK r \in index : r.txid = o[1] /\ r.vout = o[2]
    BY <1>1
  <2>2. CASE r \in index'
    BY <2>1, <2>2 DEF Accounted
  <2>3. CASE r \notin index'
    <3>1. <<r.txid, r.vout>> \in processed'
      BY <2>3, RowLeaves
    <3>2. o = <<o[1], o[2]>>
      BY OutpointsAreTyped
    <3> QED BY <2>1, <3>1, <3>2 DEF Accounted
  <2> QED BY <2>2, <2>3
<1>2. CASE o \in processed \cup missed
  BY <1>2 DEF Accounted
<1> QED BY <1>1, <1>2 DEF Accounted

\* Inductive together with IInv: an output comes to be past only by the scan
\* passing it, which lists it if its script is watched, or by the scan breaking
\* off, which counts it as missed.
LEMMA MarkedStep == IInv /\ MarkedIsListed /\ [Next]_vars => MarkedIsListed'
<1> SUFFICES ASSUME IInv, MarkedIsListed, [Next]_vars, NEW o \in Outpoints,
                    IsPast(o)', Outputs[o[1]][o[2]] \in watched'
             PROVE  Accounted(o)'
  BY DEF MarkedIsListed, Accounted
<1>1. IsPast(o) /\ Outputs[o[1]][o[2]] \in watched => Accounted(o)
  BY DEF MarkedIsListed, Accounted
<1>2. o \in Tx \X Nat /\ o[2] \in DOMAIN Outputs[o[1]]
  <2>1. PICK t \in Tx : o \in {t} \X DOMAIN Outputs[t]
    BY DEF Outpoints
  <2> QED BY <2>1, OutpointsAreTyped
<1>3. o[2] \in 1..Len(Outputs[o[1]]) /\ Outputs[o[1]] \in Seq(Script \cup {NoScript})
  BY <1>2, OutputsAssumption
<1>4. ASSUME NEW t \in Tx, MempoolTx(t) PROVE Accounted(o)'
  <2>1. /\ processed' = processed /\ relayed' = relayed /\ watched' = watched
        /\ ~Visiting
        /\ \/ cur' = <<t, 1>> /\ Visiting' /\ missed' = {p \in missed : p[1] # t}
           \/ ~Visiting' /\ missed' = missed
    BY <1>4 DEF MempoolTx, Goto, Visiting, remote, tables
  <2>2. IsPast(o)
    BY <1>3, <2>1 DEF IsPast, CurTx, CurVout
  <2>3. o \in missed => o \in missed'
    BY <1>3, <2>1 DEF IsPast, CurTx, CurVout
  <2> QED BY <1>1, <2>1, <2>2, <2>3, StaysAccounted
<1>5. CASE MempoolOut
  <2>1. processed' = processed /\ missed' = missed /\ watched' = watched
        /\ Visiting /\ cur \in Tx \X Nat /\ CurVout \in Nat \ {0}
    BY <1>5 DEF MempoolOut, remote, book, Visiting, IInv, CursorOK, CurVout
  <2>2. IsPast(o)
    <3>1. CASE CurHasOutput /\ IsWatched(CurScript) /\ relayed' = Mark(CurTx) /\ cur' = cur
               /\ pc' = "mempoolIndex"
      BY <2>1, <3>1 DEF IsPast, Mark, Visiting, CurTx, CurVout
    <3>2. CASE CurHasOutput /\ ~IsWatched(CurScript) /\ NextOutput /\ pc' = pc
               /\ relayed' = relayed
      <4>1. CurTx' = CurTx /\ CurVout' = CurVout + 1 /\ Visiting'
        BY <2>1, <3>2 DEF NextOutput, CurTx, CurVout, Visiting
      <4>2. ~(CurTx = o[1] /\ CurVout = o[2])
        BY <2>1, <3>2 DEF IsWatched, CurScript
      <4> QED BY <1>2, <2>1, <3>2, <4>1, <4>2 DEF IsPast
    <3>3. CASE ~CurHasOutput /\ pc' = "mempoolTx" /\ relayed' = relayed
      <4>1. CurTx = o[1] => o[2] < CurVout
        BY <1>3, <2>1, <3>3 DEF CurHasOutput
      <4> QED BY <2>1, <3>3, <4>1 DEF IsPast, Visiting
    <3> QED BY <1>5, <3>1, <3>2, <3>3 DEF MempoolOut, Goto
  <2> QED BY <1>1, <2>1, <2>2, StaysAccounted
<1>6. CASE MempoolIndex
  <2>1. /\ processed' = processed /\ missed' = missed /\ watched' = watched
        /\ relayed' = relayed /\ Visiting /\ Visiting' /\ cur \in Tx \X Nat
        /\ CurTx' = CurTx /\ CurVout' = CurVout + 1
    BY <1>6 DEF MempoolIndex, Goto, NextOutput, remote, book, Visiting, IInv, CursorOK,
       CurTx, CurVout
  <2>2. CASE CurTx = o[1] /\ CurVout = o[2]
    <3>1. \E r \in index' : r.txid = CurTx /\ r.vout = CurVout
      BY <1>6, InsertDepositLists DEF MempoolIndex
    <3> QED BY <2>2, <3>1 DEF Accounted
  <2>3. CASE ~(CurTx = o[1] /\ CurVout = o[2])
    <3>1. IsPast(o)
      BY <1>2, <2>1, <2>3 DEF IsPast, CurVout
    <3> QED BY <1>1, <2>1, <3>1, StaysAccounted
  <2> QED BY <2>2, <2>3
<1>7. CASE ScanMempoolFails \/ Crash
  <2>1. /\ processed' = processed /\ missed' = missed \cup BrokenOff /\ watched' = watched
        /\ relayed' = relayed /\ ~Visiting'
    BY <1>7 DEF ScanMempoolFails, Crash, Goto, remote, tables, Visiting
  <2>2. o[1] \in relayed
    BY <2>1 DEF IsPast
  <2>3. CASE IsPast(o)
    BY <1>1, <2>1, <2>3, StaysAccounted
  <2>4. CASE ~IsPast(o)
    BY <2>1, <2>2, <2>4 DEF BrokenOff, Accounted
  <2> QED BY <2>3, <2>4
<1>8. ASSUME NEW s \in Script, SubmitDepositAddress(s) PROVE Accounted(o)'
  <2>1. /\ processed' = processed /\ watched' = watched \cup {s} /\ relayed' = relayed
        /\ missed' = missed \cup {p \in Outpoints : Outputs[p[1]][p[2]] = s /\ IsPast(p)}
        /\ pc' = pc /\ cur' = cur
    BY <1>8 DEF SubmitDepositAddress, remote, scan
  <2>2. IsPast(o)
    BY <2>1 DEF IsPast, Visiting, CurTx, CurVout
  <2>3. CASE Outputs[o[1]][o[2]] = s
    BY <2>1, <2>2, <2>3 DEF Accounted
  <2>4. CASE Outputs[o[1]][o[2]] # s
    BY <1>1, <2>1, <2>2, <2>4, StaysAccounted
  <2> QED BY <2>3, <2>4
<1>9. CASE Undisturbed
  <2>1. IsPast(o)
    BY <1>9 DEF Undisturbed, IsPast, CurTx, CurVout
  <2> QED BY <1>1, <1>9, <2>1, StaysAccounted DEF Undisturbed
<1> QED BY <1>4, <1>5, <1>6, <1>7, <1>8, <1>9, MostStepsLeaveMarks

\* Whatever fails and whenever the process restarts, a watched output that no
\* mempool scan comes to again is listed, credited, or one of those the scan
\* broke off before or was past when its address was submitted: MarkedIsListed.
THEOREM MarkedOutputsAreListed == Spec => []MarkedIsListed
<1>1. Init => MarkedIsListed
  BY DEF Init, MarkedIsListed, IsPast, Visiting
<1> QED BY <1>1, MarkedStep, SpecKeepsIInv, PTL DEF Spec

--------------------------------------------------------------------------------
(* The headers, which are one action here *)

\* What relaying headers promises.
HF == INSTANCE HeaderFollow WITH chain <- chain, side <- side

NodeRises == Height(chain') > Height(chain) /\ side' = side
SideRises == Height(side') > Height(side) /\ chain' = chain

LEMMA NodeRisesInStep ==
    ASSUME IInv, Mine \/ AdoptFork \/ \E f \in 0..MaxHeight : f < Height(chain) /\ Reorg(f)
    PROVE  NodeRises
<1>1. Height(chain) \in Nat /\ Height(chain) >= 1 /\ chain \in Block
  BY HeightIsNat, InitHeightAssumption DEF IInv, TypeOK, HeightsOK
<1>2. CASE Mine
  BY <1>1, <1>2, MinedIsBlock DEF Mine, NodeMovesTo, NodeRises, remote
<1>3. CASE AdoptFork
  BY <1>3 DEF AdoptFork, NodeMovesTo, NodeRises, remote
<1>4. ASSUME NEW f \in 0..MaxHeight, f < Height(chain), Reorg(f)
      PROVE  NodeRises
  <2>1. f \in 0..Height(chain) /\ Height(chain) + 1 - f \in Nat
    BY <1>1, <1>4, BoundsAssumption
  <2>2. Height(Branch(f, Height(chain) + 1 - f)) = f + (Height(chain) + 1 - f)
    BY <1>1, <1>4, <2>1, BranchIsBlock DEF Reorg, IInv, TypeOK
  <2>3. chain' = Branch(f, Height(chain) + 1 - f) /\ side' = side
    BY <1>4 DEF Reorg, NodeMovesTo, remote
  <2> QED BY <1>1, <2>1, <2>2, <2>3 DEF NodeRises
<1> QED BY <1>2, <1>3, <1>4

LEMMA SideRisesInStep ==
    ASSUME IInv, \/ RelayHeaders \/ OtherRelayHeaders
                 \/ \E f \in 0..MaxHeight : f < Height(chain) /\ OtherRelayFork(f)
    PROVE  SideRises \/ UNCHANGED <<chain, side>>
<1>1. Height(chain) \in Nat /\ Height(side) \in Nat /\ chain \in Block
  BY HeightIsNat DEF IInv, TypeOK
<1>2. CASE RelayHeaders
  <2>1. chain' = chain
    BY <1>2 DEF RelayHeaders, btc
  <2>2. CASE IsKnown(side) /\ Height(chain) > Height(side)
    <3>1. PICK h \in Height(side) + 1 .. Height(chain) : side' = Ancestor(chain, h)
      BY <1>2, <2>2 DEF RelayHeaders
    <3>2. Height(Ancestor(chain, h)) = h
      BY <1>1, <3>1, AncestorIsBlock
    <3> QED BY <1>1, <2>1, <3>1, <3>2 DEF SideRises
  <2>3. CASE ~(IsKnown(side) /\ Height(chain) > Height(side))
    BY <1>2, <2>1, <2>3 DEF RelayHeaders
  <2> QED BY <2>2, <2>3
<1>3. CASE OtherRelayHeaders
  BY <1>3 DEF OtherRelayHeaders, SideRises, btc
<1>4. ASSUME NEW f \in 0..MaxHeight, f < Height(chain), OtherRelayFork(f)
      PROVE  SideRises
  <2>1. f \in 0..Height(chain) /\ Height(side) + 1 - f \in Nat
    BY <1>1, <1>4, BoundsAssumption DEF OtherRelayFork
  <2>2. Height(Branch(f, Height(side) + 1 - f)) = f + (Height(side) + 1 - f)
    BY <1>1, <1>4, <2>1, BranchIsBlock DEF OtherRelayFork, IInv, TypeOK
  <2>3. side' = Branch(f, Height(side) + 1 - f) /\ chain' = chain
    BY <1>4 DEF OtherRelayFork
  <2> QED BY <1>1, <2>1, <2>2, <2>3 DEF SideRises
<1> QED BY <1>2, <1>3, <1>4

LEMMA OthersLeaveBlocks ==
    ASSUME [Next]_vars
    PROVE  \/ Mine \/ AdoptFork
           \/ \E f \in 0..MaxHeight : f < Height(chain) /\ (Reorg(f) \/ OtherRelayFork(f))
           \/ RelayHeaders \/ OtherRelayHeaders
           \/ UNCHANGED <<chain, side>>
<1>1. CASE UNCHANGED vars
  BY <1>1 DEF vars, btc, remote
<1>2. CASE HeadersUpToDate \/ CheckBest \/ MempoolStep
  BY <1>2
  DEF HeadersUpToDate, CheckBest, MempoolStep, ScanMempool, MempoolTx, MempoolDone, MempoolOut,
      MempoolIndex, btc, remote
<1>3. CASE ScanStep
  BY <1>3
  DEF ScanStep, ReadTip, MeasureGap, GapUnknown, BeginScan, ReadChunk, ChunkMissesBlock, ScanDone, FilterBlock,
      ChunkDone, RemoveExpired, BlockTx, BlockDone, Output, RelayDepositTx, btc, remote
<1>4. CASE StepFails \/ Crash
  BY <1>4
  DEF StepFails, RelayHeadersFails, ScanMempoolFails, RelayDepositFails, ScanFails,
      RelayDepositTxFails, MaybeRelayDepositFails, Crash, btc, remote
<1>5. ASSUME NEW s, SubmitDepositAddress(s) \/ Expire(s) PROVE UNCHANGED <<chain, side>>
  BY <1>5 DEF SubmitDepositAddress, Expire, btc, remote
<1>6. ASSUME NEW t, Broadcast(t) \/ Evict(t) PROVE UNCHANGED <<chain, side>>
  BY <1>6 DEF Broadcast, Evict, remote
<1>7. ASSUME NEW t, NEW i, OtherRelayDeposit(t, i) PROVE UNCHANGED <<chain, side>>
  BY <1>7 DEF OtherRelayDeposit, btc
<1>8. CASE NodeLearns
  BY <1>8 DEF NodeLearns, remote
<1> QED BY <1>1, <1>2, <1>3, <1>4, <1>5, <1>6, <1>7, <1>8 DEF Next, Step, Environment

\* The one action that stands for relayHeader here, and the network around it,
\* stay within what RelayHeader is shown to implement: the safety half of
\* HeaderFollow.
THEOREM HeadersFollowSafely == Spec => HF!Init /\ [][HF!Next]_<<chain, side>>
<1>1. Init => HF!Init
  <2>1. Init => chain = side /\ Height(chain) >= 1
    <3>1. Init => Height(chain) >= InitHeight /\ chain = side /\ chain \in Block
      BY InitIsGood DEF Init, IInv, HeightsOK, TypeOK
    <3> QED BY <3>1, HeightIsNat, InitHeightAssumption
  <2> QED BY <2>1 DEF HF!Init, HF!Height, Height
<1>2. IInv /\ [Next]_vars => [HF!Next]_<<chain, side>>
  <2>1. NodeRises \/ SideRises => HF!Next
    BY DEF NodeRises, SideRises, HF!Next, HF!NodeMoves, HF!SideMoves, HF!Height, Height
  <2> QED BY <2>1, NodeRisesInStep, SideRisesInStep, OthersLeaveBlocks
<1> QED BY <1>1, <1>2, SpecKeepsIInv, PTL DEF Spec

================================================================================
