----------------------------- MODULE RelayDeposit -----------------------------
(***************************************************************************)
(* The relayer's deposit loop (services/relayer: relay, relayHeader in     *)
(* outline, relayDeposit, scanTxsFromMempools, scanDeposits,               *)
(* filterDepositTxs, maybeRelayDeposit) with the three tables it keeps,    *)
(* against a Bitcoin node whose chain grows and reorganises, a light       *)
(* client that follows it, the app contract, the API that submits deposit  *)
(* addresses, and other relayers.  One action per await of the loop: every *)
(* value read from the node, the contracts or the database may be stale    *)
(* when it is used.                                                        *)
(*                                                                         *)
(* pc names the await the loop is at:                                      *)
(*   header, best        relayHeader, getbestblockhash                     *)
(*   mempool, mempoolTx, mempoolOut, mempoolIndex     scanTxsFromMempools  *)
(*   tip, gap            relayDeposit, before it scans                     *)
(*   scan, chunk, block, tx, expire                   scanDeposits         *)
(*   output, relay                                    maybeRelayDeposit    *)
(***************************************************************************)
EXTENDS HeaderChain, DepositIndex, FiniteSets

CONSTANTS
    Tx,            \* Bitcoin transactions
    Script,        \* P2WSH scripts of deposit addresses
    NoScript,      \* the script of an output that is no P2WSH output
    Outputs,       \* Outputs[t]: the scripts of the outputs of t, from vout 1
    Expiring,      \* the scripts whose signatory set is old enough to expire
    RELAY_DEPOSIT_BLOCKS_SIZE,
    ChunkSize,     \* heights per getblockhash batch (50 in the code)
    MinConf,       \* confirmations the app contract asks of a deposit
    InitHeight,    \* height of the chain when the relayer starts
    MaxHeight,     \* bound: height at which the chain stops growing
    MaxForks,      \* bound: branches besides the first
    MaxFaults      \* bound: requests that fail and restarts of the process

ASSUME InitHeightAssumption ==
    /\ RELAY_DEPOSIT_BLOCKS_SIZE \in Nat \ {0}
    /\ InitHeight \in Nat
    /\ InitHeight >= RELAY_DEPOSIT_BLOCKS_SIZE
ASSUME OutputsAssumption == Outputs \in [Tx -> Seq(Script \cup {NoScript})]
ASSUME NoScriptAssumption == NoScript \notin Script
ASSUME ChunkAssumption == ChunkSize \in Nat \ {0}
ASSUME BoundsAssumption ==
    /\ MinConf \in Nat \ {0}
    /\ MaxHeight \in Nat
    /\ MaxForks \in Nat
    /\ MaxFaults \in Nat
ASSUME ExpiringAssumption == Expiring \subseteq Script

VARIABLES
    \* the Bitcoin network and the contracts
    mempool,    \* transactions in the node's mempool
    minedAt,    \* height of each transaction on the active chain, 0 if none
    chain,      \* best block of the Bitcoin node
    known,      \* tips of the branches the node has
    forks,      \* branches so far
    side,       \* best block of the light client contract
    processed,  \* outpoints <<txid, vout>> the app contract has credited
    expired,    \* scripts older than the contract's max_age
    \* the tables of the relayer's database, which outlive a crash
    watched,    \* watched_scripts
    index,      \* deposit_index
    relayed,    \* relayed_set: the txids t of the keys relay-deposit-t
    \* the locals of the loop
    pc,
    lastHash,   \* lastHash of relay
    prevTip,    \* prevTip of relay and relayDeposit
    tip,        \* tip of relayDeposit
    numBlocks,  \* numBlocks of relayDeposit and scanDeposits
    next, low,  \* the heights scanDeposits has still to fetch: low..next
    blocks,     \* blocks fetched and not yet filtered
    hash,       \* block of the transactions in todo
    todo,       \* transactions the innermost loop has still to visit
    cur,        \* <<txid, vout>> under the outputs loop
    \* bookkeeping of the model
    faults,
    missed      \* outpoints of a marked transaction that no mempool scan will list

btc    == <<mempool, minedAt, chain, known, forks>>
remote == <<side, processed, expired>>
tables == <<watched, index, relayed>>
scan   == <<numBlocks, next, low, blocks, hash, todo, cur>>
tips   == <<lastHash, prevTip, tip>>
book   == <<faults, missed>>
vars   == <<btc, remote, tables, pc, scan, tips, book>>

--------------------------------------------------------------------------------
Block == Seq(0..MaxForks)

NoCur == << >>

PCs == {"header", "best", "mempool", "mempoolTx", "mempoolOut", "mempoolIndex",
        "tip", "gap", "scan", "chunk", "block", "tx", "output", "relay",
        "expire"}

TypeOK ==
    /\ mempool \subseteq Tx
    /\ minedAt \in [Tx -> Nat]
    /\ chain \in Block /\ side \in Block
    /\ known \subseteq Block
    /\ forks \in 0..MaxForks
    /\ processed \subseteq Tx \X Nat
    /\ expired \subseteq Script
    /\ watched \subseteq Script
    /\ index \subseteq [script : Script, txid : Tx, vout : Nat, height : Nat]
    /\ relayed \subseteq Tx
    /\ pc \in PCs
    /\ lastHash \in Block /\ prevTip \in Block /\ tip \in Block
    /\ numBlocks \in Nat /\ next \in Int /\ low \in Int
    /\ blocks \subseteq [hash : Block, txs : SUBSET Tx]
    /\ hash \in Block
    /\ todo \subseteq Tx
    /\ cur \in (Tx \X Nat) \cup {NoCur}
    /\ faults \in Nat
    /\ missed \subseteq Tx \X Nat

\* The process starts with empty tables and a node in step with the light
\* client; deposits are mined, and addresses submitted, from here on.
Init ==
    /\ mempool = {}
    /\ minedAt = [t \in Tx |-> 0]
    /\ chain = [h \in 1..InitHeight |-> 0]
    /\ side = chain
    /\ known = {chain} /\ forks = 0
    /\ processed = {} /\ expired = {}
    /\ watched = {} /\ index = {} /\ relayed = {}
    /\ pc = "header"
    /\ lastHash = Null /\ prevTip = Null /\ tip = Null
    /\ numBlocks = 0 /\ next = 0 /\ low = 0
    /\ blocks = {} /\ hash = Null /\ todo = {} /\ cur = NoCur
    /\ faults = 0 /\ missed = {}

TxsAt(h) == {t \in Tx : minedAt[t] = h}

IsWatched(script) == script \in watched

\* The node has the header of a block, on its chain or on another branch.
IsKnown(block) == \E t \in known : OnChain(block, t)

Growing == Height(side) < MaxHeight

\* A request the relayer makes fails, or a statement of its database.
MayFail == faults < MaxFaults /\ Growing /\ faults' = faults + 1
Fault == MayFail /\ missed' = missed

Goto(label) == pc' = label

CurTx == cur[1]
CurVout == cur[2]
CurScript == Outputs[CurTx][CurVout]
CurHasOutput == CurVout \in DOMAIN Outputs[CurTx]

\* A mutant of NextOutput: `break`.
NextOutputBreaks == cur' = <<CurTx, Len(Outputs[CurTx]) + 1>>

\* `continue` in a loop over the outputs.
NextOutput == cur' = <<CurTx, CurVout + 1>>

Outpoints == UNION {{t} \X DOMAIN Outputs[t] : t \in Tx}

\* A mempool scan is at the outputs of CurTx.
Visiting == pc \in {"mempoolOut", "mempoolIndex"}

\* No mempool scan comes to an output again: the running one is past it, or its
\* transaction is marked.
IsPast(o) ==
    IF Visiting /\ CurTx = o[1] THEN o[2] < CurVout ELSE o[1] \in relayed

\* What a mempool scan that breaks off here leaves for good: the outputs it has
\* not come to, if it has marked their transaction.
BrokenOff == {o \in Outpoints : o[1] \in relayed /\ ~IsPast(o)}

--------------------------------------------------------------------------------
(* relay and relayHeader *)

\* The light client takes a batch of headers of the node's chain, and moves
\* only to a higher block; it takes none while the node has no header of its
\* best block.  A batch can end short of the node's best block.
RelayHeaders ==
    /\ pc = "header" /\ chain # side
    /\ IF IsKnown(side) /\ Height(chain) > Height(side)
         THEN \E h \in Height(side) + 1 .. Height(chain) : side' = Ancestor(chain, h)
         ELSE side' = side
    /\ Goto("best")
    /\ UNCHANGED <<btc, processed, expired, tables, scan, tips, book>>

RelayHeadersFails ==
    /\ pc = "header" /\ chain # side
    /\ Fault
    /\ Goto("best")
    /\ UNCHANGED <<btc, remote, tables, scan, tips>>

HeadersUpToDate ==
    /\ pc = "header" /\ chain = side
    /\ lastHash' = chain
    /\ Goto("best")
    /\ UNCHANGED <<btc, remote, tables, scan, prevTip, tip, book>>

CheckBest ==
    /\ pc = "best"
    /\ Goto(IF chain = lastHash THEN "mempool" ELSE "header")
    /\ UNCHANGED <<btc, remote, tables, scan, tips, book>>

--------------------------------------------------------------------------------
(* scanTxsFromMempools *)

\* relayedSetService.exist of relay-deposit-t
Exist(t) == t \in relayed

\* getrawmempool, less the transactions with a key in the relayed set.
ScanMempool ==
    /\ pc = "mempool"
    /\ todo' = {t \in mempool : ~Exist(t)}
    /\ Goto("mempoolTx")
    /\ UNCHANGED <<btc, remote, tables, numBlocks, next, low, blocks, hash, cur,
                   tips, book>>

\* Any await of the scan fails, those of the watched scripts, of the key and of
\* the row too: the scan is over, at whatever output it was.
ScanMempoolFails ==
    /\ pc \in {"mempool", "mempoolTx", "mempoolOut", "mempoolIndex"}
    /\ MayFail
    /\ missed' = missed \cup BrokenOff
    /\ todo' = {} /\ cur' = NoCur
    /\ Goto("tip")
    /\ UNCHANGED <<btc, remote, tables, numBlocks, next, low, blocks, hash, tips>>

MempoolTx(t) ==
    /\ pc = "mempoolTx"
    /\ t \in todo
    /\ todo' = todo \ {t}
    /\ \/ /\ cur' = <<t, 1>>
          /\ missed' = {o \in missed : o[1] # t}
          /\ Goto("mempoolOut")
       \/ /\ t \notin mempool     \* no result: `continue`
          /\ UNCHANGED <<cur, pc, missed>>
    /\ UNCHANGED <<btc, remote, tables, numBlocks, next, low, blocks, hash, tips, faults>>

MempoolDone ==
    /\ pc = "mempoolTx" /\ todo = {}
    /\ Goto("tip")
    /\ UNCHANGED <<btc, remote, tables, scan, tips, book>>

\* A mutant of Mark: the key is not inserted.
MarkForgotten(t) == relayed

\* relayedSetService.insert of relay-deposit-t
Mark(t) == relayed \cup {t}

\* A watched output marks its transaction, before the row is written.
MempoolOut ==
    /\ pc = "mempoolOut"
    /\ \/ /\ CurHasOutput
          /\ IsWatched(CurScript)
          /\ relayed' = Mark(CurTx)
          /\ Goto("mempoolIndex")
          /\ UNCHANGED cur
       \/ /\ CurHasOutput
          /\ ~IsWatched(CurScript)
          /\ NextOutput
          /\ UNCHANGED <<relayed, pc>>
       \/ /\ ~CurHasOutput
          /\ cur' = NoCur
          /\ Goto("mempoolTx")
          /\ UNCHANGED relayed
    /\ UNCHANGED <<btc, remote, watched, index, numBlocks, next, low, blocks, hash,
                   todo, tips, book>>

MempoolIndex ==
    /\ pc = "mempoolIndex"
    /\ index' = InsertDeposit(index, CurScript, CurTx, CurVout, 0)
    /\ NextOutput
    /\ Goto("mempoolOut")
    /\ UNCHANGED <<btc, remote, watched, relayed, numBlocks, next, low, blocks, hash,
                   todo, tips, book>>

--------------------------------------------------------------------------------
(* relayDeposit *)

\* A tip that has been scanned is not scanned again; the first tip stands in
\* for prevTip before anything that can fail.
ReadTip ==
    /\ pc = "tip"
    /\ \/ /\ side = prevTip
          /\ Goto("header")
          /\ UNCHANGED <<tip, prevTip>>
       \/ /\ side # prevTip
          /\ tip' = side
          /\ prevTip' = IF prevTip = Null THEN side ELSE prevTip
          /\ Goto("gap")
    /\ UNCHANGED <<btc, remote, tables, scan, lastHash, book>>

\* Mutants of ScanSize: the operands swapped; only the new blocks.
ScanSizeSwapped(h) == h - Height(tip)
ScanSizeNoMinimum(h) == Height(tip) - h

\* Math.max(endHeight - startHeight, RELAY_DEPOSIT_BLOCKS_SIZE)
ScanSize(h) ==
    IF Height(tip) - h > RELAY_DEPOSIT_BLOCKS_SIZE
      THEN Height(tip) - h ELSE RELAY_DEPOSIT_BLOCKS_SIZE

MeasureGap ==
    /\ pc = "gap"
    /\ IsKnown(tip) /\ IsKnown(prevTip)
    /\ \E h \in 0..Height(tip) :
          /\ IsCommonAncestor(tip, prevTip, chain, h)
          /\ numBlocks' = ScanSize(h)
    /\ Goto("scan")
    /\ UNCHANGED <<btc, remote, tables, next, low, blocks, hash, todo, cur, tips, book>>

\* commonAncestor asks the node for a header it does not have, of the light
\* client's tip or of the one last scanned: prevTip stays as ReadTip left it.
GapUnknown ==
    /\ pc = "gap"
    /\ ~(IsKnown(tip) /\ IsKnown(prevTip))
    /\ Goto("header")
    /\ UNCHANGED <<btc, remote, tables, scan, tips, book>>

\* sidechainBlockHash, commonAncestor or getblockheader fails: relayDeposit
\* returns prevTip as it is.
RelayDepositFails ==
    /\ pc \in {"tip", "gap"}
    /\ Fault
    /\ Goto("header")
    /\ UNCHANGED <<btc, remote, tables, scan, tips>>

--------------------------------------------------------------------------------
(* scanDeposits and filterDepositTxs *)

\* A mutant of LowestHeight: one height too many.
LowestHeightTooLow == Height(side) - numBlocks

\* The last of the heights sidechainHeight - i, for i < numBlocks.
LowestHeight == Height(side) - numBlocks + 1

\* headerHeight is a second read of the light client.
BeginScan ==
    /\ pc = "scan"
    /\ next' = Height(side)
    /\ low' = LowestHeight
    /\ Goto("chunk")
    /\ UNCHANGED <<btc, remote, tables, numBlocks, blocks, hash, todo, cur, tips, book>>

\* scanDeposits returns, whether or not it met an error, and its locals are gone.
ScanEnds ==
    /\ prevTip' = tip
    /\ numBlocks' = 0 /\ next' = 0 /\ low' = 0 /\ hash' = Null
    /\ Goto("header")

\* chunkArray: the heights of one batch.
Chunk == {h \in low..next : h > next - ChunkSize}

\* The blocks of a chunk of heights, those without a Tx of the model left out.
ReadChunk ==
    /\ pc = "chunk" /\ next >= low
    /\ next <= Height(chain)
    /\ blocks' = {b \in {[hash |-> Ancestor(chain, h), txs |-> TxsAt(h)] : h \in Chunk} :
                    b.txs # {}}
    /\ next' = next - ChunkSize
    /\ Goto("block")
    /\ UNCHANGED <<btc, remote, tables, numBlocks, low, hash, todo, cur, tips, book>>

\* The node has no block at a height the light client has: its null result is
\* dereferenced, and the error ends the scan.
ChunkMissesBlock ==
    /\ pc = "chunk" /\ next >= low
    /\ next > Height(chain)
    /\ ScanEnds
    /\ UNCHANGED <<btc, remote, tables, blocks, todo, cur, lastHash, tip, book>>

\* headerHeight, a batch of requests or, for a block that has been fetched, the
\* query for the watched scripts fails.
ScanFails ==
    /\ pc \in {"scan", "chunk", "block"}
    /\ Fault
    /\ blocks' = {}
    /\ ScanEnds
    /\ UNCHANGED <<btc, remote, tables, todo, cur, lastHash, tip>>

ScanDone ==
    /\ pc = "chunk" /\ next < low
    /\ ScanEnds
    /\ UNCHANGED <<btc, remote, tables, blocks, todo, cur, lastHash, tip, book>>

FilterBlock ==
    /\ pc = "block"
    /\ \E b \in blocks :
          /\ \A c \in blocks : Height(c.hash) <= Height(b.hash)
          /\ blocks' = blocks \ {b}
          /\ hash' = b.hash
          /\ todo' = {t \in b.txs :
                        \E i \in DOMAIN Outputs[t] : IsWatched(Outputs[t][i])}
    /\ Goto("tx")
    /\ UNCHANGED <<btc, remote, tables, numBlocks, next, low, cur, tips, book>>

ChunkDone ==
    /\ pc = "block" /\ blocks = {}
    /\ Goto("expire")
    /\ UNCHANGED <<btc, remote, tables, scan, tips, book>>

\* removeExpired; its query of the contract can fail, and removes nothing then.
RemoveExpired ==
    /\ pc = "expire"
    /\ \/ watched' = watched \ expired /\ UNCHANGED book
       \/ Fault /\ UNCHANGED watched
    /\ Goto("chunk")
    /\ UNCHANGED <<btc, remote, index, relayed, scan, tips>>

BlockTx(t) ==
    /\ pc = "tx"
    /\ t \in todo
    /\ todo' = todo \ {t}
    /\ cur' = <<t, 1>>
    /\ Goto("output")
    /\ UNCHANGED <<btc, remote, tables, numBlocks, next, low, blocks, hash, tips, book>>

BlockDone ==
    /\ pc = "tx" /\ todo = {}
    /\ hash' = Null
    /\ Goto("block")
    /\ UNCHANGED <<btc, remote, tables, numBlocks, next, low, blocks, todo, cur, tips, book>>

--------------------------------------------------------------------------------
(* maybeRelayDeposit *)

\* The query processedOutpoint, of the current one.
ProcessedOutpoint == cur \in processed

\* A credited outpoint leaves the index; any other enters it before its relay.
Output ==
    /\ pc = "output"
    /\ \/ /\ CurHasOutput
          /\ IsWatched(CurScript)
          /\ ProcessedOutpoint
          /\ index' = RemoveDeposit(index, CurScript, CurTx, CurVout)
          /\ NextOutput
          /\ UNCHANGED pc
       \/ /\ CurHasOutput
          /\ IsWatched(CurScript)
          /\ ~ProcessedOutpoint
          /\ index' = InsertDeposit(index, CurScript, CurTx, CurVout, Height(hash))
          /\ Goto("relay")
          /\ UNCHANGED cur
       \/ /\ CurHasOutput
          /\ ~IsWatched(CurScript)
          /\ NextOutput
          /\ UNCHANGED <<index, pc>>
       \/ /\ ~CurHasOutput
          /\ cur' = NoCur
          /\ Goto("tx")
          /\ UNCHANGED index
    /\ UNCHANGED <<btc, remote, watched, relayed, numBlocks, next, low, blocks, hash,
                   todo, tips, book>>

\* The app contract (external): it credits an outpoint once, and only when the
\* light client has the block under enough others.
Accepts(block) ==
    /\ OnChain(block, side)
    /\ Height(side) - Height(block) + 1 >= MinConf

\* The execution that the contract rejects is logged and passed over.
RelayDepositTx ==
    /\ pc = "relay"
    /\ processed' = IF Accepts(hash) THEN processed \cup {cur} ELSE processed
    /\ NextOutput
    /\ Goto("output")
    /\ UNCHANGED <<btc, side, expired, tables, numBlocks, next, low, blocks, hash,
                   todo, tips, book>>

\* The execution fails before it reaches the contract.
RelayDepositTxFails ==
    /\ pc = "relay"
    /\ Fault
    /\ NextOutput
    /\ Goto("output")
    /\ UNCHANGED <<btc, remote, tables, numBlocks, next, low, blocks, hash, todo, tips>>

\* processedOutpoint or gettxoutproof fails: the rest of the transaction is
\* left for a later scan.
MaybeRelayDepositFails ==
    /\ pc \in {"output", "relay"}
    /\ Fault
    /\ cur' = NoCur
    /\ Goto("tx")
    /\ UNCHANGED <<btc, remote, tables, numBlocks, next, low, blocks, hash, todo, tips>>

--------------------------------------------------------------------------------
(* The process, the API and the rest of the world *)

\* The process restarts: its tables survive, its locals do not.
Crash ==
    /\ faults < MaxFaults
    /\ faults' = faults + 1
    /\ missed' = missed \cup BrokenOff
    /\ Goto("header")
    /\ lastHash' = Null /\ prevTip' = Null /\ tip' = Null
    /\ numBlocks' = 0 /\ next' = 0 /\ low' = 0
    /\ blocks' = {} /\ hash' = Null /\ todo' = {} /\ cur' = NoCur
    /\ UNCHANGED <<btc, remote, tables>>

\* submitDepositAddress of a sigset that still accepts deposits.
SubmitDepositAddress(s) ==
    /\ Growing
    /\ s \notin watched \cup expired
    /\ watched' = watched \cup {s}
    /\ missed' = missed \cup {o \in Outpoints : Outputs[o[1]][o[2]] = s /\ IsPast(o)}
    /\ UNCHANGED <<btc, remote, index, relayed, pc, scan, tips, faults>>

Expire(s) ==
    /\ s \in Expiring \ expired
    /\ expired' = expired \cup {s}
    /\ UNCHANGED <<btc, side, processed, tables, pc, scan, tips, book>>

Broadcast(t) ==
    /\ Height(chain) < MaxHeight
    /\ t \notin mempool /\ minedAt[t] = 0
    /\ mempool' = mempool \cup {t}
    /\ UNCHANGED <<minedAt, chain, known, forks, remote, tables, pc, scan, tips, book>>

\* A transaction is replaced or dropped before it is mined.
Evict(t) ==
    /\ Height(chain) < MaxHeight
    /\ t \in mempool
    /\ mempool' = mempool \ {t}
    /\ UNCHANGED <<minedAt, chain, known, forks, remote, tables, pc, scan, tips, book>>

\* The node's best block becomes `best`, which leaves its chain above height f
\* and confirms the transactions ts in its last block.
NodeMovesTo(best, f, ts) ==
    LET back == {t \in Tx : minedAt[t] > f}
    IN  /\ ts \subseteq mempool \cup back
        /\ chain' = best
        /\ known' = {t \in known : ~OnChain(t, best)} \cup {best}
        /\ minedAt' = [t \in Tx |-> IF t \in ts THEN Height(best)
                                    ELSE IF t \in back THEN 0 ELSE minedAt[t]]
        /\ mempool' = (mempool \cup back) \ ts

Mine ==
    /\ Height(chain) < MaxHeight
    /\ \E ts \in SUBSET mempool :
          NodeMovesTo(Append(chain, chain[Height(chain)]), Height(chain), ts)
    /\ UNCHANGED <<forks, remote, tables, pc, scan, tips, book>>

\* Blocks above height f on a branch that no node has seen yet.
Branch(f, n) == Ancestor(chain, f) \o [i \in 1..n |-> forks + 1]

\* A longer branch from height f replaces the node's chain.
Reorg(f) ==
    /\ forks < MaxForks
    /\ Height(chain) < MaxHeight
    /\ \E ts \in SUBSET (mempool \cup {t \in Tx : minedAt[t] > f}) :
          NodeMovesTo(Branch(f, Height(chain) + 1 - f), f, ts)
    /\ forks' = forks + 1
    /\ UNCHANGED <<remote, tables, pc, scan, tips, book>>

\* The node catches up with a branch the light client had before it.
AdoptFork ==
    /\ Height(side) > Height(chain)
    /\ \E f \in CommonHeights(chain, side) :
          /\ \A g \in CommonHeights(chain, side) : g <= f
          /\ \E ts \in SUBSET (mempool \cup {t \in Tx : minedAt[t] > f}) :
                NodeMovesTo(side, f, ts)
    /\ UNCHANGED <<forks, remote, tables, pc, scan, tips, book>>

\* The node hears of a block that the light client has, or had when the relayer
\* read it, on a branch the node does not prefer.
NodeLearns ==
    /\ \E b \in {side, tip, prevTip} :
          ~IsKnown(b) /\ known' = {t \in known : ~OnChain(t, b)} \cup {b}
    /\ UNCHANGED <<mempool, minedAt, chain, forks, remote, tables, pc, scan, tips, book>>

\* Another relayer brings the light client headers of the node's chain ...
OtherRelayHeaders ==
    /\ Height(chain) > Height(side)
    /\ side' = chain
    /\ UNCHANGED <<btc, processed, expired, tables, pc, scan, tips, book>>

\* ... or of a branch that the node has not seen or does not prefer.
OtherRelayFork(f) ==
    /\ forks < MaxForks
    /\ f <= Height(side)
    /\ forks' = forks + 1
    /\ side' = Branch(f, Height(side) + 1 - f)
    /\ Height(side') < MaxHeight
    /\ UNCHANGED <<mempool, minedAt, chain, known, processed, expired, tables, pc,
                   scan, tips, book>>

\* Another relayer has a deposit credited.
OtherRelayDeposit(t, i) ==
    /\ minedAt[t] # 0 /\ i \in DOMAIN Outputs[t] /\ Outputs[t][i] \in Script
    /\ Accepts(Ancestor(chain, minedAt[t]))
    /\ <<t, i>> \notin processed
    /\ processed' = processed \cup {<<t, i>>}
    /\ UNCHANGED <<btc, side, expired, tables, pc, scan, tips, book>>

--------------------------------------------------------------------------------
MempoolStep ==
    \/ ScanMempool \/ (\E t \in Tx : MempoolTx(t)) \/ MempoolDone
    \/ MempoolOut \/ MempoolIndex

ScanStep ==
    \/ ReadTip \/ MeasureGap \/ GapUnknown \/ BeginScan
    \/ ReadChunk \/ ChunkMissesBlock \/ ScanDone
    \/ FilterBlock \/ ChunkDone \/ RemoveExpired
    \/ (\E t \in Tx : BlockTx(t)) \/ BlockDone
    \/ Output \/ RelayDepositTx

Step == RelayHeaders \/ HeadersUpToDate \/ CheckBest \/ MempoolStep \/ ScanStep

StepFails ==
    \/ RelayHeadersFails \/ ScanMempoolFails \/ RelayDepositFails \/ ScanFails
    \/ RelayDepositTxFails \/ MaybeRelayDepositFails

Environment ==
    \/ \E s \in Script : SubmitDepositAddress(s) \/ Expire(s)
    \/ \E t \in Tx : Broadcast(t) \/ Evict(t)
    \/ Mine
    \/ \E f \in 0..MaxHeight : f < Height(chain) /\ (Reorg(f) \/ OtherRelayFork(f))
    \/ AdoptFork \/ NodeLearns
    \/ OtherRelayHeaders
    \/ \E t \in Tx : \E i \in DOMAIN Outputs[t] : OtherRelayDeposit(t, i)

Next == Step \/ StepFails \/ Crash \/ Environment

Spec == Init /\ [][Next]_vars

\* The loop never stops and the network keeps finding blocks.
FairSpec == Spec /\ WF_vars(Step) /\ WF_vars(Mine)
--------------------------------------------------------------------------------
(* Properties *)

\* A row without a height is what the mempool scan left (relayer 377-389): its
\* transaction carries the mark that keeps later scans, those after a crash
\* too, from reading it again.
UnconfirmedRowIsMarked ==
    \A r \in index : r.height = 0 => r.txid \in relayed

\* The mark of one output stands for the whole transaction, and no output is
\* lost by that (relayer 329, 377, 378): an output to a watched script that no
\* mempool scan comes to again is listed, or it was and is credited.  The only
\* ones left out are those of a scan that broke off after the mark, and those
\* whose address was submitted when the scan was past them: a block scan is left
\* to find these.
MarkedIsListed ==
    \A o \in Outpoints :
        IsPast(o) /\ Outputs[o[1]][o[2]] \in watched =>
            \/ \E r \in index : r.txid = o[1] /\ r.vout = o[2]
            \/ o \in processed \cup missed

\* No scan asks the node for a height below the first block, however far the
\* light client has moved between the two reads of it (relayer 274, 400) and
\* whatever branch the relayer last scanned.
ScanHeightsExist ==
    pc \in {"chunk", "block", "tx", "output", "relay", "expire"} => low >= 1

\* An outpoint leaves the pending list by itself and only once it is credited:
\* no other output of its transaction goes with it (relayer 517-522).
RowLeavesOnlyWhenCredited ==
    [][\A r \in index : r \notin index' => <<r.txid, r.vout>> \in processed]_vars

\* The deposits of the last blocks of the chain: the window of every scan.
InWindow(t) ==
    /\ minedAt[t] > Height(chain) - RELAY_DEPOSIT_BLOCKS_SIZE
    /\ minedAt[t] <= Height(chain) + 1 - MinConf

\* No new block comes within the bounds of the model, and both sides agree.
Settled == Height(chain) = MaxHeight /\ side = chain

\* relayDeposit can compare its next tip with the one it last scanned: until the
\* node has that header, every gap it measures throws (relayer 282).
Heard == prevTip = Null \/ IsKnown(prevTip)

\* A deposit to a watched script that lies deep enough and in the window is
\* credited in the end, whatever failed, crashed or reorganised before, and
\* whatever branches the node had no header of.
DeepDepositIsCredited ==
    \A t \in Tx : \A i \in DOMAIN Outputs[t] :
        Outputs[t][i] \in Script \ Expiring =>
            ((Settled /\ Heard /\ InWindow(t) /\ Outputs[t][i] \in watched)
                ~> <<t, i>> \in processed)

\* A credited deposit leaves the pending list at the next scan that sees it,
\* unless from some point on none does: the chain rests with the deposit outside
\* the window or the last tip unheard of.
CreditedRowIsDropped ==
    \A t \in Tx : \A i \in DOMAIN Outputs[t] :
        Outputs[t][i] \in Script \ Expiring =>
            ((<<t, i>> \in processed /\ Growing /\ Outputs[t][i] \in watched)
                ~> \/ Select(index, Outpoint(Outputs[t][i], t, i)) = {}
                   \/ [](Settled /\ (~InWindow(t) \/ ~Heard)))
================================================================================
