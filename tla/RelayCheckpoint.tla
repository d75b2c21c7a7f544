---------------------------- MODULE RelayCheckpoint ----------------------------
(***************************************************************************)
(* The relayer's half of a checkpoint (services/relayer: relayCheckpoints, *)
(* relayCheckpointConf, scanForTxid): it broadcasts the transactions of    *)
(* the checkpoints that the app contract has completed and, once one is    *)
(* buried, proves to the contract that it is.  One action per await, since *)
(* the contract, the light client, the node and other relayers move        *)
(* between any two.                                                        *)
(*                                                                         *)
(* pc names the await the loop is at:                                      *)
(*   header                             relayHeader, getbestblockhash      *)
(*   list, send, mark                   relayCheckpoints                   *)
(*   confirmed, unhandled, completed,                                      *)
(*   height, scan, proof, confMark      relayCheckpointConf                *)
(***************************************************************************)
EXTENDS HeaderChain, FiniteSets

CONSTANTS
    NumBlocks,     \* blocks per batch of scanForTxid (5 in the code)
    ScanBlocks,    \* blocks that scanForTxid searches (200 in the code)
    Lag,           \* how far confirmation may lag behind completion (5)
    Limit,         \* checkpoints that completedCheckpointTxs lists (1100)
    MinConf,       \* min_confirmations of the contract's bitcoinConfig
    InitHeight,    \* height of the chain when the relayer starts, under which
                   \* no branch leaves it
    MaxIndex,      \* bound: the last checkpoint
    MaxHeight,     \* bound: height at which the chain stops growing
    MaxForks,      \* bound: branches besides the first
    MaxFaults      \* bound: failed requests, evicted transactions, restarts and
                   \* transactions that another relayer broadcasts

ASSUME ScanAssumption ==
    /\ NumBlocks \in Nat \ {0, 1}
    /\ ScanBlocks \in Nat \ {0}
    /\ Lag \in Nat
    /\ Limit \in Nat
    /\ MinConf \in Nat
ASSUME HeightAssumption == InitHeight \in Nat \ {0}
ASSUME BoundAssumption ==
    /\ MaxIndex \in Nat
    /\ MaxHeight \in Nat
    /\ MaxForks \in Nat
    /\ MaxFaults \in Nat

VARIABLES
    \* the Bitcoin network
    chain,        \* best block of the Bitcoin node
    forks,        \* branches so far
    mempool,      \* checkpoints whose transaction is in the node's mempool
    minedIn,      \* the blocks that hold the transaction of each checkpoint
    seen,         \* history: checkpoints whose transaction the node has taken
    \* the contracts
    side,         \* best block of the light client
    completed,    \* last checkpoint with all its signatures
    confirmed,    \* last checkpoint proved to be buried
    \* the relayed set, which outlives a crash
    sent,         \* the keys relay-checkpoint-i
    confs,        \* the keys relay-checkpoint-conf-i
    \* the locals of the loop
    pc,
    todo,             \* checkpoints that relayCheckpoints has still to send
    cur,              \* the one it has just sent
    confirmedIndex, unconfirmedIndex,
    unconfIndex,
    btcHeight,
    found,            \* block of the transaction, from scanForTxid
    faults            \* bookkeeping: faults so far

btc    == <<chain, forks, mempool, minedIn, seen>>
remote == <<side, completed, confirmed>>
keys   == <<sent, confs>>
sends  == <<todo, cur>>
conf   == <<confirmedIndex, unconfirmedIndex, unconfIndex, btcHeight, found>>
vars   == <<btc, remote, keys, pc, sends, conf, faults>>

--------------------------------------------------------------------------------
Block == Seq(0..MaxForks)
Index == 0..MaxIndex

\* No index: what confirmedIndex answers before the first confirmation.
None == -1
MaybeIndex == Index \cup {None}

PCs == {"header", "list", "send", "mark", "confirmed", "unhandled", "completed",
        "height", "scan", "proof", "confMark"}

TypeOK ==
    /\ chain \in Block /\ side \in Block
    /\ forks \in 0..MaxForks
    /\ mempool \subseteq Index
    /\ minedIn \in [Index -> SUBSET Block]
    /\ seen \subseteq Index
    /\ completed \in MaybeIndex /\ confirmed \in MaybeIndex
    /\ sent \subseteq Index /\ confs \subseteq Index
    /\ pc \in PCs
    /\ todo \subseteq Index /\ cur \in MaybeIndex
    /\ confirmedIndex \in MaybeIndex /\ unconfirmedIndex \in MaybeIndex
    /\ unconfIndex \in Index
    /\ btcHeight \in Nat
    /\ found \in Block
    /\ faults \in 0..MaxFaults

Init ==
    /\ chain = [h \in 1..InitHeight |-> 0]
    /\ side = chain
    /\ forks = 0
    /\ mempool = {} /\ seen = {}
    /\ minedIn = [i \in Index |-> {}]
    /\ completed = None /\ confirmed = None
    /\ sent = {} /\ confs = {}
    /\ pc = "header"
    /\ todo = {} /\ cur = None
    /\ confirmedIndex = None /\ unconfirmedIndex = None /\ unconfIndex = 0
    /\ btcHeight = 0 /\ found = Null
    /\ faults = 0

Goto(label) == pc' = label

Mined(i) == \E b \in minedIn[i] : OnChain(b, chain)

\* The node (external) takes a transaction whose input it knows: a checkpoint
\* spends an output of the checkpoint before it.
HasParent(i) == i > 0 => i - 1 \in mempool \/ Mined(i - 1)

Growing == Height(chain) < MaxHeight

\* A request fails, a transaction is evicted, the process restarts or another
\* relayer broadcasts a transaction.
Fault == faults < MaxFaults /\ faults' = faults + 1

--------------------------------------------------------------------------------
(* relay: the headers come first *)

RelayHeaders ==
    /\ pc = "header" /\ side = chain
    /\ Goto("list")
    /\ UNCHANGED <<btc, remote, keys, sends, conf, faults>>

--------------------------------------------------------------------------------
(* relayCheckpoints *)

\* The last checkpoints the contract has completed.
CompletedCheckpointTxs == {i \in Index : i <= completed /\ i > completed - Limit}

\* Those with a key are passed over: no one else inserts keys while the loop
\* below runs.
ListCheckpoints ==
    /\ pc = "list"
    /\ todo' = CompletedCheckpointTxs \ sent
    /\ Goto("send")
    /\ UNCHANGED <<btc, remote, keys, cur, conf, faults>>

ListFails ==
    /\ pc = "list"
    /\ Fault
    /\ Goto("confirmed")
    /\ UNCHANGED <<btc, remote, keys, sends, conf>>

\* sendrawtransaction: the node takes the transaction and answers its txid.
SendCheckpoint(i) ==
    /\ pc = "send" /\ i \in todo
    /\ HasParent(i) /\ ~Mined(i)
    /\ mempool' = mempool \cup {i}
    /\ seen' = seen \cup {i}
    /\ todo' = todo \ {i}
    /\ cur' = i
    /\ Goto("mark")
    /\ UNCHANGED <<chain, forks, minedIn, remote, keys, conf, faults>>

\* A mutant of SendFails: the key is inserted after the error, too.
SendFailsMarked(i) ==
    /\ pc = "send" /\ i \in todo
    /\ todo' = todo \ {i}
    /\ sent' = sent \cup {i}
    /\ ~HasParent(i) \/ Mined(i) \/ i \in mempool
    /\ UNCHANGED <<btc, remote, confs, pc, cur, conf, faults>>

\* The node refuses it, or its answer is an error or null: no key, and on to
\* the next checkpoint.  An answer can be lost after the node took it.
SendFails(i) ==
    /\ pc = "send" /\ i \in todo
    /\ todo' = todo \ {i}
    /\ \/ /\ ~HasParent(i) \/ Mined(i) \/ i \in mempool
          /\ UNCHANGED <<mempool, seen, faults>>
       \/ /\ Fault
          /\ UNCHANGED <<mempool, seen>>
       \/ /\ Fault
          /\ HasParent(i) /\ ~Mined(i)
          /\ mempool' = mempool \cup {i}
          /\ seen' = seen \cup {i}
    /\ UNCHANGED <<chain, forks, minedIn, remote, keys, pc, cur, conf>>

MarkSent ==
    /\ pc = "mark"
    /\ sent' = sent \cup {cur}
    /\ cur' = None
    /\ Goto("send")
    /\ UNCHANGED <<btc, remote, confs, todo, conf, faults>>

SendDone ==
    /\ pc = "send" /\ todo = {}
    /\ Goto("confirmed")
    /\ UNCHANGED <<btc, remote, keys, sends, conf, faults>>

--------------------------------------------------------------------------------
(* scanForTxid *)

\* The lowest height of the batch of lastNBlocks that starts at height base.
Oldest(base) == IF base < NumBlocks THEN 1 ELSE base - NumBlocks + 1

\* A mutant of ScanFrom: the next batch starts below the last one.
ScanFromBelow(tip, i) ==
    LET from[base \in 0..Height(tip)] ==
          LET hits == {h \in Oldest(base)..base : Ancestor(tip, h) \in minedIn[i]}
          IN  IF base <= 1 \/ Height(tip) - base >= ScanBlocks THEN Null
              ELSE IF hits # {}
                THEN Ancestor(tip, CHOOSE h \in hits : \A g \in hits : g <= h)
              ELSE from[Oldest(base) - 1]
    IN  from[Height(tip)]

\* Batches of blocks from tip downwards, each from the last block of the one
\* before: the first block that holds the transaction, Null when the batches
\* have gone down ScanBlocks or reach the first block.
ScanFrom(tip, i) ==
    LET from[base \in 1..Height(tip)] ==
          LET hits == {h \in Oldest(base)..base : Ancestor(tip, h) \in minedIn[i]}
          IN  IF Height(tip) - base >= ScanBlocks THEN Null
              ELSE IF hits # {}
                THEN Ancestor(tip, CHOOSE h \in hits : \A g \in hits : g <= h)
              ELSE IF Oldest(base) = base THEN Null
              ELSE from[Oldest(base)]
    IN  from[Height(tip)]

--------------------------------------------------------------------------------
(* relayCheckpointConf *)

\* It returns, and its locals are gone.
ConfReturns ==
    /\ Goto("header")
    /\ confirmedIndex' = None /\ unconfirmedIndex' = None /\ unconfIndex' = 0
    /\ btcHeight' = 0 /\ found' = Null

\* The checkpoint the contract (external) wants proved next.
UnhandledConfirmedIndex == IF confirmed < completed THEN confirmed + 1 ELSE confirmed

ReadConfirmed ==
    /\ pc = "confirmed"
    /\ confirmedIndex' = confirmed
    /\ Goto("unhandled")
    /\ UNCHANGED <<btc, remote, keys, sends, unconfirmedIndex, unconfIndex, btcHeight,
                   found, faults>>

ReadUnhandled ==
    /\ pc = "unhandled"
    /\ unconfirmedIndex' = UnhandledConfirmedIndex
    /\ Goto("completed")
    /\ UNCHANGED <<btc, remote, keys, sends, confirmedIndex, unconfIndex, btcHeight,
                   found, faults>>

\* Math.max(unconfirmedIndex, lastCompletedIndex - 5)
NextIndex ==
    IF unconfirmedIndex > completed - Lag THEN unconfirmedIndex ELSE completed - Lag

\* Mutants of NothingToConfirm: a bridge without checkpoints is not one; one
\* short of the next is enough.
NothingNew == confirmedIndex # None /\ confirmedIndex = NextIndex
NothingMuchNew ==
    \/ completed = None \/ unconfirmedIndex = None
    \/ confirmedIndex # None /\ confirmedIndex >= NextIndex - 1

\* Nothing completed, nothing unconfirmed or nothing new: wait.
NothingToConfirm ==
    \/ completed = None \/ unconfirmedIndex = None
    \/ confirmedIndex # None /\ confirmedIndex = NextIndex

PickIndex ==
    /\ pc = "completed"
    /\ IF NothingToConfirm
         THEN ConfReturns
         ELSE /\ Goto("height")
              /\ unconfIndex' = NextIndex
              /\ UNCHANGED <<confirmedIndex, unconfirmedIndex, btcHeight, found>>
    /\ UNCHANGED <<btc, remote, keys, sends, faults>>

\* The light client's height, then the relayed set.
ReadHeight ==
    /\ pc = "height"
    /\ IF unconfIndex \in confs
         THEN ConfReturns
         ELSE /\ Goto("scan")
              /\ btcHeight' = Height(side)
              /\ UNCHANGED <<confirmedIndex, unconfirmedIndex, unconfIndex, found>>
    /\ UNCHANGED <<btc, remote, keys, sends, faults>>

\* A mutant of Buried: one confirmation too few.
BuriedButOne(b) == Height(b) <= btcHeight - MinConf + 1

Buried(b) == Height(b) <= btcHeight - MinConf

\* scanForTxid reads the light client's tip anew; blocks it names by hash.
ScanForTxid ==
    /\ pc = "scan"
    /\ LET b == ScanFrom(side, unconfIndex)
       IN  IF b # Null /\ Buried(b)
             THEN /\ Goto("proof")
                  /\ found' = b
                  /\ UNCHANGED <<confirmedIndex, unconfirmedIndex, unconfIndex, btcHeight>>
             ELSE ConfReturns
    /\ UNCHANGED <<btc, remote, keys, sends, faults>>

\* The app contract (external) takes a proof for a later checkpoint than it
\* has, in a block the light client has under enough others.
Proves(b, i) ==
    /\ i > confirmed
    /\ OnChain(b, side)
    /\ Height(b) <= Height(side) - MinConf

\* relayCheckpoint, whose failure wrappedExecuteTransaction logs and swallows.
RelayCheckpointTx ==
    /\ pc = "proof"
    /\ \/ /\ confirmed' = IF Proves(found, unconfIndex) THEN unconfIndex ELSE confirmed
          /\ UNCHANGED faults
       \/ Fault /\ UNCHANGED confirmed
    /\ Goto("confMark")
    /\ UNCHANGED <<btc, side, completed, keys, sends, conf>>

MarkConf ==
    /\ pc = "confMark"
    /\ confs' = confs \cup {unconfIndex}
    /\ ConfReturns
    /\ UNCHANGED <<btc, remote, sent, sends, faults>>

\* Any request before the execution fails: back to the headers.
ConfFails ==
    /\ pc \in {"confirmed", "unhandled", "completed", "height", "scan", "proof"}
    /\ Fault
    /\ ConfReturns
    /\ UNCHANGED <<btc, remote, keys, sends>>

--------------------------------------------------------------------------------
(* The process and the rest of the world *)

Crash ==
    /\ Fault
    /\ todo' = {} /\ cur' = None
    /\ ConfReturns
    /\ UNCHANGED <<btc, remote, keys>>

\* The signers complete a checkpoint.
Complete ==
    /\ completed < MaxIndex
    /\ completed' = completed + 1
    /\ UNCHANGED <<btc, side, confirmed, keys, pc, sends, conf, faults>>

\* Another relayer broadcasts a checkpoint, or proves one.
OtherRelayBroadcast(i) ==
    /\ Fault
    /\ i <= completed /\ i \notin mempool
    /\ HasParent(i) /\ ~Mined(i)
    /\ mempool' = mempool \cup {i}
    /\ seen' = seen \cup {i}
    /\ UNCHANGED <<chain, forks, minedIn, remote, keys, pc, sends, conf>>

OtherRelayConf(i) ==
    /\ \E b \in minedIn[i] : Proves(b, i)
    /\ confirmed' = i
    /\ UNCHANGED <<btc, side, completed, keys, pc, sends, conf, faults>>

LightClientFollows ==
    /\ Height(chain) > Height(side)
    /\ side' = chain
    /\ UNCHANGED <<btc, completed, confirmed, keys, pc, sends, conf, faults>>

\* A transaction leaves the mempool, and those that spend its output with it.
Evict(i) ==
    /\ Fault
    /\ i \in mempool
    /\ mempool' = {j \in mempool : j < i}
    /\ UNCHANGED <<chain, forks, minedIn, seen, remote, keys, pc, sends, conf>>

\* The node's best block becomes `best`, which leaves its chain above height f
\* and confirms the transactions ts in its last block.
NodeMovesTo(best, f) ==
    LET onBranch == {i \in Index : \E b \in minedIn[i] :
                        OnChain(b, chain) /\ Height(b) <= f}
        back == {i \in Index : Mined(i)} \ onBranch
    IN  \E ts \in SUBSET (mempool \cup back) :
          /\ \A i \in ts : i > 0 => i - 1 \in ts \cup onBranch
          /\ chain' = best
          /\ minedIn' = [i \in Index |-> IF i \in ts THEN minedIn[i] \cup {best}
                                         ELSE minedIn[i]]
          /\ mempool' = (mempool \cup back) \ ts

Mine ==
    /\ Growing
    /\ NodeMovesTo(Append(chain, chain[Height(chain)]), Height(chain))
    /\ UNCHANGED <<forks, seen, remote, keys, pc, sends, conf, faults>>

\* A longer branch from height f replaces the node's chain.
Reorg(f) ==
    /\ forks < MaxForks
    /\ Growing
    /\ f >= InitHeight /\ f < Height(chain)
    /\ NodeMovesTo(Ancestor(chain, f) \o [n \in 1..(Height(chain) + 1 - f) |-> forks + 1],
                   f)
    /\ forks' = forks + 1
    /\ UNCHANGED <<seen, remote, keys, pc, sends, conf, faults>>

--------------------------------------------------------------------------------
Step ==
    \/ RelayHeaders
    \/ ListCheckpoints
    \/ \E i \in Index : SendCheckpoint(i) \/ SendFails(i)
    \/ MarkSent \/ SendDone
    \/ ReadConfirmed \/ ReadUnhandled \/ PickIndex \/ ReadHeight \/ ScanForTxid
    \/ RelayCheckpointTx \/ MarkConf

StepFails == ListFails \/ ConfFails

Environment ==
    \/ Complete
    \/ \E i \in Index : OtherRelayBroadcast(i) \/ OtherRelayConf(i) \/ Evict(i)
    \/ LightClientFollows
    \/ Mine
    \/ \E f \in 0..MaxHeight : Reorg(f)

Next == Step \/ StepFails \/ Crash \/ Environment

Spec == Init /\ [][Next]_vars

\* The loop never stops, and the light client is fed.
FairSpec == Spec /\ WF_vars(Step) /\ WF_vars(LightClientFollows)

--------------------------------------------------------------------------------
(* Properties *)

\* A checkpoint is marked as relayed (relayer 620-627) only once the node has
\* had its transaction: not after an error, not after a null answer, and not
\* in place of the one whose answer a crash cut off.
MarkedCheckpointWasSent == sent \subseteq seen

\* scanForTxid (relayer 735-767) finds a transaction in any of the last
\* ScanBlocks blocks under the light client's tip: its overlapping batches
\* leave no gap, and stop neither early nor below the first block.
ScanFindsTransaction ==
    \A i \in Index : \A h \in 1..Height(side) :
        /\ Ancestor(side, h) \in minedIn[i]
        /\ Height(side) - h <= ScanBlocks
        => ScanFrom(side, i) \in minedIn[i]

\* A proof that reaches the contract is refused for one reason only, the light
\* client has left its block since (relayer 698): no checkpoint is skipped, no
\* other relayer's proof and no block between the reads of the height, of the tip
\* and of the transaction's block makes it come too early.
ProofIsRefusedOnlyOffChain ==
    [][pc = "proof" /\ pc' = "confMark" /\ faults' = faults /\ OnChain(found, side)
         => confirmed' >= unconfIndex]_vars

\* A transaction with a key that is in no mempool and no block: the relayer
\* does not send it again (relayer 617-619).
Forgotten(i) == i \in sent /\ i \notin mempool /\ ~Mined(i)

\* The transactions of completed checkpoints reach the network, whatever
\* request fails and whenever the process restarts (relayer 609-639), unless
\* the mempool drops one before it that has its key already.  It is said of the
\* last checkpoint's completion, for all of them at once.
CompletedIsBroadcast ==
    (completed = MaxIndex) ~>
        (\A i \in Index : i \in seen \/ \E j \in 0..(i - 1) : Forgotten(j))

\* The checkpoint relayCheckpointConf is at: one that lies more than Lag behind
\* the last is passed over.
NextToProve ==
    IF UnhandledConfirmedIndex > completed - Lag THEN UnhandledConfirmedIndex
                                                 ELSE completed - Lag

\* Its confirmation was refused and is not tried again: relayCheckpoint's failure
\* does not keep the key from being inserted (relayer 709-723).
ProofIsLost == NextToProve \in confs /\ NextToProve > confirmed

\* No more blocks or checkpoints come within the faults of the model, and the
\* last checkpoints lie deep enough for the contract and not too deep for
\* scanForTxid.
Settled ==
    /\ Height(chain) = MaxHeight /\ side = chain
    /\ completed = MaxIndex
    /\ \A i \in Index : i >= MaxIndex - Lag =>
          \E b \in minedIn[i] :
             /\ OnChain(b, side)
             /\ Height(b) <= Height(side) - MinConf
             /\ Height(b) >= Height(side) - ScanBlocks

\* The relayer proves the last checkpoints, one after the other from the first
\* that lies no more than Lag behind (relayer 642-733), after faults, restarts and
\* reorganisations.  What can stop it for good is a proof that was refused: the
\* case ConfMarkedMeansConfirmed is about.
ConfirmationCatchesUp == Settled ~> (confirmed = completed \/ []ProofIsLost)

\* What relayCheckpointConf reports for a checkpoint with a key, "Checkpoint
\* confirm with tx ... is already relayed" (relayer 690): the contract has it.
ConfMarkedMeansConfirmed == \A i \in confs : i <= confirmed
================================================================================
