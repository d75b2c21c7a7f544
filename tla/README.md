# The orchestrator in TLA+

The repository holds the off-chain programs of a Bitcoin bridge: a **relayer**, which carries
headers, deposits, checkpoints and recovery transactions between a Bitcoin node and two contracts; a
**signer**, which signs the bridge's checkpoints; and **lib-js**, with which a wallet obtains a
deposit address from several relayers. The modules here are translated from that code. The contracts
(Rust, not in the repository) and the Bitcoin node appear as the environment, as far as the code
uses them.

In comments, `relayer 377` means line 377 of `packages/orchestrator/src/services/relayer/index.ts`,
`lib-js 255` line 255 of `packages/lib-js/src/index.ts`, and so on. `PROJECT.json` has the lines
that each definition stands for (`map`), the hazards with the properties that cover them, and for
each checked property a mutated definition that violates it.

## 1. Inventory

| part | state it keeps | operations | talks to |
|---|---|---|---|
| relayer, main loop (`relay`) | `lastHash`, `prevTip`: locals, lost in a restart | headers; if in step: deposits, recovery, checkpoints, confirmations | node, both contracts |
| REST API of the relayer | none of its own: `watched_scripts` and what each request has read | `submitDepositAddress`, `getCheckpoint`, and handlers that pass one read on | wallets, app contract, database |
| Cosmos account | the sequence number, kept by the chain | `wrappedExecuteTransaction` and bare executes | relayer, signer, trigger block, commands |
| relayer, headers | none | `relayHeader`, `relayHeaderBatch`, `commonAncestor`, `getHeaderBatch` | node, light client |
| relayer, deposits | tables `watched_scripts`, `deposit_index`, `relayed_set` | `relayDeposit`, `scanTxsFromMempools`, `scanDeposits`, `filterDepositTxs`, `maybeRelayDeposit`, `submitDepositAddress` | node, both contracts, wallets (API) |
| relayer, recovery | keys in `relayed_set` | `relayRecoveryDeposits` | node, app contract |
| relayer, checkpoints | keys in `relayed_set` | `relayCheckpoints`, `relayCheckpointConf`, `scanForTxid`, `lastNBlocks` | node, both contracts |
| database | one DuckDB file | select, insert, update, delete | the services above |
| signer | the file `xpriv` | `loadOrGenerateXpriv`, `startSigningCheckpoint`, `checkChangeRate`, `circuitBreaker`, `startRecoveryTxSigning` | both contracts, simulator |
| contract simulator | two directories: the state downloaded (`pending`) and the one simulated (`final`) | `stateCrawler`, `simulateAppCwBitcoin` | a node of the chain |
| lib-js, addresses | none | `generateDepositAddress`, `consensusReq`, `getDepositAddress` | relayers (API) |
| lib-js, scripts | none | `redeemScript` and its arithmetic | - |
| command line, trigger block, generated clients and wasm | none | pass calls on | - |

All of it is single-threaded JavaScript, so steps between two awaits are atomic; but between any two
awaits the node, the contracts, other relayers, the API and the other loops of the process may act.
The behaviours that are hard:

* **Stale reads.** Each loop reads the node and two contracts by separate requests, and combines
  what it read: heights with heights, blocks with tips, indices with checkpoints.
* **Reorganisations.** The node's chain may be replaced between two requests, and the light client
  may be on a branch the node left or has not seen.
* **Partial failure.** Most requests are in a `try` that logs and goes on, and
  `wrappedExecuteTransaction` (utils/cosmos 11-31) swallows refusals: code after it runs as if the
  transaction had been executed.
* **Restarts.** Keys in `relayed_set`, rows and the signer's key outlive a crash; the locals do not.
* **Other relayers** do the same work: anything may already be done.
* **One account, several clients.** The relayer, the signer, the trigger and the commands sign with
  one mnemonic: of two calls at once, one is refused with a sequence mismatch and made again.
* **The API beside the loop.** Requests and the loop share the tables an await at a time; one
  uncaught failure in the loop ends both.
* **Unanimity without a coordinator.** A wallet decides from the answers of several relayers that
  read a contract at different moments; a timeout does not cancel a request.

What makes each part correct: headers reach the light client and it never goes down; a deposit that
is deep enough is credited, and the pending list has each output of a marked transaction and drops
it only when it is credited; a key in `relayed_set` means that the work was done; every completed
checkpoint is broadcast and proved; a call is executed once, in its client's order, and the loop
comes round; an address that the API took stays watched while its deposits are taken; a redeem
script opens only, and always, for enough voting power; a signer keeps its key, keeps to its guards
and goes on signing; a wallet shows only an address that enough relayers watch, and gets a result.

## 2. Modules

| module | models |
|---|---|
| `DuckDb` | `DuckDbNode`: rows as records, `Select`, `Insert`, `Delete`, `Update`, primary keys |
| `DepositIndex` | `DepositIndexService` over `DuckDb` |
| `HeaderChain` | blocks, branches, confirmations, `commonAncestor` as a function (for one state of the node) |
| `HeaderFollow` | abstract: what relaying headers promises |
| `RelayHeader` | the header part of the loop, one action per request |
| `RelayDeposit` | the deposit part of the loop with its tables; EXTENDS `HeaderChain`, `DepositIndex` |
| `RelayCheckpoint` | the checkpoint part of the loop; EXTENDS `HeaderChain` |
| `RelayRecovery` | the recovery part of the loop |
| `Account` | the Cosmos account with its clients, one action per request of a call |
| `RelayLoop` | the loop over its parts; composes `RelayRecovery` (EXTENDS) and `Account` (INSTANCE) |
| `AppBitcoin` | what the API asks of the app contract |
| `RelayerApi` | requests, `watched_scripts` and its removal, an await at a time; EXTENDS `AppBitcoin`, `DuckDb` |
| `Signer` | the signer and the contract simulator |
| `DepositAddress` | wallet, relayers' API and contract |
| `ThresholdVote` | abstract: what a redeem script promises |
| `RedeemScript` | the script, instruction by instruction, and an interpreter |
| `RelayHeader_proofs`, `RelayDeposit_proofs`, `RelayCheckpoint_proofs`, `RelayLoop_proofs`, `RelayerApi_proofs`, `DepositAddress_proofs`, `Signer_proofs`, `RedeemScript_proofs` | theorems |
| `MCRelayDeposit`, `MCDepositAddress`, `MCRedeemScript` | instances for TLC (transactions and outputs; symmetry of relayers; thresholds and foundations) |

### Conventions

`pc` is the await that a loop is at; the comment at the head of each module says which function each
value is in. An action is what happens from the answer of one request to the next request, including
the early return, `continue` or `throw`. A request that fails is an action of its own (`...Fails`),
which does what the enclosing `catch` does; a restart is `Crash`, which resets the locals and keeps
the tables and files. `MaxFaults` bounds both together, or the failures alone where there is a
`MaxCrashes`. A definition called a mutant in its comment belongs to no
specification: it is a plausible error, and `PROJECT.json` names the property that it violates.

A **block** is its own history: the sequence of the branch numbers of the blocks below it and
itself, so that `Len` is the height, a prefix is an ancestor, and two blocks of one height differ
iff they are on different branches. The empty sequence is the block below all of them and stands for
JavaScript's `null` where a hash may be missing. `GetBlockHeader` gives `confirmations` and
`nextblockhash` as they are at the moment of the request, -1 and none off the active chain, which is
what makes a header stale later. A transaction is a model value, a script too; encodings, merkle
proofs and addresses are what they decode to. Time appears as what it decides (an expired script, a
closed signatory set).

### RelayHeader and HeaderFollow

`ReadFullNode`, `ReadSideChain` (139-163), `ReadInfo` (171-180), `FetchLeft`, `FetchRight`, `Walk`
(229-256), `FetchStart`, `FetchNext`, `BatchDone` (204-227), `Submit` (189-201), `CheckBest`
(95-100). The environment mines, reorganises (`Reorg`), hears of branches (`NodeLearns`,
`NodeAdopts`), and other relayers submit headers or a branch the node has not got
(`OtherRelayHeaders`, `OtherRelayFork`). `HeaderFollow` has only the node's block and the light
client's: the latter changes only to a higher one, and gets to the node's when that rests.
`RelayHeader` implements it under the identity mapping.

### RelayDeposit

The mempool scan (`ScanMempool`, `MempoolTx`, `MempoolOut`, `MempoolIndex`: the key and the row are
two statements, hence two actions, and any of them may fail: `ScanMempoolFails`), the gap
(`ReadTip`; `MeasureGap`, or `GapUnknown` where the node does not know one of the two tips), the
scan by height (`BeginScan`, `ReadChunk`, `FilterBlock`, `BlockTx`, `BlockDone`, `ChunkDone`,
`RemoveExpired`) and `maybeRelayDeposit` (`Output`, `RelayDepositTx`). The headers are one action
(`RelayHeaders`), since `RelayHeader` is about their steps. `commonAncestor` is one read here; that
the node changes during it is what `RelayHeader` checks. `known` are the branches of which the node
has the headers (`NodeLearns`), and `missed`, which no step reads, keeps the outputs that no mempool
scan will list: those of a scan that broke off after the mark, and those whose address came too
late. Transactions that pay no watched script leave no trace in the code and none in the model: the
blocks that hold none of the model's transactions are skipped.

### RelayCheckpoint

`ListCheckpoints`, `SendCheckpoint`, `MarkSent` (609-639); `ReadConfirmed`, `ReadUnhandled`,
`PickIndex`, `ReadHeight`, `ScanForTxid`, `RelayCheckpointTx`, `MarkConf` (642-733). What the other
relayers broadcast counts among the faults, which bounds it. `ScanFrom` is `scanForTxid` with
`lastNBlocks` as a function: batches of `NumBlocks` that share their end blocks, to `ScanBlocks`
below the tip or to the first block. The contract completes checkpoints in order and takes a proof
of a block on the light client's chain with `MinConf` confirmations (`Proves`).

### RelayRecovery

`ListTxs`, `Skip`, `Send`, `MarkSent`, `SendDone`, `Refused` (582-606). The node refuses what it has
already (`Taken`). A lost answer (`Refused` with `Taken`) and a `Crash` leave a transaction that is
sent without a key; reorganisations, evictions and other relayers' transactions count as faults.

### Account and RelayLoop

A call of the contract is `Execute`, `Sign` (with the committed sequence number), `Broadcast`, and
`Included` or `GivesUp` (cosmjs polls for a bounded time). A number that is not the expected one is a
`Mismatch`: `wrappedExecuteTransaction` goes back to `Sign` (`Retry`, cosmos 15-30), a bare
`execute` throws (`Refused`). `Fails` ends a call at any point, with or without the node having its
transaction. The node commits by sequence number (`Commit`) and may lose its mempool (`Forget`), so
that a transaction that was given up may be included late. `Messages` says which client executes
what.

`RelayLoop` puts the parts of `relay` (93-112) in their order: `HeadersAgree` or `RelayHeaders`,
`BestBlock`, `RelayDeposits`, the pass of `RelayRecovery` step by step (`Pass`, `PassEnds`),
`RelayCheckpoints`. Each awaits its call: no step of the loop is taken while the relayer's call is
under way. Headers, deposits and checkpoints are reduced to whether they make a call, since modules
of their own are about what they do. `Restart` is a crash anywhere, and also what a failed
`getbestblockhash` (95, outside every `try`) comes to.

### RelayerApi and AppBitcoin

Requests run side by side: `PostDeposit`, `ReadCheckpoint`, `CheckAddress`, `SelectScript`,
`InsertScript`, `AnswerDeposit` are `submitDepositAddress` (relayer 806-856) with `insertScript`
(watched_scripts 35-53); `GetCheckpoint`, `ReadTx`, `Reply` the query of two reads; `Get` stands for
the handlers with one read or none that matters. `BeginRemoval`, `SelectRows`, `DeleteRow`,
`RemovalDone` are `removeExpired` (73-100): the clock is read before the rows, and each row goes by
a statement of its own. There are two clocks: `now` is the contract's time, by which it takes
deposits, and `HostClock` what the host may read at that moment (`Date.now()`, watched_scripts 78
and relayer 839), up to `Skew` away on either side. `Tick` may come between any two awaits. The
address and the script of a signatory set are its index: destination and threshold are one.
`AppBitcoin` has the queries and the clock; the contract makes a checkpoint with the time of the
moment.

### RedeemScript and ThresholdVote

`Script` is `redeemScript` (lib-js 142-222): `Tally` puts seven instructions for each key, its
`Question`, one behind the other, with the truncated powers; the comparison with the truncated
threshold and the destination follow, and where there is a foundation its branch, with its own,
untruncated threshold and `>=`. `GetTruncation` and `Clz64` are as in the code, over words of
`WordBits` bits. The interpreter (external) executes the instruction of `script` that is next, `at`,
keeps in `cond` for each `OP_IF` around it whether its branch is taken (1 or 0), and fails on too few
items and on numbers that the network does not compare (`NumLimit`). Items of the stack are
integers; a key and a signature by it are the key's name, a negative number apart from `ZeroByte`
and `Dest` and from the names of all other keys, for any number of signatories. The runs' witnesses
(`Witnesses`) answer each key with its signature, with nothing or with the first key's once more,
and there are some that are too short or too long; `WellFormed` are those that a signer would
build. `ThresholdVote` has no script: signatories are asked in turn and their powers added in
units. `RedeemScript` implements it under the mapping in its `Vote`: the number on the stack after
each key (`acc`) is the sum.

### Signer

`LoadOrGenerate`, `QuerySignatoryKey`, `SetSignatoryKey` (40-52, 236-267); the loop: `ReadHeight`,
`ReadBuildingIndex`, `ReadCheckpoint`, `CheckChangeRate`, `ReadSigningTxs`, `ReadCurrentHeight`,
`CircuitBreaker`, `SubmitSignature` (69-189); the crawler: `SaveState`, `CopyState`. The contract's
state is abstracted to what the signer looks at: which checkpoint is being signed, whether its
change rates are above the maximum, whether this signer has signed. `pending` and `final` are
snapshots of that; all other queries see the present.

### DepositAddress

A wallet's two rounds of `consensusReq`. In the second, each relayer's `getDepositAddress` is a
small process: fetch the configuration, submit, answer. `RequestFails` is an error or `withTimeout`,
which leaves the process running, so that `Submit` may come late. An address is the pair of its
signatory set and the version of the configuration it was computed from; that the redeem script is a
function of these is all that is used. `Accepts` is `submitDepositAddress` with its test of the
index as a truth value (811).

## 3. Runs

Twelve runs, nine of which find no error. Deadlock is checked except in
`MCDepositAddress_*`, where a wallet that has its result, and relayers without calls, really stop,
and in `MCRedeemScript`, where the interpreter stops with a result.

| run | asks | bounds |
|---|---|---|
| `MCRelayDeposit_safety` | tables and scan window under any interleaving | one transaction with outputs to one address, to no address, and again to the address; two blocks more; a branch; a failed request, a failed statement or a restart; expiry; 1.1M states |
| `MCRelayDeposit_liveness` | is a deep deposit credited and then dropped? | one deposit, window and chunk 2, two more blocks, a branch of the node's or one it has yet to hear of, a failed request, a failed statement or a restart; 0.2M states |
| `RelayHeader` | batches and refinement of `HeaderFollow` | heights 1-5, two branches up to two blocks deep, batches of 4, a failed request; 0.8M states |
| `RelayCheckpoint` | keys, search, which proofs are refused; is every checkpoint broadcast, and proved unless passed over or lost? | three checkpoints, the first of which may be passed over and the last two proved in order (`Lag` = 1; 5 in the code), a branch, two faults of any kind (failed request, eviction, crash, broadcast by another relayer), batches of 2 within 2 blocks; 0.6M states |
| `RelayCheckpoint_conf` | violation, section 4 | a branch, no failure |
| `RelayLoop` | does the loop come round, are calls executed once and in order, which recovery transaction can be held back? | two recovery transactions, a fault of any kind, a signer on the same account, two calls, of one client or one of each, two blocks; 0.3M states |
| `MCDepositAddress_safety` | does the threshold of relayers watch an address that is shown? | three relayers, two signatory sets, two configurations; symmetric in the relayers |
| `MCDepositAddress_settle` | violation, section 4 | three relayers |
| `MCRedeemScript` | who can open a script, and can enough signatures always; refinement of `ThresholdVote` | one to three signatories with powers 0-3, threshold 2/3, no foundation or one of up to two keys, precision 2 bits |
| `RelayerApi` | does an accepted address stay watched, does an expired one go, is an answer of one checkpoint? | two requests at a time, two checkpoints, times 0-4, deposits taken to age 1 and rows kept to age 2, clocks up to 1 apart, no buffer, a fault of any kind; 1.0M states |
| `Signer` | key, circuit breaker, progress | two checkpoints, two keys to generate, a failed request, a crash; 0.6M states |
| `Signer_rates` | violation, section 4 | two checkpoints, no failure, no crash |

**Why the bounds are enough to mean something.** The code's constants (1100 blocks, chunks of 50,
batches of 100, a search of 200 blocks, a lag of five checkpoints) matter by comparison with the
distances of the chain; the instances keep each on both sides of the comparison: windows smaller
than the chain and than a branch, chunks smaller than the window, searches that end by their bound
and at the first block. Two recovery transactions are enough for one to hold back the other; three
checkpoints with a lag of one for one to be passed over and two to be proved in order. Powers 0-3
under a precision of 2 bits reach sums of up to four bits, so that none, one and two bits are
dropped; the numbers that the network compares (`NumLimit`) end where the precision does, so that
one bit kept too many is seen, and the powers <<2, 3>> of a foundation exceed them. With times 0-4
and ages of 1 and 2 a row is younger than, at and past each age by either clock, and a removal may
delete later than it looked; a buffer would only take fewer addresses. Two calls on the account, of
one client each, have a mismatch; of one client, the first may be given up and the second begin
before its transaction is included, which is when order is at stake; of three calls or more
`RelayLoop_proofs` tells. Two branches give a light client on a branch that the node left for a
third. One restart and one failure at any step, and any reorganisation between any two steps, are
what the hazards need; each property has a mutant that TLC catches within the same bounds, so the
case that the property is about does occur. The named bounds (`MaxHeight`, `MaxForks`, `MaxDepth`,
`MaxEvictions`, `MaxFaults`, `MaxCrashes`, `MaxIndex`, `MaxTx`, `MaxCalls`, `MaxTip`, `MaxTime`,
`MaxSigs`, `MaxPower`, `MaxSigset`, `MaxConfig`, `MaxDetail`) guard only environment actions,
failures, and how many calls the clients make together.

**Fairness.** `WF_vars(Step)` is the loop: `while (true)` with bounded sleeps and requests with
timeouts. Failures and restarts are not fair, and bounded: the promise is for runs in which they
stop. In `RelayHeader`, weak fairness of `Mine` says that blocks keep coming to the bound, for
between two branches of one height nothing but the next block decides, and of `NodeLearns` and
`NodeAdopts` that the node hears of blocks that the light client has. No property needs another
relayer. In `RelayCheckpoint` the light client follows (blocks and checkpoints need not go on
coming); in `Signer` blocks are found and the crawler goes on. In `RelayLoop` the loop's steps, each
client's call and the inclusion of what a mempool holds are weakly fair: a retried call goes on
because the other client's transaction, which made its number stale, is included. In `RelayerApi`
the process is restarted and the removal of expired scripts goes on, as the loop comes back to it
(`LoopComesRound`); requests need no fairness. In `DepositAddress` each request ends, because
`withTimeout` ends it.

**Preconditions in the liveness properties.** `DeepDepositIsCredited` is for deposits in the window
of `RELAY_DEPOSIT_BLOCKS_SIZE` blocks: `prevTip` is set even when a scan failed half-way, and older
blocks are not scanned again. It and `CreditedRowIsDropped` are also for a node that has the header
of the last tip scanned (`Heard`): section 4 says what happens without it. `CompletedIsBroadcast` is
from the completion of the last checkpoint on, and lets those go that follow one whose key the
relayer has and whose transaction the mempools have dropped. `ImplementsFollow` needs batches that
reach above the light client's block from the common ancestor: with branches deeper than a batch
(100 blocks) the same refused batch would be sent for ever. `ConfirmationCatchesUp` is of the
checkpoints that are not passed over (relayer 658), and ends at the first of them whose confirmation
is lost for good to the divergence of section 4 (`[]ProofIsLost`); without a failed execution or a
reorganisation none is. `RecoveryIsSentUnlessBlocked` names what holds a transaction back: from some
point on there is always one before it that the node has and the relayer has no key for.

## 4. Where the code and its words differ

Checked, each by a run that must find the violation:

* `MCDepositAddress_settle` / `WalletGetsAResult` (lib-js 255): `responseCount` counts failures
  only. Answers that differ, or some answers and some failures, leave the promise pending with every
  request ended.
* `RelayCheckpoint_conf` / `ConfMarkedMeansConfirmed` (relayer 723): the key is inserted after a
  refusal too. A reorganisation between the search and the execution is enough, without any fault,
  and that checkpoint is reported as "already relayed" from then on.
* `Signer_rates` / `NoSignatureOverRate` (signer 95): rates and transactions come from two loads of
  a copy that the crawler replaces in between; a checkpoint that turned to signing after the first
  load is signed with its own rates unseen.

Seen, modelled as they are, and without a run:

* relayer 280: a first scan that fails before it begins passes its tip over as scanned. And relayer
  282: while the node does not know the tip that was scanned last, `commonAncestor` throws, and no
  block is scanned until it does, or the relayer restarts.
* relayer 377: a statement that fails, or a restart, between the key and the row leaves the outputs of
  that transaction out of the pending list until a block scan finds them (`missed`).
* lib-js 50: of two relayers, `Math.round(2 * 2 / 3)` asks for one, so that the first answer decides.
* deposit_index 25: a row from the mempool keeps no height when its deposit is mined, so the API
  reports no confirmations for it until it is credited.
* relayer 811: signatory set 0 is taken for no index.
* relayer 839: the README of lib-js (line 68) says that relayers reject addresses at capacity; only
  the wallet looks at `deposits_enabled`, in the first round, and the relayer that takes the address
  in the second does not ask.
* relayer 95: a failed `getbestblockhash` ends the process, and the API with it (`Restart`).
* checkpoint.service 14: asked without an index, signatory set and transaction may be of two
  checkpoints, the transaction never of the older (`CheckpointAnswerAgrees` says how far they agree).
* signer 64: recovery transactions are never signed, the loop before does not end.

Seen, and outside the models: bin/relayer 47-56 registers the error handler before the routes, so
that Express never comes to it and answers errors in its own form; `submit_deposit_address` opens
the database file that a running relayer has open.

## 5. Theorems

Proved by TLAPS for every value of the constants that the named assumptions allow.

**RelayHeader_proofs**: `TypeCorrect`, `BatchStartsOnSideChain`, `CompleteBatchesAreAccepted`,
`TheRestIsInStep`, `FollowsSafely`; `HeaderAssumption` asks for a batch of at least one header and a
chain of at least one block. The node may reorganise between any two requests, so that none of the
confirmations that `commonAncestor` compares need be those of one chain. What the argument rests on
is the order of its steps (`WalkOK`): `relayHeaderBatch` goes on only when the node is at least as
high as the light client, and the loop steps the higher header down, the right one when they are
level; so the left header is never the lower one, the exit on *its* confirmations is never taken
(`MetIsRight`), and the right header, an ancestor of the light client's block by construction, is
what comes out. A header's `nextblockhash` was its child when it was read, and a child it stays
(`BatchOK`), so a batch is linked although each header was read from another chain. `HeightsOK` says
that `lastHash` is never above the light client. `FollowsSafely` is the safety half of the
refinement of `HeaderFollow` (each step moves the node or the light client up, or neither); its
liveness half is TLC's.

**RelayDeposit_proofs**: `TypeCorrect`, `PendingRowsAreMarked`, `ScansStayOnChain`,
`MarkedOutputsAreListed`, `CreditedRowsLeave`, `HeadersFollowSafely`. Assumptions: the chain is at
least one scan window high when the relayer starts (`InitHeightAssumption`; the code would ask for
negative heights otherwise), and bounds and sizes are naturals. None of the properties is inductive.
`IInv` adds: where the loop is inside the outputs, `cur` is an output of a transaction of the model
(`CursorOK`); the light client's height never falls, so the tip the relayer read is no higher than
the light client is now (`HeightsOK`); and the window it measured fits under that height (`ScanOK`),
which is why the second read of the height (relayer 400) cannot take the window below the first
block. `PendingRowsAreMarked` rests on the order of relayer 377 and 378. `CreditedRowsLeave` is an
action property: `RowLeaves` shows that the only step which drops a row is `maybeRelayDeposit`'s, of
the outpoint it has just asked the contract about. `MarkedOutputsAreListed` needs it: a mark
outlives the rows of its transaction only once their outpoints are credited. `HeadersFollowSafely`
says that the one action which stands for the header relay here, and the network around it, stay
within `HeaderFollow`, which `RelayHeader` is shown to implement: the two modules agree about the
light client. Lemmas: `insertDeposit` adds at most its row and leaves one of its outpoint,
`removeDeposit` drops one outpoint, ancestors of blocks are blocks.

**RelayCheckpoint_proofs**: `NothingIsMarkedUnsent`, for any number of checkpoints, faults and
branches: the keys of sent transactions are of transactions that the node has taken. Not inductive
alone: between the node's answer and the key (`pc = "mark"`) the cursor must be at such a
transaction (`AnswerIsKept`). `TypeCorrect`; `ScanLeavesNoGap`: the overlapping batches of
`scanForTxid` find every transaction on the light client's chain at most `ScanBlocks` below its tip,
for any batch of two blocks or more and any chain. It is an induction over the height at which a
batch begins, which no theorem of the library offers to these provers; here it is the least
counterexample of a set of numbers (`LeastNumber`, from the well-foundedness of `<`): the least
prefix on which the recursive function `ScanFrom` has no value (`ScanExists`), and the least height
from which it misses a transaction (`ScanIsComplete`). The first attempt failed for a good reason:
with `ScanBlocks = 0` nothing is searched and the property is false, so `ScanAssumption` now asks
for one block (relayer 694 passes 200), and the function is not defined for height 0, at which it
referred to itself at 1. `OnlyReorgsRefuseProofs` is an action property: a proof whose execution
reaches the contract is refused only if its block has left the light client's chain, or the contract
has confirmed the checkpoint already. The height that was read first is at most the light client's
(`HeightsOK`) and the block found lies `MinConf` below it (`FoundIsBuried`), so that nothing but a
reorganisation in between can undo the search; that it can is what `RelayCheckpoint_conf` shows.

**RelayLoop_proofs**: the recovery pass alone (`NothingIsMarkedUnsent`, with the same
`AnswerIsKept`), the account alone, and that the composition is one. `CallsAreExecutedOnce`, for any
set of clients and any number of calls: no call is executed twice and each client's are in order.
`AccountInv` says that the chain holds consecutive numbers (`InPlace`); that nothing known or signed
is ahead of the committed number (`NoneAhead`); that a client's transactions are numbered in the
order of its calls, one for each (`InOrder`); and that a call which is still to be broadcast comes
after all that were (`StillToCome`), which is why `Retry` is safe: it is taken only where no node
took the transaction. The order rests on signing with the committed number, which is what the
signing client of cosmjs does. `LoopRunsRecovery` and `LoopUsesAccount` say that `LoopSpec`
implements `RelayRecovery` and, under the renaming of its instance, `Account`: a step of the loop is
a step of the part or leaves it alone, given that the pass is under way only in its part of the loop
(`PassInItsPart`; a failure elsewhere is one of the list's) and that a client without a call has no
message and no number (`IdleIsEmpty`; a restart then ends a call or changes nothing).
`LoopMarksWhatWasSent`, `LoopCallsOnce` and `LoopTypeCorrect` carry the parts' theorems over to the
loop.

**DepositAddress_proofs**: `TypeCorrect`; `ShownAddressIsWatched`, for any finite set of relayers:
`WatchInv` says that an answer in the second round is an accepted submission at that relayer, and
watching is not undone (expiry comes long after: `max_age` against a wallet's seconds), so the
voters of the result are among its watchers.

**RelayerApi_proofs**: `TypeCorrect` (each row is that of a signatory set and has its time),
`AddressStaysWatched`, for any requests, removals and faults, under `ApiAssumption`:
`max_deposit_age` and the distance of the two clocks (`Skew`) together are at most `max_age`; and
`CheckpointAnswersAgree`. With ages that are closer, a host whose clock is ahead would drop an
accepted address while its deposits are taken. `IInv` adds that a request which is about to answer
OK has its row in the table (`AnswerStays`), and that what a removal has left to delete has expired
and stays so (`TodoHasExpired`): the clock only goes on, so a late statement removes nothing that is
needed, and a row that is inserted again under the same key has the same time. For the answers of
two queries, `OfOneCheckpoint` says where a request is between them: asked with an index it keeps to
it, and without one its signatory set is no younger than the building checkpoint, which only grows.

**Signer_proofs**: `TypeCorrect`; `RegisteredKeyIsOurs`: the registered key is the one in the file,
through any number of restarts. `KeyInv` adds that past `load` the key in memory is the one in the
file. `BreakerHolds` is an action property: the step that submits signatures does so at least
`MinBlocks` above the height at which the checkpoint before was signed. `BreakerInv` says that
checkpoints are signed in their order (`SignedInOrder`), that the index and the heights in memory are
never ahead of the contracts' (`ReadsLag`), and that past the breaker the height read was far enough
above that signing (`BreakerPassed`), which is never written again, whoever signs in between.

**RedeemScript_proofs**: `AnyWitnessNeedsShare`: the signatories' part of a script never opens on
signatures of no more than the threshold's share (of the foundation's part, `RunIsVote` says what
its own threshold asks). `EnoughPowerIsEnough`: a well-formed witness never makes the interpreter
fail, and opens the script if its signatures have more than the share and what rounding can cost
them (for a foundation, whose powers are not truncated, as long as their sum is a number the network
compares). `RunIsVote`: every run implements `ThresholdVote`. All three are of `AnySpec`, which
starts with any signatory set and any sequence of integers, of any length, as the witness, since a
spender is bound to no form; `SpecIsAny` says that the checked runs are among its runs, `Safety`
carries the properties over, and `TypeCorrectness` adds that every number the signatories' script
compares is one the network takes. Assumptions: the network's numbers are wider than `Precision`, at
least one bit (`NumbersAssumption`); thresholds are shares of at most the whole
(`ThresholdsAssumption`); powers are naturals (`FoundationsAssumption`, `SigsAssumption`).

`IInv` has the types, what `result` says of a run that has ended (`ResultOK`), and a `Phase` for
each instruction of a question, of the comparison and of the foundation's branches (`First0` to
`First6`, `Counted`, `Later1` to `Later6`, `Compare1` to `Compare4`, `Branch1` to `Branch3`, and
what is skipped). A phase says where `at` is, which branches are taken, which items the script has
put on the stack, that the rest of the stack is the rest of the witness (`Over`), that `signers` are
the keys asked so far whose signature was in its place, and that `acc` is the sum of their units
(`Tallied`). There is one lemma per phase (`First0Step` and so on), and `NextIInv` puts them
together; `NextVotes` maps the same steps to the vote's. What is in the script at each place comes
first (`QuestionAt`, `ScriptIs`, `FirstAt`, `LaterAt`). Then the numbers: `VotedIsNear` keeps the
sum, times the unit, between the power that signed and that power less the rounding of the keys
asked; `TruncationKeepsPrecision` says that the truncated power has at most `Precision` bits, which
is what `NumbersFit` needs. The recursive functions `Pow2` and `SumOf` are known to exist by a least
counterexample, as `ScanFrom` above. Attempts to prove these found an error of the model, which a
small instance could not show: names of keys that met `ZeroByte` and `Dest` from 98 signatories on;
and that `Precision` has to be at least one bit, which was not said.

`RoundingIsSafe` and `RoundingIsCheap` say the same of `ThresholdVote` by itself, for any powers,
unit and threshold, whichever script implements it; the invariant is `VoteInv`.

**Only model-checked**: the liveness properties (fairness and ENABLED are out of the prover's reach):
the liveness half of `ImplementsFollow`, `CreditedRowIsDropped`, `DeepDepositIsCredited`,
`CompletedIsBroadcast`, `ConfirmationCatchesUp`, `LoopComesRound`, `RecoveryIsSentUnlessBlocked`,
`ExpiredIsRemoved` and `SigningGoesOn`. Every safety property that a run finds to hold is a theorem.

## 6. Not modelled

Argument parsing, wiring and logging; `trackMemoryLeak`; the wasm and contract builds; of the
generated clients, the methods that no modelled part calls; `startRecoveryTxSigning`, which is not
reached (its call is among the signer's in `Account`); `generateDepositAddress` of the relayer
(777-804), which only tests call; `retry` and `setNestedMap`, which nothing calls, and `insertData`
and `dropTable` of the database; encodings of destinations, addresses and mnemonics; pagination of
the API's lists; the three reads of `getCheckpointQueue` are one. The contracts and the Bitcoin node
are environment: their actions are what the code needs of them, and a claim about the bridge as a
whole would need the contracts' source. SQL text is not modelled, nor a torn write of a file. The
search of 1100 completed checkpoints (relayer 612) is a constant larger than the checkpoints of the
run.

## 7. What is left

1. **Composition**: headers, deposits and checkpoints over one chain inside `RelayLoop`, in place of
   the calls that stand for them; `HeaderFollow`, which `RelayHeader` and `RelayDeposit` are proved to
   keep to, is the abstract chain that it would be built on.
2. **A run for the capacity limit** of section 4, and one for the recovery transactions that are
   never signed.
