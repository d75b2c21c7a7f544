------------------------------ MODULE RelayHeader ------------------------------
(***************************************************************************)
(* The header relay (services/relayer: relayHeader, relayHeaderBatch,      *)
(* commonAncestor, getHeaderBatch) one request at a time, against a node   *)
(* that may reorganise between any two of them and a light client that     *)
(* other relayers feed too.  A header is what getblockheader returned when *)
(* it was asked for: its confirmations and nextblockhash grow stale.       *)
(***************************************************************************)
EXTENDS HeaderChain, FiniteSets

CONSTANTS
    RELAY_HEADER_BATCH_SIZE,
    InitHeight,   \* height of the chain when the relayer starts
    MaxHeight,    \* bound: height at which the chain stops growing
    MaxForks,     \* bound: branches besides the first
    MaxDepth,     \* bound: blocks that a branch takes off
    MaxFaults     \* bound: requests that fail

ASSUME HeaderAssumption ==
    /\ RELAY_HEADER_BATCH_SIZE \in Nat \ {0}
    /\ InitHeight \in Nat \ {0}
    /\ MaxHeight \in Nat /\ MaxForks \in Nat /\ MaxDepth \in Nat /\ MaxFaults \in Nat

VARIABLES
    chain,     \* best block of the Bitcoin node
    known,     \* tips of the branches the node has
    forks,     \* branches so far
    side,      \* best block of the light client contract
    pc,
    lastHash,  \* lastHash of relay
    full, at,  \* fullNodeHash and sideChainHash
    left, right,   \* leftHeader and rightHeader of commonAncestor
    cursor,    \* cursorHeader of getHeaderBatch
    batch,     \* wrappedHeaders: the blocks, the lowest first
    faults

node   == <<chain, known, forks>>
locals == <<lastHash, full, at, left, right, cursor, batch>>
vars   == <<node, side, pc, locals, faults>>

--------------------------------------------------------------------------------
Block == Seq(0..MaxForks)

\* The fields of a block header that the relayer reads.
Header == [hash : Block, confirmations : Int, next : Block]

NoHeader == [hash |-> Null, confirmations |-> -1, next |-> Null]

IsKnown(block) == \E t \in known : OnChain(block, t)

\* getblockheader: confirmations and nextblockhash are those of the moment.
GetBlockHeader(block) ==
    [hash |-> block,
     confirmations |-> BlockConfirmations(block, chain),
     next |-> IF OnChain(block, chain) /\ block # chain
                THEN Ancestor(chain, Height(block) + 1) ELSE Null]

Prev(header) == Ancestor(header.hash, Height(header.hash) - 1)

PCs == {"header", "side", "info", "left", "right", "walk", "cursor", "batch",
        "submit", "best", "rest"}

TypeOK ==
    /\ chain \in Block /\ side \in Block
    /\ known \subseteq Block
    /\ forks \in 0..MaxForks
    /\ pc \in PCs
    /\ lastHash \in Block /\ full \in Block /\ at \in Block
    /\ left \in Header /\ right \in Header /\ cursor \in Header
    /\ batch \in Seq(Block \ {Null})
    /\ faults \in Nat

Init ==
    /\ chain = [h \in 1..InitHeight |-> 0]
    /\ known = {chain} /\ forks = 0
    /\ side = chain
    /\ pc = "header"
    /\ lastHash = Null /\ full = Null /\ at = Null
    /\ left = NoHeader /\ right = NoHeader /\ cursor = NoHeader
    /\ batch = << >>
    /\ faults = 0

Goto(label) == pc' = label

\* The locals of relayHeader are dropped when it returns.
Return ==
    /\ Goto("best")
    /\ full' = Null /\ at' = Null
    /\ left' = NoHeader /\ right' = NoHeader /\ cursor' = NoHeader
    /\ batch' = << >>

--------------------------------------------------------------------------------
(* relayHeader *)

ReadFullNode ==
    /\ pc = "header"
    /\ full' = chain
    /\ Goto("side")
    /\ UNCHANGED <<node, side, lastHash, at, left, right, cursor, batch, faults>>

\* A mutant of Noted: before the light client is asked.
NotedEarly(s) == full

\* lastHash, once the light client's best block s is read.
Noted(s) == IF s = full THEN full ELSE lastHash

\* In step with the node, the relayer notes the block; it returns the former
\* one when it has headers to relay.
ReadSideChain ==
    /\ pc = "side"
    /\ lastHash' = Noted(side)
    /\ \/ /\ side = full
          /\ Return
       \/ /\ side # full
          /\ at' = side
          /\ Goto("info")
          /\ UNCHANGED <<full, left, right, cursor, batch>>
    /\ UNCHANGED <<node, side, faults>>

\* The node has no header of the light client's block: relayHeader returns.
\* Nor has it anything to relay while it is lower than the light client.
ReadInfo ==
    /\ pc = "info"
    /\ IF IsKnown(at) /\ Height(full) >= Height(at)
         THEN Goto("left") /\ UNCHANGED <<full, at, left, right, cursor, batch>>
         ELSE Return
    /\ UNCHANGED <<node, side, lastHash, faults>>

--------------------------------------------------------------------------------
(* commonAncestor(full, at) *)

FetchLeft ==
    /\ pc = "left"
    /\ left' = GetBlockHeader(full)
    /\ Goto("right")
    /\ UNCHANGED <<node, side, lastHash, full, at, right, cursor, batch, faults>>

FetchRight ==
    /\ pc = "right"
    /\ right' = GetBlockHeader(at)
    /\ Goto("walk")
    /\ UNCHANGED <<node, side, lastHash, full, at, left, cursor, batch, faults>>

\* A mutant of Confirms: the heights alone.
ConfirmsByHeight(low, high) == Height(high.hash) > Height(low.hash)

\* `low` has the confirmations it would have if it were below `high`.
Confirms(low, high) ==
    /\ Height(high.hash) > Height(low.hash)
    /\ low.confirmations - 1 = Height(high.hash) - Height(low.hash)

\* A mutant of Met: the higher header of the fast path.
MetHigher(l, r) ==
    IF l.hash = r.hash \/ Confirms(r, l) THEN {l.hash}
    ELSE IF Confirms(l, r) THEN {r.hash} ELSE {}

\* The header commonAncestor is about to return, if any.
Met(l, r) ==
    IF l.hash = r.hash \/ Confirms(r, l) THEN {r.hash}
    ELSE IF Confirms(l, r) THEN {l.hash} ELSE {}

Walk ==
    /\ pc = "walk"
    /\ Met(left, right) = {}
    /\ IF Height(left.hash) > Height(right.hash)
         THEN left' = GetBlockHeader(Prev(left)) /\ UNCHANGED right
         ELSE right' = GetBlockHeader(Prev(right)) /\ UNCHANGED left
    /\ UNCHANGED <<node, side, pc, lastHash, full, at, cursor, batch, faults>>

--------------------------------------------------------------------------------
(* getHeaderBatch and the rest of relayHeaderBatch *)

FetchStart ==
    /\ pc = "walk"
    /\ \E start \in Met(left, right) : cursor' = GetBlockHeader(start)
    /\ left' = NoHeader /\ right' = NoHeader
    /\ Goto("batch")
    /\ UNCHANGED <<node, side, lastHash, full, at, batch, faults>>

\* A mutant of HasNext: nextblockhash may be undefined.
HasNextUnchecked == Len(batch) < RELAY_HEADER_BATCH_SIZE

HasNext == cursor.next # Null /\ Len(batch) < RELAY_HEADER_BATCH_SIZE

FetchNext ==
    /\ pc = "batch" /\ HasNext
    /\ cursor' = GetBlockHeader(cursor.next)
    /\ batch' = Append(batch, cursor.next)
    /\ UNCHANGED <<node, side, pc, lastHash, full, at, left, right, faults>>

BatchDone ==
    /\ pc = "batch" /\ ~HasNext
    /\ IF batch = << >>
         THEN Return
         ELSE Goto("submit") /\ UNCHANGED <<full, at, left, right, cursor, batch>>
    /\ UNCHANGED <<node, side, lastHash, faults>>

\* The light client contract (external): the headers connect to its chain, and
\* their last one is higher than its best block.
Accepts(headers) ==
    /\ Len(headers) > 0
    /\ OnChain(Ancestor(headers[1], Height(headers[1]) - 1), side)
    /\ \A i \in 1..Len(headers) - 1 :
          Ancestor(headers[i + 1], Height(headers[i])) = headers[i]
    /\ Height(headers[Len(headers)]) > Height(side)

\* relayHeaders: the execution the contract rejects is logged and passed over.
Submit ==
    /\ pc = "submit"
    /\ side' = IF Accepts(batch) THEN batch[Len(batch)] ELSE side
    /\ Return
    /\ UNCHANGED <<node, lastHash, faults>>

\* Any request of relayHeader fails: the error is logged.
RelayHeaderFails ==
    /\ pc \notin {"best", "rest"}
    /\ faults < MaxFaults
    /\ faults' = faults + 1
    /\ Return
    /\ UNCHANGED <<node, side, lastHash>>

\* relay: the deposits and checkpoints wait until the node's best block is the
\* one the headers were last in step with.
CheckBest ==
    /\ pc = "best"
    /\ Goto(IF chain = lastHash THEN "rest" ELSE "header")
    /\ UNCHANGED <<node, side, locals, faults>>

RelayTheRest ==
    /\ pc = "rest"
    /\ Goto("header")
    /\ UNCHANGED <<node, side, locals, faults>>

--------------------------------------------------------------------------------
(* The node and the other relayers *)

NodeMovesTo(best) ==
    /\ chain' = best
    /\ known' = {t \in known : ~OnChain(t, best)} \cup {best}

Mine ==
    /\ Height(chain) < MaxHeight
    /\ NodeMovesTo(Append(chain, chain[Height(chain)]))
    /\ UNCHANGED <<forks, side, pc, locals, faults>>

Branch(f, n) == Ancestor(chain, f) \o [i \in 1..n |-> forks + 1]

\* A branch from height f, n blocks long, wins over the node's chain.
Reorg(f) ==
    /\ forks < MaxForks
    /\ f < Height(chain) /\ f >= Height(chain) - MaxDepth
    /\ Height(chain) < MaxHeight
    /\ NodeMovesTo(Branch(f, Height(chain) + 1 - f))
    /\ forks' = forks + 1
    /\ UNCHANGED <<side, pc, locals, faults>>

\* Another relayer brings a branch that the node has not seen, or has seen
\* and does not prefer.
OtherRelayFork(f) ==
    /\ forks < MaxForks
    /\ f < Height(chain) /\ f <= Height(side) /\ f >= Height(side) - MaxDepth
    /\ Height(side) + 1 < MaxHeight
    /\ forks' = forks + 1
    /\ side' = Branch(f, Height(side) + 1 - f)
    /\ known' \in {known, known \cup {side'}}
    /\ UNCHANGED <<chain, pc, locals, faults>>

\* The node hears of the light client's block ...
NodeLearns ==
    /\ ~IsKnown(side)
    /\ known' = known \cup {side}
    /\ UNCHANGED <<chain, forks, side, pc, locals, faults>>

\* ... and prefers it when it is higher than its own.
NodeAdopts ==
    /\ IsKnown(side)
    /\ Height(side) > Height(chain)
    /\ NodeMovesTo(side)
    /\ UNCHANGED <<forks, side, pc, locals, faults>>

OtherRelayHeaders ==
    /\ Height(chain) > Height(side)
    /\ side' = chain
    /\ UNCHANGED <<node, pc, locals, faults>>

--------------------------------------------------------------------------------
Step ==
    \/ ReadFullNode \/ ReadSideChain \/ ReadInfo
    \/ FetchLeft \/ FetchRight \/ Walk
    \/ FetchStart \/ FetchNext \/ BatchDone \/ Submit
    \/ CheckBest \/ RelayTheRest

Environment ==
    \/ Mine \/ NodeLearns \/ NodeAdopts \/ OtherRelayHeaders
    \/ \E f \in 0..MaxHeight : Reorg(f) \/ OtherRelayFork(f)

Next == Step \/ RelayHeaderFails \/ Environment

Spec == Init /\ [][Next]_vars

\* The loop never stops, and the node hears of every block the light client
\* has.  Blocks keep coming (up to the bound): with two branches of one height,
\* only the next block moves the light client.  No other relayer is needed.
FairSpec ==
    Spec /\ WF_vars(Step) /\ WF_vars(Mine) /\ WF_vars(NodeLearns) /\ WF_vars(NodeAdopts)

--------------------------------------------------------------------------------
(* Properties *)

\* The block the batch starts from is on the light client's chain as the
\* relayer read it, by whichever exit commonAncestor left its loop and however
\* stale the confirmations were.
StartIsOnSideChain ==
    pc \in {"batch", "submit"} =>
        OnChain(IF batch = << >> THEN cursor.hash
                ELSE Ancestor(batch[1], Height(batch[1]) - 1), at)

\* What the light client refuses is never the relayer's doing: a batch whose
\* last header is the node's best block connects and is accepted, although its
\* headers were fetched one by one, if the light client has not moved since it
\* was read and is lower.
CompleteBatchIsAccepted ==
    pc = "submit" /\ side = at /\ batch[Len(batch)] = chain /\ Height(chain) > Height(at)
        => Accepts(batch)

\* The rest of the loop runs only with the light client in step with the node,
\* or overtaken since (relayer 96).
RestIsInStep == pc = "rest" => Height(lastHash) <= Height(side)

\* The header relay implements HeaderFollow.
HF == INSTANCE HeaderFollow WITH chain <- chain, side <- side

ImplementsFollow == HF!Spec
===============================================================================
