-------------------------------- MODULE RelayLoop ------------------------------
(***************************************************************************)
(* relay of services/relayer: one loop runs the parts of the relayer one   *)
(* after another, so that each waits for those before it and for the calls *)
(* that they make with the Cosmos account, which other clients share.      *)
(* relayRecoveryDeposits is RelayRecovery's; of the other parts, which     *)
(* modules of their own model, only their calls are left.                  *)
(***************************************************************************)
EXTENDS RelayRecovery, Sequences

CONSTANTS
    Other,     \* clients of the account beside the relayer
    MaxCalls,  \* bound: calls of all the clients
    MaxTip     \* bound: blocks

ASSUME TipAssumption == MaxTip \in Nat \ {0}

VARIABLES
    part,      \* the part of the loop: headers, best, deposit, recovery, checkpoint
    tip,       \* the node's best block
    lastHash,  \* the block that relayHeader last returned
    at, calls, message, number, known, log, next

\* All the clients of the account.
Clients == Other \cup {"relayer"}

A == INSTANCE Account WITH Client <- Clients

account  == <<at, calls, message, number, known, log, next>>
loop     == <<part, tip, lastHash>>
recovery == <<signed, node, sent, locals>>
loopVars == <<vars, loop, account>>

LoopTypeOK ==
    /\ TypeOK /\ A!TypeOK
    /\ part \in {"headers", "best", "deposit", "recovery", "checkpoint"}
    /\ tip \in 1..MaxTip
    /\ lastHash \in 0..tip
    /\ pc # "list" => part = "recovery"

LoopInit ==
    /\ Init /\ A!Init
    /\ part = "headers" /\ tip = 1 /\ lastHash = 0

--------------------------------------------------------------------------------
(* relay: the loop awaits each part, and a part its call *)

At(p) == part = p /\ at["relayer"] = "idle"

Call(m) == A!Execute("relayer", m)

\* The light client has the best block ...
HeadersAgree ==
    /\ At("headers")
    /\ lastHash' = tip
    /\ part' = "best"
    /\ UNCHANGED <<vars, tip, account>>

\* ... or it is relayed a batch, and lastHash is what it was.
RelayHeaders ==
    /\ At("headers")
    /\ Call("relay_headers")
    /\ part' = "best"
    /\ UNCHANGED <<vars, tip, lastHash>>

HeadersFail ==
    /\ At("headers")
    /\ Fault
    /\ part' = "best"
    /\ UNCHANGED <<recovery, tip, lastHash, account>>

\* Mutant of BestBlock: no part is run but for a block that is new.
BestBlockOnce ==
    /\ At("best")
    /\ part' = IF lastHash = tip /\ tip = 1 THEN "deposit" ELSE "headers"
    /\ UNCHANGED <<vars, tip, lastHash, account>>

BestBlock ==
    /\ At("best")
    /\ part' = IF lastHash = tip THEN "deposit" ELSE "headers"
    /\ UNCHANGED <<vars, tip, lastHash, account>>

RelayDeposits ==
    /\ At("deposit")
    /\ \/ Call("relay_deposit") /\ UNCHANGED part
       \/ part' = "recovery" /\ UNCHANGED account
    /\ UNCHANGED <<vars, tip, lastHash>>

\* A step of the pass over the recovery transactions.
Pass ==
    /\ At("recovery")
    /\ ListTxs \/ Skip \/ Send \/ MarkSent
    /\ UNCHANGED <<loop, account>>

PassEnds ==
    /\ At("recovery")
    /\ SendDone \/ Refused \/ ListFails
    /\ part' = "checkpoint"
    /\ UNCHANGED <<tip, lastHash, account>>

\* relayCheckpoints makes no call, relayCheckpointConf one.
RelayCheckpoints ==
    /\ At("checkpoint")
    /\ \/ Call("relay_checkpoint")
       \/ UNCHANGED account
    /\ part' = "headers"
    /\ UNCHANGED <<vars, tip, lastHash>>

\* The process ends: also where getbestblockhash fails, which no part catches.
Restart ==
    /\ Crash
    /\ part' = "headers" /\ lastHash' = 0
    /\ A!Ends("relayer")
    /\ UNCHANGED <<tip, calls, known, log, next>>

LoopStep ==
    \/ HeadersAgree \/ RelayHeaders \/ BestBlock \/ RelayDeposits
    \/ Pass \/ PassEnds \/ RelayCheckpoints

--------------------------------------------------------------------------------
(* The rest of the world *)

NewBlock ==
    /\ tip < MaxTip
    /\ tip' = tip + 1
    /\ UNCHANGED <<vars, part, lastHash, account>>

World ==
    /\ Sign \/ \E u \in Tx : OtherRelaySend(u) \/ Mine(u) \/ Unmine(u) \/ Evict(u)
    /\ UNCHANGED <<loop, account>>

\* A step of the account: the call of a part, or another client.
Calls ==
    /\ \/ \E c \in Clients : A!Step(c) \/ A!Fails(c)
       \/ \E c \in Other, m \in A!Message : A!Execute(c, m)
       \/ A!Commit \/ A!Forget
    /\ UNCHANGED <<vars, loop>>

LoopNext == LoopStep \/ HeadersFail \/ Restart \/ NewBlock \/ World \/ Calls

\* The loop never stops, calls go on, and the chain includes what its mempool
\* holds.
LoopSpec ==
    /\ LoopInit /\ [][LoopNext]_loopVars
    /\ WF_loopVars(LoopStep)
    /\ \A c \in Clients : WF_loopVars(A!Step(c) /\ UNCHANGED <<vars, loop>>)
    /\ WF_loopVars(next > Len(log) /\ A!Commit /\ UNCHANGED <<vars, loop>>)

--------------------------------------------------------------------------------
(* Properties *)

\* A call that is retried (cosmos 11-31) is executed at most once, and a
\* client's calls are executed in the order in which it made them, also where
\* it gave up on an earlier one that was still to be included.
CallsRunOnceInOrder == A!CallsRunOnceInOrder

\* The loop (relayer 93-112) comes to the last of its parts again and again:
\* no new block, failed request or contention for the account (cosmos 15-30)
\* keeps it in an earlier one.
LoopComesRound == []<>(part = "checkpoint")

================================================================================
