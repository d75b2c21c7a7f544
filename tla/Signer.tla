-------------------------------- MODULE Signer --------------------------------
(***************************************************************************)
(* A signer node (services/signer) with the copy of the app contract's     *)
(* state that it signs from (services/contract-simulate).  The key comes   *)
(* first; then one loop signs the checkpoint before the building one, each *)
(* query an await of its own, while another task downloads the contract's  *)
(* state and replaces the copy.  The loop that signs recovery transactions,*)
(* startRecoveryTxSigning, is not here: startRelay awaits the first loop   *)
(* before it, which has no end.                                            *)
(*                                                                         *)
(* pc names the await the signer is at:                                    *)
(*   load, query, register        relay                                    *)
(*   idle, building, checkpoint   startSigningCheckpoint                   *)
(*   rates                        checkChangeRate                          *)
(*   txs, height, breaker, submit signingTxs, circuitBreaker, submit       *)
(***************************************************************************)
EXTENDS Integers

CONSTANTS
    Key,           \* the keys that loadOrGenerateXpriv may generate
    NoKey,         \* no key: no file, or null from the contract
    MinBlocks,     \* env.signer.minBlocksPerCheckpoint
    MaxIndex,      \* bound: the last checkpoint
    MaxHeight,     \* bound: the light client's height
    MaxCrashes,    \* bound: restarts of the process
    MaxFaults      \* bound: queries that fail, and transactions that are lost

ASSUME KeyAssumption == NoKey \notin Key
ASSUME MinBlocksAssumption == MinBlocks \in Nat
ASSUME BoundAssumption == 
    MaxIndex \in Nat /\ MaxHeight \in Nat /\ MaxCrashes \in Nat /\ MaxFaults \in Nat

VARIABLES
    \* the contracts
    height,        \* headerHeight of the light client
    building,      \* buildingIndex
    signing,       \* whether the checkpoint before it is still being signed
    over,          \* checkpoints whose change rates are above the maximum
    signedAt,      \* signed_at_btc_height of each checkpoint, None before
    sigs,          \* checkpoints that hold this signer's signatures
    registered,    \* the signatory key of this signer
    \* the files of the signer, which outlive a crash
    file,          \* the key in the file xpriv
    pending,       \* the downloaded contract state, and ...
    final,         \* ... the copy that is simulated
    \* the locals
    initialized,   \* ContractSimulator.initialized
    pc,
    xpriv,
    btcHeight,
    previousIndex,
    currentHeight,
    crawl,         \* the await stateCrawler is at: save or copy
    \* bounded counters of the environment
    crashes, faults

contract == <<building, signing, over, signedAt, sigs>>
others   == <<height, registered>>
files    == <<file, pending, final>>
crawler  == <<initialized, crawl>>
bounds   == <<crashes, faults>>
locals   == <<xpriv, btcHeight, previousIndex, currentHeight>>
vars     == <<contract, others, files, crawler, pc, locals, bounds>>

--------------------------------------------------------------------------------
Index == 0..MaxIndex

\* No index and no height.
None == -1

\* What a downloaded state tells of: the checkpoint being signed, whether its
\* rates are above the maximum, and whether this signer has signed it.
Snapshot == [signing : Index \cup {None}, over : BOOLEAN, signed : BOOLEAN]

Nothing == [signing |-> None, over |-> FALSE, signed |-> FALSE]

PCs == {"load", "query", "register", "idle", "building", "checkpoint", "rates",
        "txs", "height", "breaker", "submit"}

TypeOK ==
    /\ height \in Nat
    /\ building \in 0..(MaxIndex + 1)
    /\ signing \in BOOLEAN /\ (signing => building > 0)
    /\ over \subseteq Index /\ sigs \subseteq Index
    /\ signedAt \in [Index -> Nat \cup {None}]
    /\ registered \in Key \cup {NoKey} /\ file \in Key \cup {NoKey}
    /\ pending \in Snapshot /\ final \in Snapshot
    /\ initialized \in BOOLEAN
    /\ pc \in PCs
    /\ xpriv \in Key \cup {NoKey}
    /\ btcHeight \in Nat
    /\ previousIndex \in Index
    /\ currentHeight \in Nat
    /\ crawl \in {"save", "copy"}
    /\ crashes \in Nat /\ faults \in Nat

Init ==
    /\ height = 0
    /\ building = 0 /\ signing = FALSE
    /\ over = {} /\ sigs = {}
    /\ signedAt = [i \in Index |-> None]
    /\ registered = NoKey /\ file = NoKey
    /\ pending = Nothing /\ final = Nothing
    /\ initialized = FALSE
    /\ pc = "load"
    /\ xpriv = NoKey
    /\ btcHeight = 0 /\ previousIndex = 0 /\ currentHeight = 0
    /\ crawl = "save"
    /\ crashes = 0 /\ faults = 0

Goto(label) == pc' = label

--------------------------------------------------------------------------------
(* relay and loadOrGenerateXpriv *)

\* A mutant of LoadOrGenerate: the new key is not written.
LoadOrGenerateUnsaved ==
    /\ pc = "load"
    /\ xpriv' \in IF file = NoKey THEN Key ELSE {file}
    /\ Goto("query")
    /\ UNCHANGED <<contract, others, files, crawler, btcHeight, previousIndex,
                   currentHeight, bounds>>

\* A key is generated only when there is no file, and written before its use.
LoadOrGenerate ==
    /\ pc = "load"
    /\ xpriv' \in IF file = NoKey THEN Key ELSE {file}
    /\ file' = xpriv'
    /\ Goto("query")
    /\ UNCHANGED <<contract, others, pending, final, crawler, btcHeight,
                   previousIndex, currentHeight, bounds>>

QuerySignatoryKey ==
    /\ pc = "query"
    /\ Goto(IF registered = NoKey THEN "register" ELSE "idle")
    /\ UNCHANGED <<contract, others, files, crawler, locals, bounds>>

SetSignatoryKey ==
    /\ pc = "register"
    /\ registered' = xpriv
    /\ Goto("idle")
    /\ UNCHANGED <<contract, height, files, crawler, locals, bounds>>

--------------------------------------------------------------------------------
(* ContractSimulator *)

\* stateCrawler, once relay has started it: the contract's state ...
SaveState ==
    /\ pc # "load" /\ crawl = "save"
    /\ crawl' = "copy"
    /\ pending' = [signing |-> IF signing THEN building - 1 ELSE None,
                   over |-> signing /\ building - 1 \in over,
                   signed |-> signing /\ building - 1 \in sigs]
    /\ UNCHANGED <<contract, others, file, final, initialized, pc, locals, bounds>>

\* A mutant of CopyState: it is made once, when the signer starts.
CopyStateOnce ==
    /\ crawl = "copy"
    /\ crawl' = "save"
    /\ final' = IF initialized THEN final ELSE pending
    /\ initialized' = TRUE
    /\ UNCHANGED <<contract, others, file, pending, pc, locals, bounds>>

\* ... and the copy, which takes its place without an await.
CopyState ==
    /\ crawl = "copy"
    /\ crawl' = "save"
    /\ final' = pending
    /\ initialized' = TRUE
    /\ UNCHANGED <<contract, others, file, pending, pc, locals, bounds>>

--------------------------------------------------------------------------------
(* startSigningCheckpoint *)

ReadHeight ==
    /\ pc = "idle" /\ initialized
    /\ btcHeight' = height
    /\ Goto("building")
    /\ UNCHANGED <<contract, others, files, crawler, xpriv, previousIndex,
                   currentHeight, bounds>>

\* A mutant of ReadBuildingIndex: the first checkpoint has one before it too.
ReadBuildingIndexUnchecked ==
    /\ pc = "building"
    /\ previousIndex' = building - 1
    /\ Goto("checkpoint")
    /\ UNCHANGED <<contract, others, files, crawler, xpriv, btcHeight,
                   currentHeight, bounds>>

ReadBuildingIndex ==
    /\ pc = "building"
    /\ IF building = 0
         THEN Goto("idle") /\ UNCHANGED previousIndex
         ELSE Goto("checkpoint") /\ previousIndex' = building - 1
    /\ UNCHANGED <<contract, others, files, crawler, xpriv, btcHeight,
                   currentHeight, bounds>>

\* The contract itself says whether the checkpoint is being signed.
ReadCheckpoint ==
    /\ pc = "checkpoint"
    /\ Goto(IF signing /\ previousIndex = building - 1 THEN "rates" ELSE "idle")
    /\ UNCHANGED <<contract, others, files, crawler, locals, bounds>>

\* simulateAppCwBitcoin: each query has a client of its own, of the copy that is
\* in place by now.
Simulated == final

\* changeRates: those of the checkpoint being signed are above the maximum.
RatesAreOver == Simulated.over

\* signingTxsAtCheckpointIndex: it has transactions for this signer.
HasSigningTxs(i) == Simulated.signing = i /\ ~Simulated.signed

CheckChangeRate ==
    /\ pc = "rates"
    /\ Goto(IF RatesAreOver THEN "idle" ELSE "txs")
    /\ UNCHANGED <<contract, others, files, crawler, locals, bounds>>

ReadSigningTxs ==
    /\ pc = "txs"
    /\ Goto(IF HasSigningTxs(previousIndex) THEN "height" ELSE "idle")
    /\ UNCHANGED <<contract, others, files, crawler, locals, bounds>>

\* circuitBreaker: the height first ...
ReadCurrentHeight ==
    /\ pc = "height"
    /\ currentHeight' = height
    /\ Goto("breaker")
    /\ UNCHANGED <<contract, others, files, crawler, xpriv, btcHeight,
                   previousIndex, bounds>>

\* A mutant of TooRecent: one block too few.
TooRecentButOne(at) == at + MinBlocks - currentHeight > 1

TooRecent(at) == at + MinBlocks - currentHeight > 0

\* ... then the height at which the checkpoint before was signed.
CircuitBreaker ==
    /\ pc = "breaker"
    /\ LET at == IF previousIndex > 0 THEN signedAt[previousIndex - 1] ELSE None
       IN  Goto(IF at # None /\ TooRecent(at) THEN "idle" ELSE "submit")
    /\ UNCHANGED <<contract, others, files, crawler, locals, bounds>>

\* The contract (external) takes signatures for the checkpoint being signed, of
\* the key it knows, once; they may be the last ones it needs.
Accepts ==
    /\ signing /\ previousIndex = building - 1
    /\ previousIndex \notin sigs
    /\ registered = xpriv

\* A refusal is logged by wrappedExecuteTransaction.
SubmitSignature ==
    /\ pc = "submit"
    /\ IF Accepts
         THEN /\ sigs' = sigs \cup {previousIndex}
              /\ \/ /\ signing' = FALSE
                    /\ signedAt' = [signedAt EXCEPT ![previousIndex] = btcHeight]
                 \/ UNCHANGED <<signing, signedAt>>
         ELSE UNCHANGED <<sigs, signing, signedAt>>
    /\ Goto("idle")
    /\ UNCHANGED <<building, over, others, files, crawler, locals, bounds>>

\* A query of the loop fails, or the transaction is lost: the error is logged,
\* and the loop goes on.
LoopFails ==
    /\ pc \in {"building", "checkpoint", "rates", "txs", "height", "breaker", "submit"}
    /\ faults < MaxFaults
    /\ faults' = faults + 1
    /\ Goto("idle")
    /\ UNCHANGED <<contract, others, files, crawler, locals, crashes>>

--------------------------------------------------------------------------------
(* The process and the rest of the world *)

\* A restart, also after a rejection of relay or of the crawler, which no one
\* handles.
Crash ==
    /\ crashes < MaxCrashes
    /\ crashes' = crashes + 1
    /\ initialized' = FALSE /\ crawl' = "save"
    /\ Goto("load")
    /\ xpriv' = NoKey
    /\ btcHeight' = 0 /\ previousIndex' = 0 /\ currentHeight' = 0
    /\ UNCHANGED <<contract, others, files, faults>>

\* The building checkpoint moves on to be signed, while the bound on the height
\* leaves room for the circuit breaker.
AdvanceCheckpoint ==
    /\ ~signing /\ building <= MaxIndex /\ height + MinBlocks <= MaxHeight
    /\ building' = building + 1
    /\ signing' = TRUE
    /\ over' \in {over, over \cup {building}}
    /\ UNCHANGED <<signedAt, sigs, others, files, crawler, pc, locals, bounds>>

\* The other signers' signatures are enough.
OthersSign ==
    /\ signing
    /\ signing' = FALSE
    /\ signedAt' = [signedAt EXCEPT ![building - 1] = height]
    /\ UNCHANGED <<building, over, sigs, others, files, crawler, pc, locals, bounds>>

NewHeader ==
    /\ height < MaxHeight
    /\ height' = height + 1
    /\ UNCHANGED <<contract, registered, files, crawler, pc, locals, bounds>>

--------------------------------------------------------------------------------
Step ==
    \/ LoadOrGenerate \/ QuerySignatoryKey \/ SetSignatoryKey
    \/ ReadHeight \/ ReadBuildingIndex \/ ReadCheckpoint \/ CheckChangeRate
    \/ ReadSigningTxs \/ ReadCurrentHeight \/ CircuitBreaker \/ SubmitSignature

Next ==
    \/ Step \/ SaveState \/ CopyState \/ LoopFails
    \/ Crash \/ AdvanceCheckpoint \/ OthersSign \/ NewHeader

Spec == Init /\ [][Next]_vars

\* The loop and the crawler go on, and blocks are found.
Fairness == WF_vars(Step) /\ WF_vars(SaveState) /\ WF_vars(CopyState) /\ WF_vars(NewHeader)

FairSpec == Spec /\ Fairness

--------------------------------------------------------------------------------
(* Properties *)

\* The key that the contract knows for this signer is the one in its file,
\* through any restart between generating, writing and registering it.
KeyIsOurs == registered # NoKey => registered = file

\* No signature goes out sooner than MinBlocks blocks after the height at which
\* the checkpoint before was signed, although that height, the current one and
\* the checkpoint's index are read at different times.
CircuitBreakerHolds ==
    [][\A i \in (sigs' \ sigs) \ {0} :
          height >= signedAt[i - 1] + MinBlocks /\ signedAt[i - 1] # None]_vars

\* A checkpoint that is to be signed, with rates that are not above the maximum,
\* is signed by this signer unless the others' signatures are enough.
SigningGoesOn ==
    \A i \in Index : (signing /\ building - 1 = i /\ i \notin over)
                         ~> (i \in sigs \/ signedAt[i] # None)

\* checkChangeRate keeps this signer from signing a checkpoint above the maximum
\* rates.  (It does not: the rates and the transactions are those of two copies.)
NoSignatureOverRate == sigs \cap over = {}
================================================================================
