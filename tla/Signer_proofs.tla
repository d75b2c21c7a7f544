----------------------------- MODULE Signer_proofs -----------------------------
(***************************************************************************)
(* The signer's types, that its registered key is the one in its file, and *)
(* that it never submits signatures for a checkpoint sooner after the one  *)
(* before than the circuit breaker allows: for any keys, bounds and number *)
(* of restarts.                                                            *)
(***************************************************************************)
EXTENDS Signer, TLAPS

(***************************************************************************)
(* KeyIsOurs alone is not inductive: a step of SetSignatoryKey needs the    *)
(* key in memory to be the one in the file.                                *)
(***************************************************************************)
KeyInv ==
    /\ pc # "load" => xpriv = file /\ file # NoKey
    /\ file \in Key \cup {NoKey}
    /\ KeyIsOurs

LEMMA KeyInit == Init => KeyInv
  BY DEF Init, KeyInv, KeyIsOurs

LEMMA KeyStep == KeyInv /\ [Next]_vars => KeyInv'
  <1> SUFFICES ASSUME KeyInv, [Next]_vars
               PROVE  KeyInv'
    OBVIOUS
  <1> USE KeyAssumption DEF KeyInv, KeyIsOurs, Goto
  <1>1. CASE LoadOrGenerate
    <2>1. file' \in Key /\ xpriv' = file' /\ (file # NoKey => file' = file)
      BY <1>1 DEF LoadOrGenerate
    <2>2. registered' = registered
      BY <1>1 DEF LoadOrGenerate, others
    <2> QED BY <2>1, <2>2
  <1>2. CASE SetSignatoryKey
    <2>1. /\ pc = "register" /\ registered' = xpriv /\ pc' = "idle"
          /\ file' = file /\ xpriv' = xpriv
      BY <1>2 DEF SetSignatoryKey, files, locals
    <2> QED BY <2>1
  <1>3. CASE Crash
    <2>1. pc' = "load" /\ file' = file /\ registered' = registered
      BY <1>3 DEF Crash, files, others
    <2> QED BY <2>1
  \* No other step changes a key, or leads back to "load".
  <1>4. CASE /\ <<file, registered, xpriv>>' = <<file, registered, xpriv>>
             /\ pc = "load" => pc' = "load"
    BY <1>4
  <1>5. CASE QuerySignatoryKey \/ ReadHeight \/ ReadBuildingIndex \/ ReadCheckpoint
    BY <1>4, <1>5 DEF QuerySignatoryKey, ReadHeight, ReadBuildingIndex, ReadCheckpoint,
                      files, others, locals
  <1>6. CASE CheckChangeRate \/ ReadSigningTxs \/ ReadCurrentHeight \/ CircuitBreaker
    BY <1>4, <1>6 DEF CheckChangeRate, ReadSigningTxs, ReadCurrentHeight,
                      CircuitBreaker, files, others, locals
  <1>7. CASE SubmitSignature \/ LoopFails
    BY <1>4, <1>7 DEF SubmitSignature, LoopFails, files, others, locals
  <1>8. CASE SaveState \/ CopyState
    BY <1>4, <1>8 DEF SaveState, CopyState, files, others, locals
  <1>9. CASE AdvanceCheckpoint \/ OthersSign \/ NewHeader
    BY <1>4, <1>9 DEF AdvanceCheckpoint, OthersSign, NewHeader, files, others, locals
  <1>10. CASE UNCHANGED vars
    BY <1>4, <1>10 DEF vars, files, others, locals
  <1> QED
    BY <1>1, <1>2, <1>3, <1>5, <1>6, <1>7, <1>8, <1>9, <1>10 DEF Next, Step

\* Every signature that the contract takes from this signer is under the key in
\* its file, through any number of restarts.
THEOREM RegisteredKeyIsOurs == Spec => []KeyIsOurs
  <1>1. KeyInv => KeyIsOurs
    BY DEF KeyInv
  <1> QED
    BY KeyInit, KeyStep, <1>1, PTL DEF Spec

--------------------------------------------------------------------------------
(* Types *)

LEMMA TypeInit == Init => TypeOK
<1> SUFFICES ASSUME Init
             PROVE  TypeOK
  OBVIOUS
<1>1. 0 \in Index /\ 0 \in 0..(MaxIndex + 1)
  BY BoundAssumption DEF Index
<1>2. Nothing \in Snapshot
  BY DEF Nothing, Snapshot
<1> QED BY <1>1, <1>2 DEF Init, TypeOK, PCs

\* The previous checkpoint is one the contract has moved on from.
LEMMA TypeStep == TypeOK /\ [Next]_vars => TypeOK'
<1> SUFFICES ASSUME TypeOK, [Next]_vars
             PROVE  TypeOK'
  OBVIOUS
<1> USE DEF TypeOK, Goto, contract, others, files, crawler, locals, bounds
<1>1. CASE LoadOrGenerate
  <2>1. xpriv' \in Key \cup {NoKey} /\ file' = xpriv' /\ pc' = "query"
    BY <1>1 DEF LoadOrGenerate
  <2> QED BY <1>1, <2>1 DEF LoadOrGenerate, PCs
<1>2. CASE QuerySignatoryKey \/ SetSignatoryKey
  BY <1>2 DEF QuerySignatoryKey, SetSignatoryKey, PCs
<1>3. CASE SaveState
  <2>1. signing => building - 1 \in Index
    BY BoundAssumption DEF Index
  <2>2. pending' \in Snapshot
    BY <1>3, <2>1 DEF SaveState, Snapshot
  <2> QED BY <1>3, <2>2 DEF SaveState
<1>4. CASE CopyState
  BY <1>4 DEF CopyState
<1>5. CASE ReadHeight
  BY <1>5 DEF ReadHeight, PCs
<1>6. CASE ReadBuildingIndex
  <2>1. building # 0 => building - 1 \in Index
    BY BoundAssumption DEF Index
  <2> QED BY <1>6, <2>1 DEF ReadBuildingIndex, PCs
<1>7. CASE ReadCheckpoint \/ CheckChangeRate \/ ReadSigningTxs
  BY <1>7 DEF ReadCheckpoint, CheckChangeRate, ReadSigningTxs, PCs
<1>8. CASE ReadCurrentHeight \/ CircuitBreaker
  BY <1>8 DEF ReadCurrentHeight, CircuitBreaker, PCs
<1>9. CASE SubmitSignature
  BY <1>9 DEF SubmitSignature, PCs
<1>10. CASE LoopFails
  BY <1>10, BoundAssumption DEF LoopFails, PCs
<1>11. CASE Crash
  <2>1. 0 \in Index /\ crashes' \in Nat
    BY <1>11, BoundAssumption DEF Crash, Index
  <2>2. pc' \in PCs /\ xpriv' \in Key \cup {NoKey} /\ UNCHANGED <<contract, others, files, faults>>
    BY <1>11 DEF Crash, PCs
  <2>3. initialized' \in BOOLEAN /\ crawl' \in {"save", "copy"}
    BY <1>11 DEF Crash
  <2>4. btcHeight' \in Nat /\ previousIndex' \in Index /\ currentHeight' \in Nat
    BY <1>11, <2>1 DEF Crash
  <2> QED BY <2>1, <2>2, <2>3, <2>4
<1>12. CASE AdvanceCheckpoint
  <2>1. building' \in 0..(MaxIndex + 1) /\ building' > 0 /\ building \in Index
    BY <1>12, BoundAssumption DEF AdvanceCheckpoint, Index
  <2> QED BY <1>12, <2>1 DEF AdvanceCheckpoint
<1>13. CASE OthersSign
  BY <1>13 DEF OthersSign
<1>14. CASE NewHeader
  BY <1>14 DEF NewHeader
<1>15. CASE UNCHANGED vars
  BY <1>15 DEF vars
<1> QED
  BY <1>1, <1>2, <1>3, <1>4, <1>5, <1>6, <1>7, <1>8, <1>9, <1>10, <1>11, <1>12, <1>13, <1>14, <1>15
  DEF Next, Step

\* Type correctness of the signer for every instance.
THEOREM TypeCorrect == Spec => []TypeOK
<1> QED BY TypeInit, TypeStep, PTL DEF Spec

--------------------------------------------------------------------------------
(* The circuit breaker *)

\* The checkpoints before the one being signed have been signed: at a height
\* that is never written again.
SignedInOrder ==
    \A i \in Index : signedAt[i] # None <=> (i < building /\ ~(signing /\ i = building - 1))

\* The locals lag behind the contracts.
ReadsLag ==
    /\ previousIndex <= building /\ currentHeight <= height
    /\ pc \notin {"load", "query", "register", "idle", "building"} => previousIndex < building

\* Past the breaker, the height was read MinBlocks after the checkpoint before
\* was signed.
BreakerPassed ==
    pc = "submit" /\ previousIndex > 0 =>
        /\ signedAt[previousIndex - 1] # None
        /\ currentHeight >= signedAt[previousIndex - 1] + MinBlocks

BreakerInv == TypeOK /\ SignedInOrder /\ ReadsLag /\ BreakerPassed

LEMMA BreakerInit == Init => BreakerInv
<1> SUFFICES ASSUME Init
             PROVE  BreakerInv
  OBVIOUS
<1>1. SignedInOrder
  BY BoundAssumption DEF Init, SignedInOrder, Index
<1>2. ReadsLag /\ BreakerPassed
  BY DEF Init, ReadsLag, BreakerPassed
<1> QED BY <1>1, <1>2, TypeInit DEF BreakerInv

\* The checkpoint before the previous one.
LEMMA BeforePrevious ==
    ASSUME TypeOK, previousIndex > 0
    PROVE  previousIndex - 1 \in Index /\ signedAt[previousIndex - 1] \in Nat \cup {None}
<1>1. previousIndex - 1 \in Index
  BY BoundAssumption DEF TypeOK, Index
<1> QED BY <1>1 DEF TypeOK

\* What a step of the loop or of the crawler that signs nothing leaves alone.
LEMMA SameContracts ==
    ASSUME BreakerInv, TypeOK', UNCHANGED <<contract, height>>,
           \/ UNCHANGED <<pc, previousIndex, currentHeight>>
           \/ ReadsLag' /\ pc' # "submit"
    PROVE  BreakerInv'
BY DEF BreakerInv, SignedInOrder, ReadsLag, BreakerPassed, contract, TypeOK

LEMMA BreakerStep == BreakerInv /\ [Next]_vars => BreakerInv'
<1> SUFFICES ASSUME BreakerInv, [Next]_vars
             PROVE  BreakerInv'
  OBVIOUS
<1>1. TypeOK /\ SignedInOrder /\ ReadsLag /\ BreakerPassed
  BY DEF BreakerInv
<1>2. TypeOK'
  BY <1>1, TypeStep
<1> USE <1>1, <1>2, SameContracts DEF Goto, locals
<1>3. CASE LoadOrGenerate \/ QuerySignatoryKey \/ SetSignatoryKey
  BY <1>3 DEF LoadOrGenerate, QuerySignatoryKey, SetSignatoryKey, others, ReadsLag, contract
<1>4. CASE SaveState \/ CopyState
  BY <1>4 DEF SaveState, CopyState, others, locals
<1>5. CASE ReadHeight \/ ReadBuildingIndex
  BY <1>5 DEF ReadHeight, ReadBuildingIndex, others, ReadsLag, contract, TypeOK, Index
<1>6. CASE ReadCheckpoint \/ CheckChangeRate \/ ReadSigningTxs
  BY <1>6 DEF ReadCheckpoint, CheckChangeRate, ReadSigningTxs, others, ReadsLag, contract, TypeOK
<1>7. CASE ReadCurrentHeight
  BY <1>7 DEF ReadCurrentHeight, others, ReadsLag, contract, TypeOK
<1>8. CASE CircuitBreaker
  <2>1. UNCHANGED <<contract, height, previousIndex, currentHeight, building, signing, signedAt>> /\ pc' \in {"idle", "submit"}
    BY <1>8 DEF CircuitBreaker, others, contract
  <2>2. previousIndex \in Index /\ previousIndex < building /\ building \in Nat
    BY <1>8 DEF CircuitBreaker, ReadsLag, TypeOK
  <2>3. BreakerPassed'
    <3> SUFFICES ASSUME pc' = "submit", previousIndex > 0
                 PROVE  /\ signedAt[previousIndex - 1] # None
                        /\ currentHeight >= signedAt[previousIndex - 1] + MinBlocks
      BY <2>1 DEF BreakerPassed
    <3>1. signedAt[previousIndex - 1] # None /\ signedAt[previousIndex - 1] \in Nat
      <4>1. previousIndex - 1 \in Index /\ signedAt[previousIndex - 1] \in Nat \cup {None}
        BY BeforePrevious
      <4>2. previousIndex - 1 < building /\ previousIndex - 1 # building - 1
        BY <2>2, BoundAssumption DEF Index
      <4> QED BY <4>1, <4>2 DEF SignedInOrder
    <3>2. ~TooRecent(signedAt[previousIndex - 1])
      BY <1>8, <3>1 DEF CircuitBreaker
    <3> QED BY <3>1, <3>2, MinBlocksAssumption DEF TooRecent, TypeOK
  <2> QED BY <2>1, <2>2, <2>3 DEF BreakerInv, ReadsLag, SignedInOrder
<1>9. CASE SubmitSignature
  <2>1. UNCHANGED <<building, height, previousIndex, currentHeight>> /\ pc' = "idle" /\ pc = "submit"
    BY <1>9 DEF SubmitSignature, others
  <2>2. SignedInOrder'
    <3>1. CASE UNCHANGED <<signing, signedAt>>
      BY <3>1, <2>1 DEF SignedInOrder
    <3>2. CASE Accepts /\ signing' = FALSE /\ signedAt' = [signedAt EXCEPT ![previousIndex] = btcHeight]
      BY <3>2, <2>1 DEF SignedInOrder, Accepts, TypeOK, None, Index
    <3> QED BY <1>9, <3>1, <3>2 DEF SubmitSignature
  <2> QED BY <2>1, <2>2 DEF BreakerInv, ReadsLag, BreakerPassed
<1>10. CASE LoopFails
  BY <1>10 DEF LoopFails, others, ReadsLag, contract
<1>11. CASE Crash
  BY <1>11 DEF Crash, others, ReadsLag, contract, TypeOK
<1>12. CASE AdvanceCheckpoint
  <2>1. UNCHANGED <<height, signedAt, pc, previousIndex, currentHeight>> /\ building' = building + 1 /\ signing' /\ ~signing
    BY <1>12 DEF AdvanceCheckpoint, others
  <2>2. SignedInOrder'
    BY <2>1 DEF SignedInOrder, TypeOK, Index
  <2>3. ReadsLag' /\ BreakerPassed'
    BY <2>1 DEF ReadsLag, BreakerPassed, TypeOK, Index
  <2> QED BY <2>2, <2>3 DEF BreakerInv
<1>13. CASE OthersSign
  <2>1. /\ UNCHANGED <<height, building, pc, previousIndex, currentHeight>>
        /\ signing /\ ~signing' /\ signedAt' = [signedAt EXCEPT ![building - 1] = height]
    BY <1>13 DEF OthersSign, others
  <2>2. SignedInOrder'
    BY <2>1 DEF SignedInOrder, TypeOK, Index, None
  <2>3. ReadsLag'
    BY <2>1 DEF ReadsLag
  <2>4. BreakerPassed'
    <3> SUFFICES ASSUME pc = "submit", previousIndex > 0
                 PROVE  /\ signedAt'[previousIndex - 1] # None
                        /\ currentHeight >= signedAt'[previousIndex - 1] + MinBlocks
      BY <2>1 DEF BreakerPassed
    <3>1. previousIndex - 1 \in Index /\ previousIndex - 1 # building - 1
      <4>1. previousIndex < building /\ previousIndex \in Int /\ building \in Int
        BY BoundAssumption DEF ReadsLag, TypeOK, Index
      <4> QED BY <4>1, BeforePrevious
    <3> QED BY <2>1, <3>1 DEF BreakerPassed, TypeOK
  <2> QED BY <2>2, <2>3, <2>4 DEF BreakerInv
<1>14. CASE NewHeader
  <2>1. height <= height' /\ UNCHANGED <<contract, pc, previousIndex, currentHeight>>
    BY <1>14 DEF NewHeader, TypeOK
  <2> QED BY <2>1 DEF BreakerInv, SignedInOrder, ReadsLag, BreakerPassed, contract, TypeOK
<1>15. CASE UNCHANGED vars
  BY <1>15 DEF vars, others, locals
<1> QED
  BY <1>3, <1>4, <1>5, <1>6, <1>7, <1>8, <1>9, <1>10, <1>11, <1>12, <1>13, <1>14, <1>15
  DEF Next, Step

\* No signature goes out within MinBlocks blocks of the height at which the
\* checkpoint before was signed: CircuitBreakerHolds, for any number of
\* checkpoints and any interleaving of the reads with the other signers.
THEOREM BreakerHolds == Spec => CircuitBreakerHolds
<1>1. BreakerInv /\ [Next]_vars =>
        [\A i \in (sigs' \ sigs) \ {0} :
            height >= signedAt[i - 1] + MinBlocks /\ signedAt[i - 1] # None]_vars
  <2> SUFFICES ASSUME BreakerInv, [Next]_vars, NEW i \in (sigs' \ sigs) \ {0}
               PROVE  height >= signedAt[i - 1] + MinBlocks /\ signedAt[i - 1] # None
    OBVIOUS
  <2>1. SubmitSignature
    BY DEF vars, contract, Next, Step, LoadOrGenerate, QuerySignatoryKey, SetSignatoryKey, SaveState, CopyState,
       ReadHeight, ReadBuildingIndex, ReadCheckpoint, CheckChangeRate, ReadSigningTxs, ReadCurrentHeight,
       CircuitBreaker, LoopFails, Crash, AdvanceCheckpoint, OthersSign, NewHeader
  <2>2. i = previousIndex /\ pc = "submit"
    BY <2>1 DEF SubmitSignature
  <2>3. previousIndex > 0 /\ previousIndex \in Index /\ currentHeight <= height /\ currentHeight \in Nat /\ height \in Nat
    BY <2>2 DEF BreakerInv, TypeOK, ReadsLag, Index
  <2>4. signedAt[i - 1] \in Nat \cup {None}
    BY <2>2, <2>3, BeforePrevious DEF BreakerInv
  <2>5. signedAt[i - 1] # None /\ currentHeight >= signedAt[i - 1] + MinBlocks
    BY <2>2, <2>3 DEF BreakerInv, BreakerPassed
  <2> QED BY <2>3, <2>4, <2>5, MinBlocksAssumption
<1> QED BY <1>1, BreakerInit, BreakerStep, PTL DEF Spec, CircuitBreakerHolds

================================================================================
