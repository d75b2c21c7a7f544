------------------------ MODULE DepositAddress_proofs ------------------------
(***************************************************************************)
(* What holds of deposit addresses for every set of relayers: an address   *)
(* that a wallet shows is watched by as many relayers as the threshold     *)
(* asks for.                                                               *)
(***************************************************************************)
EXTENDS DepositAddress, FiniteSetTheorems, TLAPS

LEMMA RelayersFinite ==
    /\ N \in Nat
    /\ \A S \in SUBSET Relayer :
          IsFiniteSet(S) /\ Cardinality(S) \in Nat /\ Cardinality(S) <= N
<1>1. IsFiniteSet(Relayer)
  BY RelayerAssumption
<1>2. \A S \in SUBSET Relayer : IsFiniteSet(S) /\ Cardinality(S) <= Cardinality(Relayer)
  BY <1>1, FS_Subset
<1>3. QED
  BY <1>1, <1>2, FS_CardinalityType DEF N

LEMMA ThresholdType == SuccessThresholdCount \in Nat
BY RelayersFinite DEF SuccessThresholdCount

--------------------------------------------------------------------------------
(* The address that is shown *)

\* What a relayer is asked to watch is an address, one that has accepted
\* watches it, an answer of the second round is the address its relayer
\* accepted, and enough relayers gave the one that is shown.
WatchInv ==
    /\ phase = "checkpoint" => \A r \in Relayer : call[r] = "none"
    /\ \A r \in Relayer : call[r] = "submit" => addr[r] \in Address
    /\ \A r \in Relayer : call[r] = "accepted" => addr[r] \in watched[r]
    /\ phase = "address" =>
          \A r \in Relayer : answer[r] \notin {NoAnswer, Failed} =>
             call[r] = "accepted" /\ answer[r] = addr[r]
    /\ outcome = "address" => phase = "done"
    /\ AddressIsWatched

IInv == TypeOK /\ WatchInv

\* The relayers that watch an address are as many as before, or more.
LEMMA MoreWatch ==
    ASSUME TypeOK, AddressIsWatched, UNCHANGED <<outcome, result>>,
           \A r \in Relayer : watched[r] \subseteq watched'[r]
    PROVE  AddressIsWatched'
<1> DEFINE before == {r \in Relayer : result \in watched[r]}
           after  == {r \in Relayer : result \in watched'[r]}
<1>1. before \in SUBSET after /\ after \in SUBSET Relayer
  OBVIOUS
<1>2. Cardinality(before) <= Cardinality(after)
  BY <1>1, RelayersFinite, FS_Subset
<1>3. Cardinality(before) \in Nat /\ Cardinality(after) \in Nat
  BY <1>1, RelayersFinite
<1>4. QED
  BY <1>1, <1>2, <1>3, ThresholdType DEF AddressIsWatched, SuccessThresholdCount, N

LEMMA InitInv == Init => IInv
BY BoundAssumption DEF Init, IInv, TypeOK, WatchInv, AddressIsWatched, Checkpoint,
   Address, Sigset, Calls, Answers, NoAddress

LEMMA RequestFailsInv ==
    ASSUME IInv, NEW r \in Relayer, RequestFails(r)
    PROVE  IInv'
<1>1. TypeOK'
  BY DEF IInv, TypeOK, RequestFails, Fails, contract, calls, Answers
<1>2. AddressIsWatched'
  BY DEF IInv, WatchInv, TypeOK, RequestFails, Fails, AddressIsWatched, contract,
     calls, SuccessThresholdCount, N
<1>3. WatchInv'
  BY <1>2 DEF IInv, TypeOK, WatchInv, RequestFails, Fails, contract, calls
<1>4. QED
  BY <1>1, <1>3 DEF IInv

LEMMA AnswerCheckpointInv ==
    ASSUME IInv, NEW r \in Relayer, AnswerCheckpoint(r)
    PROVE  IInv'
<1> PICK c \in {checkpoint, ErrorText} :
          \/ Wins(c) /\ Agreed(c)
          \/ /\ ~Wins(c)
             /\ answer' = [answer EXCEPT ![r] = c]
             /\ UNCHANGED <<phase, sigset, call, outcome>>
  BY DEF AnswerCheckpoint
<1>1. /\ phase = "checkpoint" /\ outcome # "address"
      /\ UNCHANGED <<contract, watched, addr, result>>
  BY DEF IInv, WatchInv, AnswerCheckpoint
<1>2. AddressIsWatched'
  BY <1>1 DEF Agreed, Fails, StartAddressRound, AddressIsWatched
<1>3. CASE Agreed(c) /\ c # ErrorText /\ c.enabled
  <2>1. c \in Checkpoint
    BY <1>3 DEF IInv, TypeOK
  <2>2. StartAddressRound(c)
    BY <1>3 DEF Agreed, Fails
  <2> QED
    BY <1>1, <1>2, <2>1, <2>2
    DEF IInv, TypeOK, WatchInv, StartAddressRound, contract, Answers, Checkpoint, Calls
<1>4. CASE Agreed(c) /\ ~(c # ErrorText /\ c.enabled)
  <2>1. phase' = "done" /\ outcome' \in {"capacity", "failed"}
        /\ UNCHANGED <<sigset, call, answer>>
    BY <1>4 DEF Agreed, Fails
  <2> QED
    BY <1>1, <1>2, <2>1 DEF IInv, TypeOK, WatchInv, contract
<1>5. CASE /\ answer' = [answer EXCEPT ![r] = c]
           /\ UNCHANGED <<phase, sigset, call, outcome>>
  BY <1>1, <1>2, <1>5 DEF IInv, TypeOK, WatchInv, contract, Answers
<1>6. QED
  BY <1>3, <1>4, <1>5

LEMMA FetchConfigInv ==
    ASSUME IInv, NEW r \in Relayer, FetchConfig(r)
    PROVE  IInv'
<1>1. TypeOK'
  BY DEF IInv, TypeOK, FetchConfig, contract, Address, Calls
<1>2. AddressIsWatched'
  BY MoreWatch DEF IInv, WatchInv, FetchConfig
<1>3. addr'[r] \in Address /\ \A q \in Relayer \ {r} : addr'[q] = addr[q] /\ call'[q] = call[q]
  BY BoundAssumption DEF IInv, TypeOK, FetchConfig, Address
<1>4. call[r] = "config" /\ call'[r] = "submit" /\ phase # "checkpoint"
  BY DEF IInv, TypeOK, WatchInv, FetchConfig
<1>5. WatchInv'
  BY <1>2, <1>3, <1>4 DEF IInv, TypeOK, WatchInv, FetchConfig
<1>6. QED
  BY <1>1, <1>5 DEF IInv

LEMMA SubmitInv ==
    ASSUME IInv, NEW r \in Relayer, Submit(r)
    PROVE  IInv'
<1>1. addr[r] \in Address
  BY DEF IInv, WatchInv, Submit
<1>2. TypeOK'
  BY <1>1 DEF IInv, TypeOK, Submit, contract, Calls
<1>3. AddressIsWatched'
  BY MoreWatch DEF IInv, WatchInv, TypeOK, Submit
<1>4. WatchInv'
  BY <1>3 DEF IInv, TypeOK, WatchInv, Submit
<1>5. QED
  BY <1>2, <1>4 DEF IInv

\* The answer that wins: the relayers that gave it, and the one that gives it
\* now, all watch it.
LEMMA AnswerAddressInv ==
    ASSUME IInv, NEW r \in Relayer, AnswerAddress(r)
    PROVE  IInv'
<1>1. /\ phase = "address" /\ answer[r] = NoAnswer /\ call[r] = "accepted"
      /\ answer' = [answer EXCEPT ![r] = addr[r]]
      /\ UNCHANGED <<contract, watched, sigset, calls>>
      /\ outcome # "address"
  BY DEF AnswerAddress, Waiting, IInv, WatchInv
<1>2. TypeOK /\ WatchInv
  BY DEF IInv
<1>3. CASE Wins(addr[r])
  <2>1. phase' = "done" /\ outcome' = "address" /\ result' = addr[r]
    BY <1>3 DEF AnswerAddress
  <2> DEFINE given == Votes(addr[r])
             watch == {q \in Relayer : addr[r] \in watched[q]}
  <2>2. CASE addr[r] \in Address
    <3>1. addr[r] \notin {NoAnswer, Failed}
      BY <2>2, AnswerAssumption
    <3>2. given \in SUBSET Relayer /\ watch \in SUBSET Relayer /\ r \notin given
      BY <1>1, <3>1 DEF Votes
    <3>3. given \cup {r} \in SUBSET watch
      BY <1>1, <1>2, <3>1 DEF WatchInv, Votes
    <3>4. Cardinality(given \cup {r}) = Cardinality(given) + 1
      BY <3>2, RelayersFinite, FS_AddElement
    <3>5. Cardinality(given \cup {r}) <= Cardinality(watch)
      BY <3>2, <3>3, RelayersFinite, FS_Subset
    <3>6. Cardinality(watch) >= SuccessThresholdCount
      <4>1. Cardinality(given) + 1 >= SuccessThresholdCount
        BY <1>3 DEF Wins
      <4>2. Cardinality(given) \in Nat /\ Cardinality(watch) \in Nat
        BY <3>2, RelayersFinite
      <4> QED
        BY <3>4, <3>5, <4>1, <4>2, ThresholdType
    <3>7. AddressIsWatched'
      BY <1>1, <2>1, <3>6 DEF AddressIsWatched, SuccessThresholdCount, N
    <3> QED
      BY <1>1, <1>2, <2>1, <2>2, <3>7 DEF IInv, TypeOK, WatchInv, contract, calls
  <2>3. CASE addr[r] \notin Address
    \* No relayer accepts without an address.
    <3>1. addr[r] \in watched[r]
      BY <1>1, <1>2 DEF WatchInv
    <3> QED
      BY <1>2, <2>3, <3>1 DEF TypeOK
  <2>4. QED
    BY <2>2, <2>3
<1>4. CASE ~Wins(addr[r])
  <2>1. UNCHANGED <<phase, outcome, result>>
    BY <1>4 DEF AnswerAddress
  <2>2. addr[r] \in Address
    BY <1>1, <1>2 DEF TypeOK, WatchInv
  <2>3. AddressIsWatched'
    BY <1>1, <2>1 DEF AddressIsWatched
  <2> QED
    BY <1>1, <1>2, <2>1, <2>2, <2>3
    DEF IInv, TypeOK, WatchInv, contract, calls, Answers
<1>5. QED
  BY <1>3, <1>4

LEMMA ContractStepInv ==
    ASSUME IInv, ContractStep
    PROVE  IInv'
<1>1. UNCHANGED <<watched, wallet>>
  BY DEF ContractStep, NewCheckpoint, ChangeCheckpoint, ChangeConfig, Close
<1>2. AddressIsWatched'
  BY <1>1, MoreWatch DEF IInv, WatchInv, wallet
<1>3. checkpoint' \in Checkpoint /\ config' \in 0..MaxConfig /\ closed' \subseteq Sigset
  <2>1. CASE NewCheckpoint
    BY <2>1, BoundAssumption DEF IInv, TypeOK, NewCheckpoint, Checkpoint, Sigset
  <2>2. CASE ChangeCheckpoint
    <3>1. PICK e \in BOOLEAN :
            checkpoint' = [checkpoint EXCEPT !.detail = @ + 1, !.enabled = e]
      BY <2>2 DEF ChangeCheckpoint
    <3>2. checkpoint.detail + 1 \in 0..MaxDetail
      BY <2>2, BoundAssumption DEF IInv, TypeOK, ChangeCheckpoint, Checkpoint
    <3>3. checkpoint' \in Checkpoint
      BY <3>1, <3>2 DEF IInv, TypeOK, Checkpoint
    <3> QED
      BY <2>2, <3>3 DEF IInv, TypeOK, ChangeCheckpoint
  <2>3. CASE ChangeConfig
    BY <2>3, BoundAssumption DEF IInv, TypeOK, ChangeConfig
  <2>4. CASE \E s \in Sigset : Close(s)
    BY <2>4 DEF IInv, TypeOK, Close
  <2>5. QED
    BY <2>1, <2>2, <2>3, <2>4 DEF ContractStep
<1>4. QED
  BY <1>1, <1>2, <1>3 DEF IInv, TypeOK, WatchInv, wallet, calls

LEMMA InvNext == IInv /\ [Next]_vars => IInv'
<1> SUFFICES ASSUME IInv, [Next]_vars PROVE IInv'
  OBVIOUS
<1>1. CASE \E r \in Relayer : Request(r)
  BY <1>1, RequestFailsInv, AnswerCheckpointInv, FetchConfigInv, SubmitInv,
     AnswerAddressInv DEF Request
<1>2. CASE ContractStep
  BY <1>2, ContractStepInv
<1>3. CASE UNCHANGED vars
  <2>1. AddressIsWatched'
    BY <1>3, MoreWatch DEF IInv, WatchInv, vars, wallet
  <2>2. QED
    BY <1>3, <2>1 DEF IInv, TypeOK, WatchInv, vars, contract, wallet, calls
<1>4. QED
  BY <1>1, <1>2, <1>3 DEF Next

\* An address is shown only when as many relayers as the threshold asks for
\* watch it (lib-js 79-82), however the contract moves between the requests.
THEOREM ShownAddressIsWatched == Spec => []AddressIsWatched
<1>1. IInv => AddressIsWatched
  BY DEF IInv, WatchInv
<1>2. QED
  BY <1>1, InitInv, InvNext, PTL DEF Spec

\* The two rounds of requests, and the late calls they leave behind, keep to
\* their types (lib-js 40-136).
THEOREM TypeCorrect == Spec => []TypeOK
<1>1. IInv => TypeOK
  BY DEF IInv
<1>2. QED
  BY <1>1, InitInv, InvNext, PTL DEF Spec
================================================================================
