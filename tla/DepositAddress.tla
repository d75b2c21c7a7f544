---------------------------- MODULE DepositAddress ----------------------------
(***************************************************************************)
(* How a wallet gets a deposit address (lib-js: generateDepositAddress,    *)
(* consensusReq, getDepositAddress, broadcast) from a set of relayers      *)
(* (services/relayer: submitDepositAddress).  Two rounds of requests, each *)
(* won by the first answer that enough relayers give: the building         *)
(* checkpoint, and then the address of its signatory set, which a relayer  *)
(* answers once it watches the address.  The contract moves on between any *)
(* two requests, and a request that timed out may still reach its relayer. *)
(***************************************************************************)
EXTENDS Integers, FiniteSets

CONSTANTS
    Relayer,      \* opts.relayers
    NoAnswer,     \* a relayer has not answered in this round
    Failed,       \* its request was rejected or timed out
    ErrorText,    \* it answered the first round with the text of an error
    MaxSigset,    \* bound: the last signatory set
    MaxConfig,    \* bound: changes of the checkpoint configuration
    MaxDetail     \* bound: other changes of the building checkpoint

ASSUME RelayerAssumption == IsFiniteSet(Relayer) /\ Relayer # {}
ASSUME BoundAssumption == MaxSigset \in Nat /\ MaxConfig \in Nat /\ MaxDetail \in Nat

VARIABLES
    \* the app contract
    checkpoint,  \* the building checkpoint
    config,      \* the checkpoint configuration, by its version
    closed,      \* signatory sets too old for new deposits
    \* the relayers
    watched,     \* watched[r]: the addresses relayer r watches
    \* the wallet
    phase,       \* the round it is in: checkpoint, address; done
    sigset,      \* signatory set of the checkpoint agreed on
    call,        \* call[r]: how far getDepositAddress has come at relayer r
    addr,        \* addr[r]: the address computed from r's configuration
    answer,      \* answer[r]: what r answered in this round
    outcome,     \* the result's kind: pending, address, capacity, failed
    result       \* bitcoinAddress of the result

contract == <<checkpoint, config, closed>>
calls    == <<call, addr>>
wallet   == <<phase, sigset, calls, answer, outcome, result>>
vars     == <<contract, watched, wallet>>

--------------------------------------------------------------------------------
Sigset == 0..MaxSigset

Checkpoint == [sigset : Sigset, enabled : BOOLEAN, detail : 0..MaxDetail]
Address    == [sigset : Sigset, config : 0..MaxConfig]

ASSUME AnswerAssumption ==
    /\ NoAnswer # Failed /\ NoAnswer # ErrorText /\ Failed # ErrorText
    /\ {NoAnswer, Failed, ErrorText} \cap (Checkpoint \cup Address) = {}

Answers(round) ==
    {NoAnswer, Failed}
        \cup (IF round = "checkpoint" THEN Checkpoint \cup {ErrorText} ELSE Address)

NoAddress == NoAnswer

\* call[r]: nothing asked; configuration asked; address broadcast to r; taken
\* or refused by r.
Calls == {"none", "config", "submit", "accepted", "refused"}

TypeOK ==
    /\ checkpoint \in Checkpoint
    /\ config \in 0..MaxConfig
    /\ closed \subseteq Sigset
    /\ watched \in [Relayer -> SUBSET Address]
    /\ phase \in {"checkpoint", "address", "done"}
    /\ sigset \in Sigset
    /\ call \in [Relayer -> Calls]
    /\ addr \in [Relayer -> Address \cup {NoAddress}]
    /\ phase # "done" => answer \in [Relayer -> Answers(phase)]
    /\ outcome \in {"pending", "address", "capacity", "failed"}
    /\ result \in Address \cup {NoAddress}

Init ==
    /\ checkpoint = [sigset |-> 0, enabled |-> TRUE, detail |-> 0]
    /\ config = 0
    /\ closed = {}
    /\ watched = [r \in Relayer |-> {}]
    /\ phase = "checkpoint"
    /\ sigset = 0
    /\ call = [r \in Relayer |-> "none"]
    /\ addr = [r \in Relayer |-> NoAddress]
    /\ answer = [r \in Relayer |-> NoAnswer]
    /\ outcome = "pending"
    /\ result = NoAddress

--------------------------------------------------------------------------------
(* consensusReq *)

N == Cardinality(Relayer)

\* Math.round(N * 2 / 3), the default.
SuccessThresholdCount == (4 * N + 3) \div 6

\* responses[a]
Votes(a) == {r \in Relayer : answer[r] = a}

\* The answer a wins when one more relayer gives it.
Wins(a) == Cardinality(Votes(a)) + 1 >= SuccessThresholdCount

Waiting(r) == answer[r] = NoAnswer

Fails ==
    /\ phase' = "done"
    /\ outcome' = "failed"

\* Only rejections and timeouts are counted, and only when every relayer's
\* request has failed does the round fail.
RequestFails(r) ==
    /\ phase \in {"checkpoint", "address"}
    /\ Waiting(r)
    /\ answer' = [answer EXCEPT ![r] = Failed]
    /\ IF \A q \in Relayer \ {r} : answer[q] = Failed
         THEN Fails
         ELSE UNCHANGED <<phase, outcome>>
    /\ UNCHANGED <<contract, watched, sigset, calls, result>>

--------------------------------------------------------------------------------
(* generateDepositAddress *)

\* A mutant of StartAddressRound: the responses of the first round are kept.
StartAddressRoundKept(c) ==
    /\ phase' = "address"
    /\ sigset' = c.sigset
    /\ call' = [r \in Relayer |-> "config"]
    /\ UNCHANGED <<answer, outcome>>

StartAddressRound(c) ==
    /\ phase' = "address"
    /\ sigset' = c.sigset
    /\ call' = [r \in Relayer |-> "config"]
    /\ answer' = [r \in Relayer |-> NoAnswer]
    /\ UNCHANGED outcome

\* The checkpoint the round agreed on: an error's text has no checkpoint, and
\* a checkpoint at capacity no deposits.
Agreed(c) ==
    \/ c = ErrorText /\ Fails /\ UNCHANGED <<sigset, call, answer>>
    \/ /\ c # ErrorText /\ ~c.enabled
       /\ phase' = "done"
       /\ outcome' = "capacity"
       /\ UNCHANGED <<sigset, call, answer>>
    \/ c # ErrorText /\ c.enabled /\ StartAddressRound(c)

\* getCheckpoint, whose answer is a text, whatever its status.
AnswerCheckpoint(r) ==
    /\ phase = "checkpoint"
    /\ Waiting(r)
    /\ \E c \in {checkpoint, ErrorText} :
          \/ Wins(c) /\ Agreed(c)
          \/ /\ ~Wins(c)
             /\ answer' = [answer EXCEPT ![r] = c]
             /\ UNCHANGED <<phase, sigset, call, outcome>>
    /\ UNCHANGED <<contract, watched, addr, result>>

\* getDepositAddress: the address is computed from the relayer's configuration.
FetchConfig(r) ==
    /\ call[r] = "config"
    /\ addr' = [addr EXCEPT ![r] = [sigset |-> sigset, config |-> config]]
    /\ call' = [call EXCEPT ![r] = "submit"]
    /\ UNCHANGED <<contract, watched, phase, sigset, answer, outcome, result>>

\* The signatory set that an index names to submitDepositAddress: 0 is falsy,
\* and stands for the building checkpoint.
SigsetOf(index) == IF index # 0 THEN index ELSE checkpoint.sigset

\* The relayer computes the address again, from the contract as it is now.
Accepts(a) ==
    /\ a = [sigset |-> SigsetOf(a.sigset), config |-> config]
    /\ a.sigset \notin closed

\* A mutant of Submit: a refusal (res.ok is false) passes for an acceptance.
SubmitUnchecked(r) ==
    /\ call[r] = "submit"
    /\ call' = [call EXCEPT ![r] = "accepted"]
    /\ watched' = [watched EXCEPT ![r] =
                     IF Accepts(addr[r]) THEN @ \cup {addr[r]} ELSE @]
    /\ UNCHANGED <<contract, phase, sigset, addr, answer, outcome, result>>

\* broadcast and submitDepositAddress, also when the wallet has given up
\* waiting: a relayer that accepts watches the address.
Submit(r) ==
    /\ call[r] = "submit"
    /\ \/ /\ Accepts(addr[r])
          /\ watched' = [watched EXCEPT ![r] = @ \cup {addr[r]}]
          /\ call' = [call EXCEPT ![r] = "accepted"]
       \/ /\ ~Accepts(addr[r])
          /\ call' = [call EXCEPT ![r] = "refused"]
          /\ UNCHANGED watched
    /\ UNCHANGED <<contract, phase, sigset, addr, answer, outcome, result>>

AnswerAddress(r) ==
    /\ phase = "address"
    /\ Waiting(r)
    /\ call[r] = "accepted"
    /\ answer' = [answer EXCEPT ![r] = addr[r]]
    /\ IF Wins(addr[r])
         THEN phase' = "done" /\ outcome' = "address" /\ result' = addr[r]
         ELSE UNCHANGED <<phase, outcome, result>>
    /\ UNCHANGED <<contract, watched, sigset, calls>>

--------------------------------------------------------------------------------
(* The app contract (external) *)

\* A new building checkpoint, with a signatory set and a capacity of its own.
NewCheckpoint ==
    /\ checkpoint.sigset < MaxSigset
    /\ checkpoint' = [sigset |-> checkpoint.sigset + 1, enabled |-> TRUE, detail |-> 0]
    /\ UNCHANGED <<config, closed, watched, wallet>>

\* The building checkpoint changes in some other way; deposits may stop.
ChangeCheckpoint ==
    /\ checkpoint.detail < MaxDetail
    /\ \E e \in BOOLEAN :
          checkpoint' = [checkpoint EXCEPT !.detail = @ + 1, !.enabled = e]
    /\ UNCHANGED <<config, closed, watched, wallet>>

ChangeConfig ==
    /\ config < MaxConfig
    /\ config' = config + 1
    /\ UNCHANGED <<checkpoint, closed, watched, wallet>>

\* A signatory set comes to within the deposit buffer of its last deposits.
Close(s) ==
    /\ s \notin closed /\ s <= checkpoint.sigset
    /\ closed' = closed \cup {s}
    /\ UNCHANGED <<checkpoint, config, watched, wallet>>

--------------------------------------------------------------------------------
Request(r) ==
    \/ AnswerCheckpoint(r) \/ RequestFails(r)
    \/ FetchConfig(r) \/ Submit(r) \/ AnswerAddress(r)

ContractStep ==
    \/ NewCheckpoint \/ ChangeCheckpoint \/ ChangeConfig
    \/ \E s \in Sigset : Close(s)

Next == (\E r \in Relayer : Request(r)) \/ ContractStep

Spec == Init /\ [][Next]_vars

\* Every request is answered, fails or times out.
FairSpec == Spec /\ \A r \in Relayer : WF_vars(Request(r))

--------------------------------------------------------------------------------
(* Properties *)

\* A wallet shows an address (lib-js 79-82) only when as many relayers as the
\* threshold asks for watch that very address: whatever the contract changed
\* between the rounds, whichever requests timed out and whenever they arrived.
AddressIsWatched ==
    outcome = "address" =>
        Cardinality({r \in Relayer : result \in watched[r]}) >= SuccessThresholdCount

\* What consensusReq means to do when no answer can win, "Failed to get
\* consensus response from relayer set" (lib-js 248): the wallet gets a result
\* once every request has been answered, has failed or has timed out.
WalletGetsAResult == <>(phase = "done")
================================================================================
