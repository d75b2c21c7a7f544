------------------------------- MODULE AppBitcoin ------------------------------
(***************************************************************************)
(* The app contract, as far as the REST API asks it: its checkpoints have  *)
(* indexes from 0 on, the last one is being built, and each has the time   *)
(* at which its signatory set was made.  The queries are those of          *)
(* AppBitcoinQueryClient; what they read is the contract's (external).     *)
(***************************************************************************)
EXTENDS Integers, Sequences

CONSTANTS
    MaxIndex,       \* bound: index of the last checkpoint
    MaxTime,        \* bound: the clock stops here
    MaxAge,         \* max_age of the checkpoint configuration
    MaxDepositAge   \* max_deposit_age of the bitcoin configuration

ASSUME AgeAssumption ==
    /\ MaxIndex \in Nat /\ MaxTime \in Nat
    /\ MaxAge \in Nat /\ MaxDepositAge \in Nat

VARIABLES
    now,    \* the contract's time
    sigset  \* create_time of the signatory set of checkpoint i, at place i + 1

contract == <<now, sigset>>

BuildingIndex == Len(sigset) - 1

Checkpoint(i) == [index |-> i, create_time |-> sigset[i + 1]]

CheckpointByIndex(i) == Checkpoint(i)
BuildingCheckpoint   == Checkpoint(BuildingIndex)

\* The transaction stands for the index of its checkpoint.
CheckpointTx(i) == i
BuildingTx      == BuildingIndex

Tick == now < MaxTime /\ now' = now + 1 /\ UNCHANGED sigset

NewCheckpoint ==
    /\ BuildingIndex < MaxIndex
    /\ sigset' = Append(sigset, now)
    /\ UNCHANGED now

================================================================================
