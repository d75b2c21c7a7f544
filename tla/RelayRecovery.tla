----------------------------- MODULE RelayRecovery -----------------------------
(***************************************************************************)
(* relayRecoveryDeposits of services/relayer: the transactions with which  *)
(* the signers recover late deposits are broadcast in the order in which   *)
(* the app contract lists them.  Unlike relayCheckpoints it has one try    *)
(* around the whole list, so that the first transaction the node refuses   *)
(* ends the pass.                                                          *)
(***************************************************************************)
EXTENDS Integers

CONSTANTS
    MaxTx,       \* bound: recovery transactions
    MaxFaults    \* bound: requests that fail, restarts of the process,
                 \* reorganisations, evictions and transactions that another
                 \* relayer sends

ASSUME BoundAssumption == MaxTx \in Nat /\ MaxFaults \in Nat

VARIABLES
    signed,   \* the contract lists the transactions 1..signed
    mempool,  \* transactions in the node's mempool
    mined,    \* transactions in the node's chain
    seen,     \* history: transactions that the node has taken
    sent,     \* the keys relay-recovery-deposits-t, which outlive a crash
    pc,       \* the await the loop is at: list, send, mark
    last,     \* the loop is over the transactions 1..last ...
    t,        \* ... and has come to this one
    faults    \* failed requests and the like so far

node   == <<mempool, mined, seen>>
locals == <<pc, last, t>>
vars   == <<signed, node, sent, locals, faults>>

Tx == 1..MaxTx

TypeOK ==
    /\ signed \in 0..MaxTx
    /\ mempool \subseteq Tx /\ mined \subseteq Tx /\ seen \subseteq Tx /\ sent \subseteq Tx
    /\ pc \in {"list", "send", "mark"}
    /\ last \in 0..MaxTx
    /\ t \in 1..(last + 1)
    /\ faults \in 0..MaxFaults

Init ==
    /\ signed = 0
    /\ mempool = {} /\ mined = {} /\ seen = {} /\ sent = {}
    /\ pc = "list" /\ last = 0 /\ t = 1
    /\ faults = 0

Fault == faults < MaxFaults /\ faults' = faults + 1

--------------------------------------------------------------------------------
(* relayRecoveryDeposits *)

Return == pc' = "list" /\ last' = 0 /\ t' = 1

ListTxs ==
    /\ pc = "list"
    /\ last' = signed
    /\ t' = 1
    /\ pc' = "send"
    /\ UNCHANGED <<signed, node, sent, faults>>

\* A transaction with a key is passed over.
Skip ==
    /\ pc = "send" /\ t <= last
    /\ t \in sent
    /\ t' = t + 1
    /\ UNCHANGED <<signed, node, sent, pc, last, faults>>

\* The node (external) takes a transaction that is not yet in its chain.
Taken(u) ==
    /\ u \notin mined
    /\ mempool' = mempool \cup {u}
    /\ seen' = seen \cup {u}
    /\ UNCHANGED mined

Send ==
    /\ pc = "send" /\ t <= last
    /\ t \notin sent
    /\ Taken(t)
    /\ pc' = "mark"
    /\ UNCHANGED <<signed, sent, last, t, faults>>

\* A mutant of MarkSent: the loop goes two transactions on.
MarkSentTwoOn ==
    /\ pc = "mark"
    /\ sent' = sent \cup {t}
    /\ t' = t + 2
    /\ pc' = "send"
    /\ UNCHANGED <<signed, node, last, faults>>

MarkSent ==
    /\ pc = "mark"
    /\ sent' = sent \cup {t}
    /\ t' = t + 1
    /\ pc' = "send"
    /\ UNCHANGED <<signed, node, last, faults>>

SendDone ==
    /\ pc = "send" /\ t > last
    /\ Return
    /\ UNCHANGED <<signed, node, sent, faults>>

\* A mutant of Refused: the pass goes on after the transaction, with its key.
RefusedMarked ==
    /\ pc = "send" /\ t <= last
    /\ t \notin sent
    /\ (t \in mined /\ UNCHANGED faults) \/ Fault
    /\ sent' = sent \cup {t}
    /\ t' = t + 1
    /\ UNCHANGED <<signed, node, pc, last>>

\* sendrawtransaction throws: the node has the transaction already, or the
\* request or its answer is lost.  The rest of the list waits for the next pass.
Refused ==
    /\ pc = "send" /\ t <= last
    /\ t \notin sent
    /\ \/ t \in mempool \cup mined /\ UNCHANGED <<node, faults>>
       \/ Fault /\ UNCHANGED node
       \/ Fault /\ Taken(t)
    /\ Return
    /\ UNCHANGED <<signed, sent>>

ListFails ==
    /\ pc = "list"
    /\ Fault
    /\ UNCHANGED <<signed, node, sent, locals>>

--------------------------------------------------------------------------------
(* The process and the rest of the world *)

Crash ==
    /\ Fault
    /\ Return
    /\ UNCHANGED <<signed, node, sent>>

Sign ==
    /\ signed < MaxTx
    /\ signed' = signed + 1
    /\ UNCHANGED <<node, sent, locals, faults>>

OtherRelaySend(u) ==
    /\ Fault
    /\ u <= signed /\ u \notin mempool
    /\ Taken(u)
    /\ UNCHANGED <<signed, sent, locals>>

Mine(u) ==
    /\ u \in mempool
    /\ mempool' = mempool \ {u}
    /\ mined' = mined \cup {u}
    /\ UNCHANGED <<signed, seen, sent, locals, faults>>

\* A reorganisation: the transaction is back in the mempool.
Unmine(u) ==
    /\ Fault
    /\ u \in mined
    /\ mempool' = mempool \cup {u}
    /\ mined' = mined \ {u}
    /\ UNCHANGED <<signed, seen, sent, locals>>

\* A transaction leaves the mempool unmined.
Evict(u) ==
    /\ Fault
    /\ u \in mempool
    /\ mempool' = mempool \ {u}
    /\ UNCHANGED <<signed, mined, seen, sent, locals>>

--------------------------------------------------------------------------------
Step == ListTxs \/ Skip \/ Send \/ MarkSent \/ SendDone \/ Refused

Next ==
    \/ Step \/ ListFails \/ Crash \/ Sign
    \/ \E u \in Tx : OtherRelaySend(u) \/ Mine(u) \/ Unmine(u) \/ Evict(u)

Spec == Init /\ [][Next]_vars

--------------------------------------------------------------------------------
(* Properties *)

\* A key is inserted (relayer 594-599) only for a transaction that the node
\* has taken: not after a refusal, a lost request or a crash.
MarkedRecoveryWasSent == sent \subseteq seen

\* The node has u and the relayer no key for it: it did not see u taken.
Blocks(u) == u \in (mempool \cup mined) \ sent

\* A recovery transaction reaches the network (relayer 582-606), unless one
\* before it ends every pass from some point on: the node keeps it and the
\* relayer never has a key for it, since another relayer sent it, or a crash or
\* a lost answer came between the node's answer and the key.
RecoveryIsSentUnlessBlocked ==
    \A u \in Tx : (u <= signed) ~> (u \in seen \/ [](\E v \in 1..(u - 1) : Blocks(v)))

================================================================================
