---------------------------- MODULE RelayLoop_proofs ---------------------------
(***************************************************************************)
(* The relay loop: a pass over the recovery transactions never takes a     *)
(* transaction for sent that the node has not taken, and no call of the    *)
(* account is executed twice, for any number of transactions, clients,     *)
(* calls, failed requests, restarts, evictions and reorganisations.  Both  *)
(* are shown of a part, RelayRecovery and Account, and hold of the loop    *)
(* because each of its steps is a step of the part or leaves it alone.     *)
(***************************************************************************)
EXTENDS RelayLoop, TLAPS

\* Between the node's answer and the key, the loop is at a transaction of the
\* list that the node has taken.
AnswerIsKept == pc = "mark" => t \in seen /\ t <= last

IInv == TypeOK /\ MarkedRecoveryWasSent /\ AnswerIsKept

LEMMA Initially == Init => IInv
BY BoundAssumption DEF Init, IInv, TypeOK, MarkedRecoveryWasSent, AnswerIsKept

\* What the node, the contract and the rest of the world do disturbs nothing
\* that the loop remembers.
LEMMA WorldKeeps ==
    ASSUME IInv, NEW u \in Tx,
           Sign \/ OtherRelaySend(u) \/ Mine(u) \/ Unmine(u) \/ Evict(u)
    PROVE  IInv'
<1> USE BoundAssumption DEF IInv, TypeOK, MarkedRecoveryWasSent, AnswerIsKept, locals
<1>1. CASE Sign
  BY <1>1 DEF Sign, node
<1>2. CASE OtherRelaySend(u)
  BY <1>2 DEF OtherRelaySend, Taken, Fault
<1>3. CASE Mine(u)
  BY <1>3 DEF Mine
<1>4. CASE Unmine(u)
  BY <1>4 DEF Unmine, Fault
<1>5. CASE Evict(u)
  BY <1>5 DEF Evict, Fault
<1> QED BY <1>1, <1>2, <1>3, <1>4, <1>5

LEMMA Inductive == IInv /\ [Next]_vars => IInv'
<1> SUFFICES ASSUME IInv, [Next]_vars PROVE IInv'
  OBVIOUS
<1> USE BoundAssumption DEF IInv, TypeOK, MarkedRecoveryWasSent, AnswerIsKept
<1>1. CASE ListTxs
  BY <1>1 DEF ListTxs, node
<1>2. CASE Skip
  BY <1>2 DEF Skip, node
<1>3. CASE Send
  BY <1>3 DEF Send, Taken, Tx
<1>4. CASE MarkSent
  <2>1. t \in seen /\ t <= last
    BY <1>4 DEF MarkSent
  <2>2. sent' = sent \cup {t} /\ seen' = seen /\ pc' = "send"
    BY <1>4 DEF MarkSent, node
  <2>3. t' \in 1..(last + 1)
    BY <1>4, <2>1 DEF MarkSent
  <2> QED BY <1>4, <2>1, <2>2, <2>3 DEF MarkSent, node
<1>5. CASE SendDone
  BY <1>5 DEF SendDone, Return, node
<1>6. CASE Refused
  <2>1. pc' = "list" /\ last' = 0 /\ t' = 1 /\ signed' = signed /\ sent' = sent /\ t \in Tx
    BY <1>6 DEF Refused, Return, Tx
  <2>2. CASE UNCHANGED <<node, faults>>
    BY <2>1, <2>2 DEF node
  <2>3. CASE Fault /\ UNCHANGED node
    BY <2>1, <2>3 DEF Fault, node
  <2>4. CASE Fault /\ Taken(t)
    BY <2>1, <2>4 DEF Fault, Taken
  <2> QED BY <1>6, <2>2, <2>3, <2>4 DEF Refused
<1>7. CASE ListFails
  BY <1>7 DEF ListFails, Fault, node, locals
<1>8. CASE Crash
  BY <1>8 DEF Crash, Return, Fault, node
<1>9. ASSUME Sign \/ \E u \in Tx : OtherRelaySend(u) \/ Mine(u) \/ Unmine(u) \/ Evict(u)
      PROVE  IInv'
  <2>1. CASE Sign
    BY <2>1 DEF Sign, node, locals
  <2>2. CASE \E u \in Tx : OtherRelaySend(u) \/ Mine(u) \/ Unmine(u) \/ Evict(u)
    BY <2>2, WorldKeeps
  <2> QED BY <1>9, <2>1, <2>2
<1>10. CASE UNCHANGED vars
  BY <1>10 DEF vars, node, locals
<1> QED
  BY <1>1, <1>2, <1>3, <1>4, <1>5, <1>6, <1>7, <1>8, <1>9, <1>10 DEF Next, Step

\* The key relay-recovery-deposits-t is inserted (relayer 594-599) only for a
\* transaction that the node has taken, for any number of transactions and of
\* failures.
THEOREM NothingIsMarkedUnsent == Spec => []MarkedRecoveryWasSent
<1>1. Spec => []IInv
  BY Initially, Inductive, PTL DEF Spec
<1>2. IInv => MarkedRecoveryWasSent
  BY DEF IInv
<1> QED BY <1>1, <1>2, PTL

--------------------------------------------------------------------------------
(* The account: a client signs with the committed number, so that what it   *)
(* signs later never has a lower number than what a node has taken of it   *)
(* before, and a call is made again only where no node took it.            *)

\* The transaction at place n of the chain has number n - 1.
InPlace == \A n \in DOMAIN log : log[n].number = n - 1

\* No node has taken a transaction with a number beyond the committed one.
NoneAhead ==
    /\ \A tx \in known : tx.number <= A!Committed
    /\ \A c \in Clients : number[c] <= A!Committed

\* A client's transactions are numbered in the order of its calls, and there
\* is one of each call.
InOrder ==
    \A tx, u \in known :
        tx.client = u.client =>
            /\ tx.call < u.call => tx.number <= u.number
            /\ tx.call = u.call => tx = u

\* A call that is still to be broadcast comes after all that were.
StillToCome ==
    \A tx \in known :
        /\ tx.call <= calls[tx.client]
        /\ at[tx.client] \in {"sign", "broadcast"} => tx.call < calls[tx.client]
        /\ at[tx.client] = "broadcast" => tx.number <= number[tx.client]

AccountInv == A!TypeOK /\ InPlace /\ NoneAhead /\ InOrder /\ StillToCome

LEMMA CommittedInNat == A!TypeOK => A!Committed \in Nat
BY DEF A!TypeOK, A!Committed

LEMMA AccountInitially == A!Init => AccountInv
BY DEF A!Init, AccountInv, A!TypeOK, InPlace, NoneAhead, InOrder, StillToCome, A!Committed

\* A call ends, whatever the node did: nothing of the node changes.
LEMMA EndsKeeps ==
    ASSUME AccountInv, NEW c \in Clients, A!Ends(c), UNCHANGED <<calls, A!node>>
    PROVE  AccountInv'
<1> USE DEF AccountInv, A!Ends, A!Goto, A!node, A!Committed
<1>1. A!TypeOK'
  BY DEF A!TypeOK
<1>2. InPlace' /\ InOrder'
  BY DEF InPlace, InOrder
<1>3. NoneAhead'
  BY CommittedInNat DEF NoneAhead, A!TypeOK
<1>4. StillToCome'
  BY DEF StillToCome, A!TypeOK, A!Transactions
<1> QED BY <1>1, <1>2, <1>3, <1>4

\* A node takes a transaction: it is the last of its client.
LEMMA TakenKeeps ==
    ASSUME AccountInv, NEW c \in Clients, at[c] = "broadcast", A!Taken(c),
           UNCHANGED calls, at' = [at EXCEPT ![c] = at'[c]],
           at'[c] \in {"poll", "idle"},
           \/ UNCHANGED <<message, number>>
           \/ /\ message' = [message EXCEPT ![c] = A!None]
              /\ number' = [number EXCEPT ![c] = 0]
    PROVE  AccountInv'
<1> DEFINE new == A!Transaction(c)
<1>0. number' = number \/ number' = [number EXCEPT ![c] = 0]
  OBVIOUS
<1>1. new \in A!Transactions
  BY DEF AccountInv, A!TypeOK, A!Transactions, A!Transaction
<1>2. new.client = c /\ new.call = calls[c] /\ new.number = number[c]
  BY DEF A!Transaction
<1>3. known' = known \cup {new} /\ log' = log
  BY DEF A!Taken
<1>4. A!TypeOK'
  <2>1. next' \in Nat /\ known' \in SUBSET A!Transactions
    BY <1>1, <1>3 DEF AccountInv, A!TypeOK, A!Taken
  <2>2. log' \in Seq(known')
    BY <1>3 DEF AccountInv, A!TypeOK
  <2>3. at' \in [Clients -> {"idle", "sign", "broadcast", "poll"}]
    BY DEF AccountInv, A!TypeOK
  <2>4. message' \in [Clients -> A!Message \cup {A!None}]
    <3>1. message \in [Clients -> A!Message \cup {A!None}]
      BY DEF AccountInv, A!TypeOK
    <3> QED BY <3>1
  <2>5. number' \in [Clients -> Nat] /\ calls' \in [Clients -> Nat]
    BY <1>0 DEF AccountInv, A!TypeOK
  <2> QED BY <2>1, <2>2, <2>3, <2>4, <2>5 DEF A!TypeOK
<1>5. InPlace'
  BY <1>3 DEF AccountInv, InPlace
<1>6. NoneAhead'
  <2>1. A!Committed' = A!Committed /\ A!Committed \in Nat /\ number[c] <= A!Committed
    BY <1>3, CommittedInNat DEF AccountInv, NoneAhead, A!Committed
  <2>2. \A d \in Clients : number'[d] <= A!Committed'
    <3>1. number \in [Clients -> Nat] /\ \A d \in Clients : number[d] <= A!Committed
      BY DEF AccountInv, NoneAhead, A!TypeOK
    <3>2. CASE number' = number
      BY <2>1, <3>1, <3>2
    <3>3. CASE number' = [number EXCEPT ![c] = 0]
      BY <2>1, <3>1, <3>3
    <3> QED BY <1>0, <3>2, <3>3
  <2>3. \A tx \in known' : tx.number <= A!Committed'
    BY <2>1, <1>2, <1>3 DEF AccountInv, NoneAhead
  <2> QED BY <2>2, <2>3 DEF NoneAhead
<1>7. \A tx \in known : tx.client = c => tx.call < new.call /\ tx.number <= new.number
  BY <1>2 DEF AccountInv, StillToCome
<1>8. InOrder'
  <2> SUFFICES ASSUME NEW tx \in known', NEW u \in known', tx.client = u.client
               PROVE  /\ tx.call < u.call => tx.number <= u.number
                      /\ tx.call = u.call => tx = u
    BY DEF InOrder
  <2>0. \A v \in known' : v.call \in Nat /\ v.number \in Nat
    BY <1>4 DEF A!TypeOK, A!Transactions
  <2>1. CASE tx \in known /\ u \in known
    BY <2>1 DEF AccountInv, InOrder
  <2>2. CASE tx \in known /\ u = new
    BY <2>0, <2>2, <1>2, <1>7
  <2>3. CASE tx = new /\ u \in known
    BY <2>0, <2>3, <1>2, <1>7
  <2>4. CASE tx = new /\ u = new
    BY <2>0, <2>4
  <2> QED BY <2>1, <2>2, <2>3, <2>4, <1>3
<1>9. StillToCome'
  <2> SUFFICES ASSUME NEW tx \in known'
               PROVE  /\ tx.call <= calls'[tx.client]
                      /\ at'[tx.client] \in {"sign", "broadcast"} => tx.call < calls'[tx.client]
                      /\ at'[tx.client] = "broadcast" => tx.number <= number'[tx.client]
    BY DEF StillToCome
  <2>1. CASE tx = new
    BY <2>1, <1>2 DEF AccountInv, A!TypeOK
  <2>2. CASE tx \in known /\ tx.client = c
    BY <2>2 DEF AccountInv, StillToCome
  <2>3. CASE tx \in known /\ tx.client # c
    BY <2>3 DEF AccountInv, StillToCome, A!TypeOK, A!Transactions
  <2> QED BY <2>1, <2>2, <2>3, <1>3
<1> QED BY <1>4, <1>5, <1>6, <1>8, <1>9 DEF AccountInv

LEMMA CommitKeeps == AccountInv /\ A!Commit => AccountInv'
<1> SUFFICES ASSUME AccountInv, NEW tx \in known, tx.number = A!Committed,
                    log' = Append(log, tx),
                    next' = IF next > A!Committed THEN next ELSE A!Committed + 1,
                    UNCHANGED <<A!client, known>>
             PROVE  AccountInv'
  BY DEF A!Commit
<1>1. log \in Seq(known) /\ Len(log) \in Nat
  BY DEF AccountInv, A!TypeOK
<1>2. A!Committed' = A!Committed + 1 /\ A!Committed \in Nat
  BY <1>1 DEF A!Committed
<1>3. A!TypeOK'
  BY <1>1, <1>2 DEF AccountInv, A!TypeOK, A!client
<1>4. InPlace'
  <2> SUFFICES ASSUME NEW n \in DOMAIN log' PROVE log'[n].number = n - 1
    BY DEF InPlace
  <2>1. CASE n \in DOMAIN log
    BY <2>1, <1>1 DEF AccountInv, InPlace
  <2>2. CASE n = Len(log) + 1
    BY <2>2, <1>1 DEF A!Committed
  <2> QED BY <2>1, <2>2, <1>1
<1>5. NoneAhead'
  BY <1>2 DEF AccountInv, NoneAhead, A!TypeOK, A!Transactions, A!client
<1>6. InOrder' /\ StillToCome'
  BY DEF AccountInv, InOrder, StillToCome, A!client
<1> QED BY <1>3, <1>4, <1>5, <1>6 DEF AccountInv

LEMMA AccountInductive == AccountInv /\ [A!Next]_(A!account) => AccountInv'
<1> SUFFICES ASSUME AccountInv, [A!Next]_(A!account) PROVE AccountInv'
  OBVIOUS
<1>1. CASE UNCHANGED A!account
  BY <1>1 DEF A!account, A!client, A!node, AccountInv, A!TypeOK, InPlace, NoneAhead, InOrder,
     StillToCome, A!Committed
<1>2. ASSUME NEW c \in Clients, NEW m \in A!Message, A!Execute(c, m) PROVE AccountInv'
  <2>1. A!TypeOK'
    BY <1>2 DEF A!Execute, A!Goto, AccountInv, A!TypeOK, A!node
  <2>2. InPlace' /\ NoneAhead' /\ InOrder'
    BY <1>2 DEF A!Execute, AccountInv, InPlace, NoneAhead, InOrder, A!node, A!Committed
  <2>3. StillToCome'
    BY <1>2 DEF A!Execute, A!Goto, AccountInv, StillToCome, A!TypeOK, A!Transactions, A!node
  <2> QED BY <2>1, <2>2, <2>3 DEF AccountInv
<1>3. ASSUME NEW c \in Clients, A!Sign(c) PROVE AccountInv'
  <2>1. A!TypeOK'
    BY <1>3, CommittedInNat DEF A!Sign, A!Goto, AccountInv, A!TypeOK, A!node
  <2>2. InPlace' /\ InOrder'
    BY <1>3 DEF A!Sign, AccountInv, InPlace, InOrder, A!node
  <2>3. NoneAhead'
    BY <1>3, CommittedInNat DEF A!Sign, AccountInv, NoneAhead, A!TypeOK, A!node, A!Committed
  <2>4. StillToCome'
    BY <1>3, CommittedInNat DEF A!Sign, A!Goto, AccountInv, StillToCome, NoneAhead, A!TypeOK, A!Transactions, A!node
  <2> QED BY <2>1, <2>2, <2>3, <2>4 DEF AccountInv
<1>4. ASSUME NEW c \in Clients, A!Broadcast(c) PROVE AccountInv'
  <2>1. at'[c] = "poll" /\ at' = [at EXCEPT ![c] = at'[c]]
    BY <1>4 DEF A!Broadcast, A!Goto, AccountInv, A!TypeOK
  <2> QED BY <1>4, <2>1, TakenKeeps DEF A!Broadcast
<1>5. ASSUME NEW c \in Clients, A!Retry(c) PROVE AccountInv'
  <2>1. A!TypeOK'
    BY <1>5 DEF A!Retry, A!Goto, AccountInv, A!TypeOK, A!node
  <2>2. InPlace' /\ NoneAhead' /\ InOrder'
    BY <1>5 DEF A!Retry, AccountInv, InPlace, NoneAhead, InOrder, A!node, A!Committed
  <2>3. StillToCome'
    BY <1>5 DEF A!Retry, A!Mismatch, A!Goto, AccountInv, StillToCome, A!TypeOK, A!Transactions, A!node
  <2> QED BY <2>1, <2>2, <2>3 DEF AccountInv
<1>6. ASSUME NEW c \in Clients, A!Refused(c) \/ A!Included(c) \/ A!GivesUp(c) PROVE AccountInv'
  BY <1>6, EndsKeeps DEF A!Refused, A!Included, A!GivesUp
<1>7. ASSUME NEW c \in Clients, A!Fails(c) PROVE AccountInv'
  <2>1. CASE UNCHANGED A!node
    BY <1>7, <2>1, EndsKeeps DEF A!Fails
  <2>2. CASE at[c] = "broadcast" /\ A!Taken(c)
    <3>1. at'[c] = "idle" /\ at' = [at EXCEPT ![c] = at'[c]]
      BY <1>7 DEF A!Fails, A!Ends, A!Goto, AccountInv, A!TypeOK
    <3> QED BY <1>7, <2>2, <3>1, TakenKeeps DEF A!Fails, A!Ends
  <2> QED BY <1>7, <2>1, <2>2 DEF A!Fails
<1>8. CASE A!Commit
  BY <1>8, CommitKeeps
<1>9. CASE A!Forget
  BY <1>9, CommittedInNat DEF A!Forget, AccountInv, A!TypeOK, InPlace, NoneAhead, InOrder, StillToCome,
     A!client, A!Committed
<1> QED BY <1>1, <1>2, <1>3, <1>4, <1>5, <1>6, <1>7, <1>8, <1>9 DEF A!Next, A!Step

LEMMA OrderFollows == AccountInv => CallsRunOnceInOrder
<1> SUFFICES ASSUME AccountInv, NEW m \in DOMAIN log, NEW n \in DOMAIN log,
                    m < n, log[m].client = log[n].client
             PROVE  log[m].call < log[n].call
  BY DEF CallsRunOnceInOrder, A!CallsRunOnceInOrder
<1>1. log[m] \in known /\ log[n] \in known /\ m \in Nat /\ n \in Nat
  BY DEF AccountInv, A!TypeOK
<1>2. log[m].call \in Nat /\ log[n].call \in Nat
  BY <1>1 DEF AccountInv, A!TypeOK, A!Transactions
<1>3. log[m].number = m - 1 /\ log[n].number = n - 1
  BY DEF AccountInv, InPlace
<1>4. ~(log[n].call < log[m].call)
  BY <1>1, <1>3 DEF AccountInv, InOrder
<1>5. log[n].call # log[m].call
  BY <1>1, <1>3 DEF AccountInv, InOrder
<1> QED BY <1>2, <1>4, <1>5

\* A call that wrappedExecuteTransaction retries (cosmos 11-31) is executed at
\* most once, and a client's calls in the order in which it made them, for any
\* clients of the account and any number of calls.
THEOREM CallsAreExecutedOnce == A!Spec => []CallsRunOnceInOrder
<1>1. A!Spec => []AccountInv
  BY AccountInitially, AccountInductive, PTL DEF A!Spec
<1> QED BY <1>1, OrderFollows, PTL

--------------------------------------------------------------------------------
(* The loop and its parts *)

\* The pass is under way only in its part of the loop.
PassInItsPart == pc # "list" => part = "recovery"

\* A client that has no call under way has no message and no number.
IdleIsEmpty ==
    \A c \in Clients : at[c] = "idle" => message[c] = A!None /\ number[c] = 0

LoopInv == PassInItsPart /\ AccountInv /\ IdleIsEmpty

LEMMA LoopInitially == LoopInit => LoopInv
BY AccountInitially DEF LoopInit, LoopInv, PassInItsPart, IdleIsEmpty, Init, A!Init

\* A step of the account keeps idle clients empty.
LEMMA AccountKeepsIdle == AccountInv /\ IdleIsEmpty /\ [A!Next]_(A!account) => IdleIsEmpty'
<1> SUFFICES ASSUME AccountInv, IdleIsEmpty, [A!Next]_(A!account) PROVE IdleIsEmpty'
  OBVIOUS
<1> USE DEF AccountInv, A!TypeOK, IdleIsEmpty
<1>1. CASE UNCHANGED A!account
  BY <1>1 DEF A!account, A!client
<1>2. CASE A!Commit \/ A!Forget
  BY <1>2 DEF A!Commit, A!Forget, A!client
<1>3. ASSUME NEW c \in Clients, A!Step(c) \/ A!Fails(c) PROVE IdleIsEmpty'
  <2>1. CASE A!Sign(c)
    BY <2>1 DEF A!Sign, A!Goto
  <2>2. CASE A!Broadcast(c)
    BY <2>2 DEF A!Broadcast, A!Goto
  <2>3. CASE A!Retry(c)
    BY <2>3 DEF A!Retry, A!Goto, A!Mismatch
  <2>4. CASE A!Ends(c)
    BY <2>4 DEF A!Ends, A!Goto
  <2> QED BY <1>3, <2>1, <2>2, <2>3, <2>4 DEF A!Step, A!Refused, A!Included, A!GivesUp, A!Fails
<1>4. ASSUME NEW c \in Clients, NEW m \in A!Message, A!Execute(c, m)
      PROVE  IdleIsEmpty'
  BY <1>4 DEF A!Execute, A!Goto, A!node
<1> QED BY <1>1, <1>2, <1>3, <1>4 DEF A!Next

\* A restart ends the relayer's call, or finds none.
LEMMA RestartIsOfAccount == AccountInv /\ IdleIsEmpty /\ Restart => [A!Next]_(A!account)
<1> SUFFICES ASSUME AccountInv, IdleIsEmpty, Restart PROVE [A!Next]_(A!account)
  OBVIOUS
<1>0. "relayer" \in Clients
  BY DEF Clients
<1>1. A!Ends("relayer") /\ UNCHANGED <<calls, known, log, next>>
  BY DEF Restart
<1>2. CASE at["relayer"] = "idle"
  BY <1>0, <1>1, <1>2 DEF AccountInv, A!TypeOK, IdleIsEmpty, A!Ends, A!Goto, A!account, A!client, A!node
<1>3. CASE at["relayer"] # "idle"
  BY <1>0, <1>1, <1>3 DEF A!Fails, A!node, A!Next
<1> QED BY <1>2, <1>3

\* Each step of the loop is one of the account, or leaves it alone.
LEMMA StepIsOfAccount == AccountInv /\ IdleIsEmpty /\ [LoopNext]_loopVars => [A!Next]_(A!account)
<1> SUFFICES ASSUME AccountInv, IdleIsEmpty, [LoopNext]_loopVars PROVE [A!Next]_(A!account)
  OBVIOUS
<1>0. CASE UNCHANGED account
  BY <1>0 DEF account, A!account, A!client, A!node
<1>1. ASSUME NEW m \in A!Message, Call(m) PROVE A!Next
  BY <1>1 DEF Call, A!Next, Clients
<1>2. {"relay_headers", "relay_deposit", "relay_checkpoint"} \subseteq A!Message
  BY DEF A!Message, A!RelayerMessages, A!HeaderMessages
<1>3. CASE LoopStep
  BY <1>0, <1>1, <1>2, <1>3 DEF LoopStep, HeadersAgree, RelayHeaders, BestBlock, RelayDeposits,
                               Pass, PassEnds, RelayCheckpoints
<1>4. CASE Restart
  BY <1>4, RestartIsOfAccount
<1>5. CASE HeadersFail \/ NewBlock \/ World \/ UNCHANGED loopVars
  BY <1>0, <1>5 DEF HeadersFail, NewBlock, World, loopVars
<1>6. CASE Calls
  BY <1>6 DEF Calls, A!Next, Clients
<1> QED BY <1>3, <1>4, <1>5, <1>6 DEF LoopNext

\* Each step of the loop is one of the recovery pass, or leaves it alone.
LEMMA StepIsOfRecovery == PassInItsPart /\ [LoopNext]_loopVars => [Next]_vars
<1> SUFFICES ASSUME PassInItsPart, [LoopNext]_loopVars PROVE [Next]_vars
  OBVIOUS
<1>1. CASE Pass \/ PassEnds
  BY <1>1 DEF Pass, PassEnds, Next, Step
<1>2. CASE HeadersFail
  BY <1>2 DEF HeadersFail, PassInItsPart, At, recovery, ListFails, Next
<1>3. CASE Restart \/ World
  BY <1>3 DEF Restart, World, Next
<1>4. CASE UNCHANGED vars
  BY <1>4
<1>5. CASE HeadersAgree \/ RelayHeaders \/ BestBlock \/ RelayDeposits \/ RelayCheckpoints
  BY <1>4, <1>5 DEF HeadersAgree, RelayHeaders, BestBlock, RelayDeposits, RelayCheckpoints
<1>6. CASE NewBlock \/ Calls \/ UNCHANGED loopVars
  BY <1>4, <1>6 DEF NewBlock, Calls, loopVars
<1> QED BY <1>1, <1>2, <1>3, <1>5, <1>6 DEF LoopNext, LoopStep

LEMMA PassStaysInPart == PassInItsPart /\ [LoopNext]_loopVars => PassInItsPart'
<1> SUFFICES ASSUME PassInItsPart, [LoopNext]_loopVars PROVE PassInItsPart'
  OBVIOUS
<1> USE DEF PassInItsPart
<1>1. CASE Pass
  BY <1>1 DEF Pass, At, loop
<1>2. CASE PassEnds
  BY <1>2 DEF PassEnds, SendDone, Refused, ListFails, Return, locals
<1>3. CASE HeadersFail
  BY <1>3 DEF HeadersFail, At, recovery, locals
<1>4. CASE Restart
  BY <1>4 DEF Restart, Crash, Return
<1>5. CASE World
  BY <1>5 DEF World, loop, Sign, OtherRelaySend, Mine, Unmine, Evict, locals
<1>6. CASE HeadersAgree \/ RelayHeaders \/ BestBlock \/ RelayDeposits \/ RelayCheckpoints
  BY <1>6 DEF HeadersAgree, RelayHeaders, BestBlock, RelayDeposits, RelayCheckpoints, At, vars,
              locals
<1>7. CASE NewBlock \/ Calls \/ UNCHANGED loopVars
  BY <1>7 DEF NewBlock, Calls, loopVars, vars, locals, loop
<1> QED BY <1>1, <1>2, <1>3, <1>4, <1>5, <1>6, <1>7 DEF LoopNext, LoopStep

LEMMA LoopKeepsInv == LoopSpec => []LoopInv
<1>1. LoopInv /\ [LoopNext]_loopVars => LoopInv'
  BY PassStaysInPart, StepIsOfAccount, AccountKeepsIdle, AccountInductive DEF LoopInv
<1> QED BY <1>1, LoopInitially, PTL DEF LoopSpec

\* The pass over the recovery transactions (relayer 582-606) is in the loop
\* what it is by itself.
THEOREM LoopRunsRecovery == LoopSpec => Spec
<1>1. LoopInit => Init
  BY DEF LoopInit
<1>2. LoopInv /\ [LoopNext]_loopVars => [Next]_vars
  BY StepIsOfRecovery DEF LoopInv
<1> QED BY <1>1, <1>2, LoopKeepsInv, PTL DEF LoopSpec, Spec

\* A recovery transaction is marked in the loop only when the node has it.
THEOREM LoopMarksWhatWasSent == LoopSpec => []MarkedRecoveryWasSent
BY LoopRunsRecovery, NothingIsMarkedUnsent, PTL

\* The calls of the loop's parts and of the other clients (cosmos 11-31) are
\* calls of one account.
THEOREM LoopUsesAccount == LoopSpec => A!Spec
<1>1. LoopInit => A!Init
  BY DEF LoopInit
<1>2. LoopInv /\ [LoopNext]_loopVars => [A!Next]_(A!account)
  BY StepIsOfAccount DEF LoopInv
<1> QED BY <1>1, <1>2, LoopKeepsInv, PTL DEF LoopSpec, A!Spec

\* No call of the loop or of another client (cosmos 11-31) is executed twice,
\* or after a later one of the same client.
THEOREM LoopCallsOnce == LoopSpec => []CallsRunOnceInOrder
BY LoopUsesAccount, CallsAreExecutedOnce, PTL

--------------------------------------------------------------------------------
(* Types *)

\* The block that relayHeader noted is one the node has had.
LoopTypes ==
    /\ part \in {"headers", "best", "deposit", "recovery", "checkpoint"}
    /\ tip \in 1..MaxTip
    /\ lastHash \in 0..tip

LEMMA LoopTypesStep == LoopTypes /\ [LoopNext]_loopVars => LoopTypes'
<1> SUFFICES ASSUME LoopTypes, [LoopNext]_loopVars PROVE LoopTypes'
  OBVIOUS
<1> USE DEF LoopTypes
<1>1. CASE HeadersAgree \/ RelayHeaders \/ HeadersFail \/ BestBlock
  BY <1>1 DEF HeadersAgree, RelayHeaders, HeadersFail, BestBlock
<1>2. CASE RelayDeposits \/ PassEnds \/ RelayCheckpoints
  BY <1>2 DEF RelayDeposits, PassEnds, RelayCheckpoints
<1>3. CASE Restart \/ NewBlock
  BY <1>3, TipAssumption DEF Restart, NewBlock
<1>4. CASE Pass \/ World \/ Calls \/ UNCHANGED loopVars
  BY <1>4 DEF Pass, World, Calls, loopVars, loop
<1> QED BY <1>1, <1>2, <1>3, <1>4 DEF LoopNext, LoopStep

\* Type correctness of the loop, its pass and its account, for every instance.
THEOREM LoopTypeCorrect == LoopSpec => []LoopTypeOK
<1>1. LoopInit => LoopTypes
  BY TipAssumption DEF LoopInit, LoopTypes
<1>2. LoopSpec => []LoopTypes
  BY <1>1, LoopTypesStep, PTL DEF LoopSpec
<1>3. LoopSpec => []IInv
  BY LoopRunsRecovery, Initially, Inductive, PTL DEF Spec
<1>4. IInv /\ LoopInv /\ LoopTypes => LoopTypeOK
  BY DEF IInv, LoopInv, AccountInv, PassInItsPart, LoopTypes, LoopTypeOK
<1> QED BY <1>2, <1>3, <1>4, LoopKeepsInv, PTL

================================================================================
