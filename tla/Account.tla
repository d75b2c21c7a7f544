--------------------------------- MODULE Account -------------------------------
(***************************************************************************)
(* The Cosmos account.  The relayer, the loops of the signer, the trigger  *)
(* of blocks and the commands are clients of the contracts with the        *)
(* mnemonic of one account, whose transactions carry consecutive sequence  *)
(* numbers.  A client signs with the committed number, so that of two      *)
(* clients at once one is refused with "account sequence mismatch":        *)
(* wrappedExecuteTransaction then calls again, a bare execute throws.      *)
(* The signing client of cosmjs and the node are external.                 *)
(***************************************************************************)
EXTENDS Integers, Sequences, Functions

CONSTANTS
    Client,   \* the loops and commands with the account's mnemonic
    MaxCalls  \* bound: calls of all the clients

VARIABLES
    at,       \* where a client is: idle, sign, broadcast, poll
    calls,    \* the calls that a client has begun; the last is under way
    message,  \* what that call executes
    number,   \* the sequence number it was signed with
    known,    \* transactions that a node has ever taken
    log,      \* transactions in the chain: place n has sequence number n - 1
    next      \* the number that the node expects, after those in its mempool

client  == <<at, calls, message, number>>
node    == <<known, log, next>>
account == <<client, node>>

--------------------------------------------------------------------------------
(* Who executes what *)

HeaderMessages  == {"relay_headers"}   \* to the light client, the others to the app
RelayerMessages == HeaderMessages \cup {"relay_deposit", "relay_checkpoint"}
SignerMessages  ==
    {"submit_checkpoint_signature", "submit_recovery_signature", "set_signatory_key"}
TriggerMessages == {"trigger_begin_block"}
Registration    == {"register_validator"}

Message == RelayerMessages \cup SignerMessages \cup TriggerMessages \cup Registration

Messages(c) ==
    CASE c = "relayer"  -> RelayerMessages
      [] c = "signer"   -> SignerMessages
      [] c = "trigger"  -> TriggerMessages
      [] c = "register" -> Registration

\* The calls that run in wrappedExecuteTransaction; the others are bare.
Wrapped == RelayerMessages \cup {"submit_checkpoint_signature", "submit_recovery_signature"}

None == "none"

Committed == Len(log)

Transaction(c) == [client |-> c, call |-> calls[c], number |-> number[c]]

Transactions == [client : Client, call : Nat, number : Nat]

TypeOK ==
    /\ at \in [Client -> {"idle", "sign", "broadcast", "poll"}]
    /\ calls \in [Client -> Nat]
    /\ message \in [Client -> Message \cup {None}]
    /\ number \in [Client -> Nat]
    /\ known \in SUBSET Transactions
    /\ log \in Seq(known)
    /\ next \in Nat

Init ==
    /\ at = [c \in Client |-> "idle"]
    /\ calls = [c \in Client |-> 0]
    /\ message = [c \in Client |-> None]
    /\ number = [c \in Client |-> 0]
    /\ known = {}
    /\ log = <<>>
    /\ next = 0

Goto(c, where) == at' = [at EXCEPT ![c] = where]

Ends(c) ==
    /\ Goto(c, "idle")
    /\ message' = [message EXCEPT ![c] = None]
    /\ number' = [number EXCEPT ![c] = 0]

--------------------------------------------------------------------------------
(* A call of execute *)

CallsBegun == FoldFunction(+, 0, calls)

\* A client has something to execute.
Execute(c, m) ==
    /\ at[c] = "idle"
    /\ m \in Message /\ m \in Messages(c)
    /\ CallsBegun < MaxCalls
    /\ calls' = [calls EXCEPT ![c] = @ + 1]
    /\ message' = [message EXCEPT ![c] = m]
    /\ Goto(c, "sign")
    /\ UNCHANGED <<number, node>>

\* The signing client reads the committed number and signs.
Sign(c) ==
    /\ at[c] = "sign"
    /\ number' = [number EXCEPT ![c] = Committed]
    /\ Goto(c, "broadcast")
    /\ UNCHANGED <<calls, message, node>>

\* The node takes a transaction with the number it expects.
Taken(c) ==
    /\ number[c] = next
    /\ known' = known \cup {Transaction(c)}
    /\ next' = next + 1
    /\ UNCHANGED log

Broadcast(c) ==
    /\ at[c] = "broadcast"
    /\ Taken(c)
    /\ Goto(c, "poll")
    /\ UNCHANGED <<calls, message, number>>

Mismatch(c) == at[c] = "broadcast" /\ number[c] # next

\* Mutant of Retry: the call is made again without a new signature.
RetryAsSigned(c) ==
    /\ Mismatch(c) /\ message[c] \in Wrapped
    /\ UNCHANGED account

\* wrappedExecuteTransaction: the message includes "account sequence mismatch".
Retry(c) ==
    /\ Mismatch(c) /\ message[c] \in Wrapped
    /\ Goto(c, "sign")
    /\ UNCHANGED <<calls, message, number, node>>

\* A bare execute throws; its caller logs the error, or ends.
Refused(c) ==
    /\ Mismatch(c) /\ message[c] \notin Wrapped
    /\ Ends(c)
    /\ UNCHANGED <<calls, node>>

Included(c) ==
    /\ at[c] = "poll"
    /\ Transaction(c) \in {log[n] : n \in DOMAIN log}
    /\ Ends(c)
    /\ UNCHANGED <<calls, node>>

\* Mutant of GivesUp: an unexpected error is retried too.
GivesUpRetrying(c) ==
    /\ at[c] = "poll"
    /\ IF message[c] \in Wrapped THEN Goto(c, "sign") /\ UNCHANGED <<message, number>> ELSE Ends(c)
    /\ UNCHANGED <<calls, node>>

\* broadcastTx gives up polling: the error is unexpected, and the call ends
\* though its transaction may yet be included.
GivesUp(c) ==
    /\ at[c] = "poll"
    /\ Ends(c)
    /\ UNCHANGED <<calls, node>>

\* The contract refuses the call when it is simulated, the request or its
\* answer is lost, or the process ends.  The node may have the transaction.
Fails(c) ==
    /\ at[c] # "idle"
    /\ \/ UNCHANGED node
       \/ at[c] = "broadcast" /\ Taken(c)
    /\ Ends(c)
    /\ UNCHANGED calls

Step(c) ==
    Sign(c) \/ Broadcast(c) \/ Retry(c) \/ Refused(c) \/ Included(c) \/ GivesUp(c)

--------------------------------------------------------------------------------
(* The node *)

\* A transaction with the next number is in a block, whether or not this
\* node still has it.
Commit ==
    \E t \in known :
        /\ t.number = Committed
        /\ log' = Append(log, t)
        /\ next' = IF next > Committed THEN next ELSE Committed + 1
        /\ UNCHANGED <<client, known>>

\* The node loses its mempool.
Forget ==
    /\ next > Committed
    /\ next' = Committed
    /\ UNCHANGED <<client, known, log>>

--------------------------------------------------------------------------------
Next ==
    \/ \E c \in Client : Step(c) \/ Fails(c) \/ \E m \in Message : Execute(c, m)
    \/ Commit \/ Forget

Spec == Init /\ [][Next]_account

--------------------------------------------------------------------------------
(* Properties *)

\* A call that is retried (cosmos 11-31) is executed at most once, and a
\* client's calls are executed in the order in which it made them, also where
\* it gave up on an earlier one that was still to be included.
CallsRunOnceInOrder ==
    \A m, n \in DOMAIN log :
        m < n /\ log[m].client = log[n].client => log[m].call < log[n].call

================================================================================
