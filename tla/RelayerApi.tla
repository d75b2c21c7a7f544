------------------------------- MODULE RelayerApi ------------------------------
(***************************************************************************)
(* The relayer's process as a wallet sees it: requests to the REST API run *)
(* side by side, each an await at a time, with each other and with the     *)
(* removal of expired scripts in the relay loop; the table watched_scripts *)
(* outlives the process, and time passes between any two awaits, on the    *)
(* host's clock and on the contract's.                                     *)
(***************************************************************************)
EXTENDS AppBitcoin, DuckDb

CONSTANTS
    Request,        \* requests that are served at a time
    DepositBuffer,  \* env.deposit.depositBuffer
    Skew,           \* how far the host's clock may be from the contract's time
    MaxFaults       \* bound: failed awaits and crashes

\* A signatory set is kept for as long as it takes deposits, whichever clock is
\* ahead.
ASSUME ApiAssumption ==
    /\ DepositBuffer \in Nat /\ Skew \in Nat /\ MaxFaults \in Nat
    /\ MaxDepositAge + Skew <= MaxAge

VARIABLES
    up,        \* the process runs
    watched,   \* the table watched_scripts
    req,       \* per request: its await and its locals
    removal,   \* the await removeExpired is at, its clock and the rows left
    accepted,  \* history: signatory sets whose address was answered with OK
    faults

vars == <<contract, up, watched, req, removal, accepted, faults>>

Index == 0..MaxIndex
None == -1   \* undefined

\* The address of a signatory set stands for its script too: destination and
\* threshold are one.
ScriptKey == {"script"}
Row(i, t) == [script |-> i, sigsetCreateTime |-> t]
Rows == [script : Index, sigsetCreateTime : 0..MaxTime]

Idle    == [at |-> "idle", addr |-> 0, index |-> None, cp |-> 0, tx |-> 0]
Resting == [at |-> "idle", time |-> 0, todo |-> {}]

At(r, label) == up /\ req[r].at = label
Goto(r, label) == req' = [req EXCEPT ![r].at = label]
End(r) == req' = [req EXCEPT ![r] = Idle]

Label  == {"idle", "checkpoint", "config", "select", "insert", "answer", "tx", "reply"}
Locals == [at : Label, addr : Index, index : Index \cup {None}, cp : Index, tx : Index]

ContractOK == now \in 0..MaxTime /\ sigset \in Seq(0..now) /\ Len(sigset) \in 1..(MaxIndex + 1)

\* A row is that of a signatory set, and has its time.
IsRow(row) ==
    row \in Rows /\ row.script <= BuildingIndex /\ row.sigsetCreateTime = sigset[row.script + 1]

IsRequest(l) ==
    /\ l \in Locals
    /\ l.cp <= BuildingIndex /\ l.index <= BuildingIndex
    /\ l.at = "checkpoint" => l.index # None

RequestsOK == req \in [Request -> Locals] /\ \A r \in Request : IsRequest(req[r])

RemovalOK == removal \in [at : {"idle", "select", "delete"}, time : 0..(now + Skew), todo : SUBSET Rows]

TypeOK ==
    /\ ContractOK
    /\ \A row \in watched : IsRow(row)
    /\ RequestsOK
    /\ RemovalOK
    /\ up \in BOOLEAN
    /\ accepted \subseteq 0..BuildingIndex
    /\ faults \in 0..MaxFaults

Init ==
    /\ now = 0 /\ sigset = <<0>>
    /\ up = FALSE
    /\ watched = {} /\ accepted = {}
    /\ req = [r \in Request |-> Idle]
    /\ removal = Resting
    /\ faults = 0

Fault == faults < MaxFaults /\ faults' = faults + 1

--------------------------------------------------------------------------------
(* The process *)

\* The tables are created if they do not exist, the server listens, and the
\* relay loop starts.
Start ==
    /\ ~up
    /\ up' = TRUE
    /\ UNCHANGED <<contract, watched, req, removal, accepted, faults>>

Crash ==
    /\ up /\ Fault
    /\ up' = FALSE
    /\ req' = [r \in Request |-> Idle]
    /\ removal' = Resting
    /\ UNCHANGED <<contract, watched, accepted>>

--------------------------------------------------------------------------------
(* submitDepositAddress *)

\* POST /deposit, for an address and an index that need not belong together.
PostDeposit(r, a, i) ==
    /\ At(r, "idle")
    /\ a <= BuildingIndex /\ i <= BuildingIndex
    /\ req' = [req EXCEPT ![r] = [at |-> "checkpoint", addr |-> a, index |-> i, cp |-> 0, tx |-> 0]]
    /\ UNCHANGED <<contract, up, watched, removal, accepted, faults>>

\* Index 0 is taken for no index.
ReadCheckpoint(r) ==
    /\ At(r, "checkpoint")
    /\ LET cp == IF req[r].index # 0 THEN CheckpointByIndex(req[r].index) ELSE BuildingCheckpoint
       IN req' = [req EXCEPT ![r].at = "config", ![r].cp = cp.index, ![r].index = None]
    /\ UNCHANGED <<contract, up, watched, removal, accepted, faults>>

\* Date.now(): anything close to the contract's time, before or after it.
HostClock == {time \in 0..(now + Skew) : now - Skew <= time}

TakesDeposits(cp, time) == time + DepositBuffer < cp.create_time + MaxDepositAge

\* The configurations are read, and address and age checked against them.
CheckAddress(r) ==
    /\ At(r, "config")
    /\ \E time \in HostClock :
          IF req[r].addr = req[r].cp /\ TakesDeposits(Checkpoint(req[r].cp), time)
            THEN req' = [req EXCEPT ![r].at = "select", ![r].addr = 0]
            ELSE End(r)
    /\ UNCHANGED <<contract, up, watched, removal, accepted, faults>>

\* insertScript asks for the row, and inserts it if there is none.
SelectScript(r) ==
    /\ At(r, "select")
    /\ Goto(r, IF Select(watched, [script |-> req[r].cp]) = {} THEN "insert" ELSE "answer")
    /\ UNCHANGED <<contract, up, watched, removal, accepted, faults>>

\* A mutant of InsertScript: the row has the time of the insertion.
InsertScriptNow(r) ==
    /\ At(r, "insert")
    /\ watched' = Insert(watched, ScriptKey, Row(req[r].cp, now))
    /\ Goto(r, "answer")
    /\ UNCHANGED <<contract, up, removal, accepted, faults>>

InsertScript(r) ==
    /\ At(r, "insert")
    /\ watched' = Insert(watched, ScriptKey, Row(req[r].cp, Checkpoint(req[r].cp).create_time))
    /\ Goto(r, "answer")
    /\ UNCHANGED <<contract, up, removal, accepted, faults>>

AnswerDeposit(r) ==
    /\ At(r, "answer")
    /\ accepted' = accepted \cup {req[r].cp}
    /\ End(r)
    /\ UNCHANGED <<contract, up, watched, removal, faults>>

--------------------------------------------------------------------------------
(* The handlers that read *)

\* GET /checkpoint, with an index or without.
GetCheckpoint(r, i) ==
    /\ At(r, "idle")
    /\ i <= BuildingIndex
    /\ LET cp == IF i # None THEN CheckpointByIndex(i) ELSE BuildingCheckpoint
       IN req' = [req EXCEPT ![r] = [at |-> "tx", addr |-> 0, index |-> i, cp |-> cp.index, tx |-> 0]]
    /\ UNCHANGED <<contract, up, watched, removal, accepted, faults>>

\* A mutant of ReadTx: the transaction is the building checkpoint's.
ReadTxBuilding(r) ==
    /\ At(r, "tx")
    /\ req' = [req EXCEPT ![r].at = "reply", ![r].tx = BuildingTx]
    /\ UNCHANGED <<contract, up, watched, removal, accepted, faults>>

\* The transaction comes from a query of its own.
ReadTx(r) ==
    /\ At(r, "tx")
    /\ req' = [req EXCEPT ![r].at = "reply",
                          ![r].tx = IF req[r].index # None THEN CheckpointTx(req[r].index) ELSE BuildingTx]
    /\ UNCHANGED <<contract, up, watched, removal, accepted, faults>>

\* The other handlers pass on what they read, of the contract or of the tables;
\* the value locked and the checkpoint queue are zeros if they cannot be read.
Get(r) ==
    /\ At(r, "idle")
    /\ req' = [req EXCEPT ![r].at = "reply"]
    /\ UNCHANGED <<contract, up, watched, removal, accepted, faults>>

Reply(r) ==
    /\ At(r, "reply")
    /\ End(r)
    /\ UNCHANGED <<contract, up, watched, removal, accepted, faults>>

\* An await throws: catchAsync passes the error on, and it is the answer.
RequestFails(r) ==
    /\ up /\ req[r].at # "idle" /\ Fault
    /\ End(r)
    /\ UNCHANGED <<contract, up, watched, removal, accepted>>

--------------------------------------------------------------------------------
(* removeExpired, in the relay loop *)

\* The clock is read once, before the rows.
BeginRemoval ==
    /\ up /\ removal.at = "idle"
    /\ \E time \in HostClock : removal' = [removal EXCEPT !.at = "select", !.time = time]
    /\ UNCHANGED <<contract, up, watched, req, accepted, faults>>

\* A mutant of Expired: a row goes when its age is reached.
ExpiredAtAge(row, time) == row.sigsetCreateTime + MaxAge <= time

Expired(row, time) == row.sigsetCreateTime + MaxAge < time

SelectRows ==
    /\ up /\ removal.at = "select"
    /\ removal' = [at |-> "delete", time |-> 0, todo |-> {row \in watched : Expired(row, removal.time)}]
    /\ UNCHANGED <<contract, up, watched, req, accepted, faults>>

\* A mutant of DeleteRow: the WHERE matches no row.
DeleteRowAmiss(row) ==
    /\ up /\ removal.at = "delete" /\ row \in removal.todo
    /\ removal' = [removal EXCEPT !.todo = @ \ {row}]
    /\ UNCHANGED <<contract, up, watched, req, accepted, faults>>

\* One statement for each row.
DeleteRow(row) ==
    /\ up /\ removal.at = "delete" /\ row \in removal.todo
    /\ watched' = Delete(watched, [script |-> row.script])
    /\ removal' = [removal EXCEPT !.todo = @ \ {row}]
    /\ UNCHANGED <<contract, up, req, accepted, faults>>

RemovalDone ==
    /\ up /\ removal.at = "delete" /\ removal.todo = {}
    /\ removal' = Resting
    /\ UNCHANGED <<contract, up, watched, req, accepted, faults>>

\* What throws is logged: the rows left stay for the next scan.
RemovalFails ==
    /\ up /\ removal.at # "idle" /\ Fault
    /\ removal' = Resting
    /\ UNCHANGED <<contract, up, watched, req, accepted>>

--------------------------------------------------------------------------------
Removal == BeginRemoval \/ SelectRows \/ RemovalDone \/ \E row \in removal.todo : DeleteRow(row)

Serve(r) ==
    \/ ReadCheckpoint(r) \/ CheckAddress(r) \/ SelectScript(r) \/ InsertScript(r) \/ AnswerDeposit(r)
    \/ ReadTx(r) \/ Reply(r)

Receive(r) ==
    \/ \E a, i \in Index : PostDeposit(r, a, i)
    \/ \E i \in Index \cup {None} : GetCheckpoint(r, i)
    \/ Get(r)

World == (Tick \/ NewCheckpoint) /\ UNCHANGED <<up, watched, req, removal, accepted, faults>>

Next ==
    \/ Start \/ Crash \/ World \/ Removal \/ RemovalFails
    \/ \E r \in Request : Receive(r) \/ Serve(r) \/ RequestFails(r)

Spec == Init /\ [][Next]_vars

\* The process is restarted, and the relay loop keeps coming back to its scan.
FairSpec == Spec /\ WF_vars(Start) /\ WF_vars(Removal)

--------------------------------------------------------------------------------
(* Properties *)

\* An address that the API has taken stays watched while the contract takes
\* deposits to it (relayer 839-855, watched_scripts 73-100), whatever requests,
\* removals, restarts and failures come in between, however late an insertion
\* is, and whichever of the host's clock and the contract's is ahead.
AcceptedIsWatched ==
    \A i \in accepted :
        now <= Checkpoint(i).create_time + MaxDepositAge => Row(i, Checkpoint(i).create_time) \in watched

\* The sigset and the transaction of an answer belong to one checkpoint, or,
\* asked without an index, the transaction is no older than the sigset: another
\* checkpoint may have begun between the two queries (checkpoint.service 14-33).
CheckpointAnswerAgrees ==
    \A r \in Request : req[r].at = "reply" =>
        /\ req[r].index # None => req[r].cp = req[r].index /\ req[r].tx = req[r].index
        /\ req[r].cp <= req[r].tx

\* Every row that has expired, by any clock, is removed (watched_scripts 73-100),
\* one that was inserted late or left by a removal that failed included.
ExpiredIsRemoved ==
    \A i \in Index :
        (\E row \in watched : row.script = i /\ Expired(row, now - Skew)) ~> (\A row \in watched : row.script # i)

================================================================================
