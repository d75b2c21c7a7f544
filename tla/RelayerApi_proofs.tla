--------------------------- MODULE RelayerApi_proofs ---------------------------
(***************************************************************************)
(* An address that the API has taken stays watched while the contract      *)
(* takes deposits to it, for any number of requests, checkpoints, faults   *)
(* and any ages that are in order.  A row leaves the table only under a    *)
(* removal that found it expired, and expired it stays, however much later *)
(* the statement runs; a request that is about to answer has either met    *)
(* the row or inserted it.  And an answer to GET /checkpoint, made of two  *)
(* queries, is of one checkpoint or has the younger one's transaction.     *)
(***************************************************************************)
EXTENDS RelayerApi, SequenceTheorems, TLAPS

Created(i) == sigset[i + 1]

Stays(i) == now <= Created(i) + MaxDepositAge => Row(i, Created(i)) \in watched

\* A request that will answer OK has seen the row in the table.
AnswerStays == \A r \in Request : req[r].at = "answer" => Stays(req[r].cp)

\* What a removal has left to delete has expired.
TodoHasExpired ==
    \A row \in removal.todo :
        /\ row.script <= BuildingIndex
        /\ row.sigsetCreateTime = Created(row.script)
        /\ Expired(row, now + Skew)

IInv == TypeOK /\ AcceptedIsWatched /\ AnswerStays /\ TodoHasExpired

--------------------------------------------------------------------------------
LEMMA CheckpointFields ==
    ASSUME NEW i
    PROVE  Checkpoint(i).index = i /\ Checkpoint(i).create_time = Created(i)
BY DEF Checkpoint, Created

LEMMA RowFields ==
    ASSUME NEW i, NEW t
    PROVE  Row(i, t).script = i /\ Row(i, t).sigsetCreateTime = t
BY DEF Row

\* INSERT OR IGNORE adds at most its row, and leaves one with its key.
LEMMA InsertAdds ==
    ASSUME NEW table, NEW row
    PROVE  /\ table \subseteq Insert(table, ScriptKey, row)
           /\ Insert(table, ScriptKey, row) \subseteq table \cup {row}
           /\ \E r \in Insert(table, ScriptKey, row) : r.script = row.script
BY DEF Insert, SameKey, ScriptKey

LEMMA SelectByScript ==
    ASSUME NEW table, NEW i, Select(table, [script |-> i]) # {}
    PROVE  \E row \in table : row.script = i
BY DEF Select, Matches

LEMMA DeleteByScript ==
    ASSUME NEW table, NEW i
    PROVE  /\ Delete(table, [script |-> i]) \subseteq table
           /\ \A row \in table : row.script # i => row \in Delete(table, [script |-> i])
<1> DEFINE w == [script |-> i]
<1>1. DOMAIN w = {"script"} /\ w.script = i
  OBVIOUS
<1>2. \A row : Matches(row, w) <=> row.script = i
  BY <1>1 DEF Matches
<1> QED BY <1>2 DEF Delete

\* A watched row is the row of its script.
LEMMA WatchedRow ==
    ASSUME TypeOK, NEW row \in watched
    PROVE  row = Row(row.script, Created(row.script)) /\ row.script \in 0..BuildingIndex
BY DEF TypeOK, IsRow, Rows, Row, Index, Created, BuildingIndex

\* Time and new rows undo no promise.
LEMMA StaysOn ==
    ASSUME TypeOK, NEW i \in Int, Stays(i), Created(i) \in Int,
           now' \in Int, now <= now', Created(i)' = Created(i), watched \subseteq watched'
    PROVE  Stays(i)'
BY AgeAssumption DEF Stays, TypeOK, ContractOK

\* In terms of Stays.
LEMMA AcceptedStays == AcceptedIsWatched <=> \A i \in accepted : Stays(i)
BY CheckpointFields DEF AcceptedIsWatched, Stays

\* A signatory set has a time, and keeps it.
LEMMA CreatedType ==
    ASSUME TypeOK, NEW i \in 0..BuildingIndex
    PROVE  Created(i) \in 0..now /\ Created(i) \in Int
BY DEF TypeOK, ContractOK, Created, BuildingIndex

--------------------------------------------------------------------------------
(* Types *)

LEMMA Bounds ==
    ASSUME TypeOK
    PROVE  BuildingIndex \in Index /\ now \in Nat /\ Len(sigset) = BuildingIndex + 1
BY AgeAssumption DEF TypeOK, ContractOK, BuildingIndex, Index

LEMMA InitTypeOK == Init => TypeOK
<1> SUFFICES ASSUME Init
             PROVE  TypeOK
  OBVIOUS
<1>1. ContractOK /\ BuildingIndex = 0
  BY AgeAssumption DEF Init, ContractOK, BuildingIndex
<1>2. RequestsOK
  BY <1>1, AgeAssumption DEF Init, RequestsOK, IsRequest, Idle, Locals, Label, Index, None
<1>3. RemovalOK
  BY AgeAssumption, ApiAssumption DEF Init, RemovalOK, Resting
<1>4. faults \in 0..MaxFaults
  BY ApiAssumption DEF Init
<1>5. up \in BOOLEAN /\ watched = {} /\ accepted = {}
  BY DEF Init
<1> QED BY <1>1, <1>2, <1>3, <1>4, <1>5 DEF TypeOK

\* The steps that leave the contract alone need only what they change.
LEMMA SameContract ==
    ASSUME TypeOK, UNCHANGED contract
    PROVE  /\ ContractOK' /\ BuildingIndex' = BuildingIndex
           /\ \A i : Created(i)' = Created(i)
           /\ \A row : IsRow(row) => IsRow(row)'
           /\ UNCHANGED req => RequestsOK'
           /\ UNCHANGED removal => RemovalOK'
           /\ UNCHANGED accepted => (accepted \subseteq 0..BuildingIndex)'
BY DEF TypeOK, contract, ContractOK, BuildingIndex, IsRow, RequestsOK, IsRequest, RemovalOK, Created

\* New locals for one request.
LEMMA RequestGoesOn ==
    ASSUME TypeOK, UNCHANGED contract, NEW r \in Request, NEW l, IsRequest(l),
           req' = [req EXCEPT ![r] = l]
    PROVE  RequestsOK'
BY SameContract DEF TypeOK, RequestsOK, IsRequest

\* Ending one request, or all of them.
LEMMA IdleType ==
    ASSUME TypeOK
    PROVE  IsRequest(Idle)
BY Bounds, AgeAssumption DEF IsRequest, Idle, Locals, Label, Index, None

LEMMA ReqFields ==
    ASSUME TypeOK, NEW r \in Request
    PROVE  /\ req[r] \in Locals
           /\ req[r].at \in Label /\ req[r].addr \in Index
           /\ req[r].index \in Index \cup {None} /\ req[r].tx \in Index
           /\ req[r].cp \in Index /\ req[r].cp \in 0..BuildingIndex
           /\ req[r].index <= BuildingIndex
           /\ req[r].at = "checkpoint" => req[r].index \in Index
<1>1. IsRequest(req[r])
  BY DEF TypeOK, RequestsOK
<1>2. BuildingIndex \in Index
  BY Bounds
<1> QED BY <1>1, <1>2 DEF IsRequest, Locals, Index, None

LEMMA WorldTypeOK ==
    ASSUME TypeOK, World
    PROVE  TypeOK'
<1>1. ContractOK' /\ BuildingIndex <= BuildingIndex' /\ now <= now' /\ BuildingIndex' \in Int
  <2>1. CASE Tick
    <3>1. now' = now + 1 /\ sigset' = sigset /\ now' \in 0..MaxTime
      BY <2>1, AgeAssumption DEF Tick, TypeOK, ContractOK
    <3>2. sigset \in Seq(0..(now + 1))
      BY Bounds DEF TypeOK, ContractOK
    <3> QED BY <3>1, <3>2, Bounds DEF TypeOK, ContractOK, BuildingIndex, Index
  <2>2. CASE NewCheckpoint
    <3>1. now' = now /\ sigset' = Append(sigset, now) /\ Len(sigset) <= MaxIndex
      BY <2>2, AgeAssumption DEF NewCheckpoint, BuildingIndex, TypeOK, ContractOK
    <3>2. sigset' \in Seq(0..now) /\ Len(sigset') = Len(sigset) + 1
      BY <3>1, Bounds DEF TypeOK, ContractOK
    <3> QED BY <3>1, <3>2, Bounds, AgeAssumption DEF TypeOK, ContractOK, BuildingIndex, Index
  <2> QED BY <2>1, <2>2 DEF World
<1>2. \A i \in 0..BuildingIndex : Created(i)' = Created(i)
  BY Bounds DEF World, Tick, NewCheckpoint, TypeOK, ContractOK, Created, BuildingIndex
<1>3. \A row \in watched' : IsRow(row)'
  <2> SUFFICES ASSUME NEW row \in watched
               PROVE  IsRow(row)'
    BY DEF World
  <2>1. row \in Rows /\ row.script \in 0..BuildingIndex /\ row.sigsetCreateTime = Created(row.script)
    BY Bounds DEF TypeOK, IsRow, Created, Rows, Index
  <2>2. row.script <= BuildingIndex' /\ row.sigsetCreateTime = Created(row.script)'
    BY <2>1, <1>1, <1>2, Bounds DEF Index
  <2> QED BY <2>1, <2>2 DEF IsRow, Created
<1>4. RequestsOK'
  <2>1. req' = req
    BY DEF World
  <2>2. \A r \in Request : req[r].cp <= BuildingIndex' /\ req[r].index <= BuildingIndex'
    BY <1>1, Bounds, ReqFields DEF Index, None
  <2> QED BY <2>1, <2>2 DEF TypeOK, RequestsOK, IsRequest
<1>5. RemovalOK'
  <2>1. 0..(now + Skew) \subseteq 0..(now' + Skew)
    BY <1>1, Bounds, ApiAssumption DEF ContractOK
  <2>2. removal' = removal /\ RemovalOK
    BY DEF World, TypeOK
  <2> QED BY <2>1, <2>2 DEF RemovalOK
<1>6. (accepted \subseteq 0..BuildingIndex)'
  BY <1>1, Bounds DEF World, TypeOK, Index
<1> QED BY <1>1, <1>3, <1>4, <1>5, <1>6 DEF World, TypeOK

LEMMA ServeTypeOK ==
    ASSUME TypeOK, NEW r \in Request, Receive(r) \/ Serve(r) \/ RequestFails(r)
    PROVE  TypeOK'
<1> USE ReqFields, Bounds
<1>1. UNCHANGED <<contract, removal, up>>
  BY DEF Receive, Serve, RequestFails, PostDeposit, GetCheckpoint, Get, ReadCheckpoint, CheckAddress,
     SelectScript, InsertScript, AnswerDeposit, ReadTx, Reply
<1>2. RequestsOK'
  <2>1. CASE \E a, i \in Index : PostDeposit(r, a, i)
    <3> PICK a \in Index, i \in Index : PostDeposit(r, a, i)
      BY <2>1
    <3> DEFINE l == [at |-> "checkpoint", addr |-> a, index |-> i, cp |-> 0, tx |-> 0]
    <3>1. IsRequest(l)
      BY AgeAssumption DEF PostDeposit, IsRequest, Locals, Label, Index, None
    <3> QED BY <1>1, <3>1, RequestGoesOn DEF PostDeposit
  <2>2. CASE \E i \in Index \cup {None} : GetCheckpoint(r, i)
    <3> PICK i \in Index \cup {None} : GetCheckpoint(r, i)
      BY <2>2
    <3> DEFINE c == IF i # None THEN i ELSE BuildingIndex
               l == [at |-> "tx", addr |-> 0, index |-> i, cp |-> c, tx |-> 0]
    <3>1. i <= BuildingIndex /\ req' = [req EXCEPT ![r] = l]
      BY DEF GetCheckpoint, CheckpointByIndex, BuildingCheckpoint, Checkpoint
    <3>2. IsRequest(l)
      BY <3>1, AgeAssumption DEF IsRequest, Locals, Label, Index, None
    <3> QED BY <1>1, <3>1, <3>2, RequestGoesOn
  <2>3. CASE ReadCheckpoint(r)
    <3> DEFINE c == IF req[r].index # 0 THEN req[r].index ELSE BuildingIndex
               l == [req[r] EXCEPT !.at = "config", !.cp = c, !.index = None]
    <3>1. req' = [req EXCEPT ![r] = l]
      BY <2>3 DEF ReadCheckpoint, CheckpointByIndex, BuildingCheckpoint, Checkpoint, TypeOK, RequestsOK, Locals
    <3>2. c \in Index /\ c <= BuildingIndex
      BY <2>3 DEF ReadCheckpoint, At, Index
    <3> HIDE DEF c
    <3>3. l \in Locals /\ l.cp = c /\ l.index = None /\ l.at = "config"
      BY <3>2 DEF Locals, Label
    <3>4. IsRequest(l)
      BY <3>2, <3>3 DEF IsRequest, Index, None
    <3> QED BY <1>1, <3>1, <3>4, RequestGoesOn
  <2>4. ASSUME NEW label \in {"select", "insert", "answer", "reply"}, NEW a \in Index, NEW t \in Index,
               req' = [req EXCEPT ![r] = [req[r] EXCEPT !.at = label, !.addr = a, !.tx = t]]
        PROVE  RequestsOK'
    <3> DEFINE l == [req[r] EXCEPT !.at = label, !.addr = a, !.tx = t]
    <3>1. l \in Locals /\ l.cp = req[r].cp /\ l.index = req[r].index /\ l.at = label
      BY <2>4 DEF Locals, Label
    <3>2. IsRequest(l)
      BY <3>1, <2>4 DEF IsRequest, Index
    <3> QED BY <1>1, <2>4, <3>2, RequestGoesOn
  <2>5. ASSUME NEW label, req' = [req EXCEPT ![r].at = label]
        PROVE  req' = [req EXCEPT ![r] = [req[r] EXCEPT !.at = label, !.addr = req[r].addr, !.tx = req[r].tx]]
    BY <2>5 DEF TypeOK, RequestsOK, Locals
  <2>6. CASE End(r)
    BY <2>6, <1>1, IdleType, RequestGoesOn DEF End
  <2>7. CASE SelectScript(r) \/ InsertScript(r) \/ Get(r)
    <3>1. \E label \in {"select", "insert", "answer", "reply"} : req' = [req EXCEPT ![r].at = label]
      BY <2>7 DEF SelectScript, InsertScript, Get, Goto
    <3> PICK label \in {"select", "insert", "answer", "reply"} : req' = [req EXCEPT ![r].at = label]
      BY <3>1
    <3>2. req' = [req EXCEPT ![r] = [req[r] EXCEPT !.at = label, !.addr = req[r].addr, !.tx = req[r].tx]]
      BY <2>5
    <3>3. req[r].addr \in Index /\ req[r].tx \in Index
      BY ReqFields
    <3> HIDE ReqFields, Bounds
    <3> QED BY <3>2, <3>3, <2>4
  <2>8. CASE ReadTx(r)
    <3> DEFINE t == IF req[r].index # None THEN req[r].index ELSE BuildingIndex
    <3>1. t \in Index
      BY DEF None
    <3>2. req' = [req EXCEPT ![r] = [req[r] EXCEPT !.at = "reply", !.addr = req[r].addr, !.tx = t]]
      BY <2>8 DEF ReadTx, CheckpointTx, BuildingTx, TypeOK, RequestsOK, Locals
    <3> QED BY <3>1, <3>2, <2>4
  <2>9. CASE CheckAddress(r) /\ ~End(r)
    <3>1. req' = [req EXCEPT ![r] = [req[r] EXCEPT !.at = "select", !.addr = 0, !.tx = req[r].tx]]
      BY <2>9 DEF CheckAddress, TypeOK, RequestsOK, Locals
    <3>2. 0 \in Index
      BY AgeAssumption DEF Index
    <3> QED BY <3>1, <3>2, <2>4
  <2> QED
    BY <2>1, <2>2, <2>3, <2>6, <2>7, <2>8, <2>9
    DEF Receive, Serve, RequestFails, AnswerDeposit, Reply
<1>3. \A row \in watched' : IsRow(row)'
  <2>1. CASE InsertScript(r)
    <3> DEFINE new == Row(req[r].cp, Checkpoint(req[r].cp).create_time)
    <3>1. IsRow(new)
      <4>1. new = Row(req[r].cp, Created(req[r].cp)) /\ Created(req[r].cp) \in 0..now
        BY CreatedType, CheckpointFields
      <4>2. new.script = req[r].cp /\ new.sigsetCreateTime = Created(req[r].cp)
        BY <4>1, RowFields
      <4>3. Created(req[r].cp) \in 0..MaxTime
        BY <4>1, AgeAssumption DEF TypeOK, ContractOK
      <4>4. new \in Rows
        BY <4>1, <4>3 DEF Rows, Row
      <4> QED BY <4>2, <4>4 DEF IsRow, Created
    <3>2. watched' \subseteq watched \cup {new}
      BY <2>1, InsertAdds DEF InsertScript
    <3> HIDE DEF new
    <3> QED BY <1>1, <3>1, <3>2, SameContract DEF TypeOK
  <2>2. CASE ~InsertScript(r)
    <3>1. watched' = watched
      BY <2>2 DEF Receive, Serve, RequestFails, PostDeposit, GetCheckpoint, Get, ReadCheckpoint, CheckAddress,
         SelectScript, AnswerDeposit, ReadTx, Reply
    <3> QED BY <1>1, <3>1, SameContract DEF TypeOK
  <2> QED BY <2>1, <2>2
<1>4. accepted' \subseteq 0..BuildingIndex /\ faults' \in 0..MaxFaults
  BY ApiAssumption DEF TypeOK, Fault, Receive, Serve, RequestFails, PostDeposit, GetCheckpoint, Get, ReadCheckpoint,
     CheckAddress, SelectScript, InsertScript, AnswerDeposit, ReadTx, Reply
<1> QED BY <1>1, <1>2, <1>3, <1>4, SameContract DEF TypeOK

LEMMA RemovalTypeOK ==
    ASSUME TypeOK, Removal \/ RemovalFails
    PROVE  TypeOK'
<1>1. UNCHANGED <<contract, req, up, accepted>>
  BY DEF Removal, RemovalFails, BeginRemoval, SelectRows, DeleteRow, RemovalDone
<1>2. watched' \subseteq watched
  <2>1. CASE \E row \in removal.todo : DeleteRow(row)
    BY <2>1, DeleteByScript DEF DeleteRow
  <2>2. CASE BeginRemoval \/ SelectRows \/ RemovalDone \/ RemovalFails
    BY <2>2 DEF BeginRemoval, SelectRows, RemovalDone, RemovalFails
  <2> QED BY <2>1, <2>2 DEF Removal
<1>3. faults' \in 0..MaxFaults
  <2>1. CASE Removal
    <3>1. faults' = faults
      BY <2>1 DEF Removal, BeginRemoval, SelectRows, DeleteRow, RemovalDone
    <3> QED BY <3>1 DEF TypeOK
  <2>2. CASE RemovalFails
    BY <2>2, ApiAssumption DEF TypeOK, RemovalFails, Fault
  <2> QED BY <2>1, <2>2
<1>4. RemovalOK'
  <2>1. removal \in [at : {"idle", "select", "delete"}, time : 0..(now + Skew), todo : SUBSET Rows] /\ now' = now
    BY <1>1 DEF TypeOK, RemovalOK, contract
  <2>2. watched \subseteq Rows
    BY DEF TypeOK, IsRow
  <2>3. CASE BeginRemoval
    <3>1. PICK time \in 0..(now + Skew) :
              removal' = [removal EXCEPT !.at = "select", !.time = time]
      BY <2>3 DEF BeginRemoval, HostClock
    <3> QED BY <2>1, <3>1 DEF RemovalOK
  <2>4. CASE SelectRows
    <3> DEFINE rows == {row \in watched : Expired(row, removal.time)}
    <3>1. rows \in SUBSET Rows
      BY <2>2
    <3> HIDE DEF rows
    <3>2. removal' = [at |-> "delete", time |-> 0, todo |-> rows]
      BY <2>4 DEF SelectRows, rows
    <3> QED BY <2>1, <3>1, <3>2, Bounds, ApiAssumption DEF RemovalOK
  <2>5. CASE \E row \in removal.todo : DeleteRow(row)
    BY <2>1, <2>5 DEF DeleteRow, RemovalOK
  <2>6. CASE RemovalDone \/ RemovalFails
    BY <2>1, <2>6, Bounds, ApiAssumption DEF RemovalDone, RemovalFails, RemovalOK, Resting
  <2> QED BY <2>3, <2>4, <2>5, <2>6 DEF Removal
<1> QED BY <1>1, <1>2, <1>3, <1>4, SameContract DEF TypeOK

LEMMA TypeOKStep == TypeOK /\ [Next]_vars => TypeOK'
<1> SUFFICES ASSUME TypeOK, [Next]_vars
             PROVE  TypeOK'
  OBVIOUS
<1>1. CASE Start
  BY <1>1, SameContract DEF Start, TypeOK
<1>2. CASE Crash
  <2>1. RequestsOK' /\ RemovalOK'
    BY <1>2, IdleType, SameContract, Bounds, ApiAssumption DEF Crash, RequestsOK, RemovalOK, IsRequest, Resting, contract
  <2>2. faults' \in 0..MaxFaults
    BY <1>2, ApiAssumption DEF Crash, Fault, TypeOK
  <2>3. UNCHANGED <<contract, watched, accepted>> /\ up' \in BOOLEAN
    BY <1>2 DEF Crash
  <2> QED BY <2>1, <2>2, <2>3, SameContract DEF TypeOK
<1>3. CASE UNCHANGED vars
  BY <1>3, SameContract DEF vars, TypeOK
<1> QED BY <1>1, <1>2, <1>3, WorldTypeOK, ServeTypeOK, RemovalTypeOK DEF Next

\* Type correctness of the API for every instance.
THEOREM TypeCorrect == Spec => []TypeOK
<1> QED BY InitTypeOK, TypeOKStep, PTL DEF Spec

--------------------------------------------------------------------------------
(* Accepted addresses *)

\* Requests that are not about to answer OK promise nothing.
LEMMA OtherRequests ==
    ASSUME IInv, UNCHANGED contract, watched \subseteq watched', NEW r \in Request,
           NEW q \in Request \ {r}, req'[q] = req[q], req'[q].at = "answer"
    PROVE  Stays(req[q].cp)'
<1>1. Stays(req[q].cp) /\ TypeOK
  BY DEF IInv, AnswerStays
<1>2. req[q].cp \in 0..BuildingIndex /\ Created(req[q].cp) \in Int /\ now \in Int
  BY <1>1, ReqFields, CreatedType, Bounds
<1> QED BY <1>1, <1>2 DEF Stays, Created, contract

LEMMA ServeIInv ==
    ASSUME IInv, NEW r \in Request, Receive(r) \/ Serve(r) \/ RequestFails(r)
    PROVE  IInv'
<1>1. TypeOK /\ AcceptedIsWatched /\ AnswerStays /\ TodoHasExpired
  BY DEF IInv
<1>2. TypeOK'
  BY <1>1, ServeTypeOK
<1>3. UNCHANGED <<contract, removal>>
  BY DEF Receive, Serve, RequestFails, PostDeposit, GetCheckpoint, Get, ReadCheckpoint, CheckAddress,
     SelectScript, InsertScript, AnswerDeposit, ReadTx, Reply
<1>4. watched \subseteq watched'
  BY InsertAdds
  DEF Receive, Serve, RequestFails, PostDeposit, GetCheckpoint, Get, ReadCheckpoint, CheckAddress,
     SelectScript, InsertScript, AnswerDeposit, ReadTx, Reply
<1>5. \A i \in 0..BuildingIndex : Stays(i) => Stays(i)'
  BY <1>3, <1>4 DEF Stays, Created, contract
<1>6. req[r].cp \in 0..BuildingIndex
  BY <1>1, ReqFields
<1>7. AnswerStays'
  <2> SUFFICES ASSUME NEW q \in Request, req'[q].at = "answer"
               PROVE  Stays(req[q].cp)'
    BY DEF AnswerStays
  <2>1. CASE q # r
    <3>1. req'[q] = req[q]
      BY <2>1, <1>1
      DEF TypeOK, RequestsOK, Receive, Serve, RequestFails, PostDeposit, GetCheckpoint, Get, ReadCheckpoint,
          CheckAddress, SelectScript, InsertScript, AnswerDeposit, ReadTx, Reply, Goto, End
    <3> QED BY <2>1, <3>1, <1>3, <1>4, OtherRequests
  <2>2. CASE q = r
    <3>1. SelectScript(r) \/ InsertScript(r)
      BY <2>2, <1>1
      DEF Receive, Serve, RequestFails, PostDeposit, GetCheckpoint, Get, ReadCheckpoint, CheckAddress,
          AnswerDeposit, ReadTx, Reply, Goto, End, Idle, TypeOK, RequestsOK, Locals
    <3>2. req'[r].cp = req[r].cp
      BY <3>1, <1>1 DEF SelectScript, InsertScript, Goto, TypeOK, RequestsOK, Locals
    <3>3. \E row \in watched' : row.script = req[r].cp
      <4>1. CASE SelectScript(r)
        <5>1. Select(watched, [script |-> req[r].cp]) # {} /\ watched' = watched
          BY <4>1, <2>2, <1>1 DEF SelectScript, Goto, TypeOK, RequestsOK, Locals
        <5> QED BY <5>1, SelectByScript
      <4>2. CASE InsertScript(r)
        BY <4>2, InsertAdds, RowFields DEF InsertScript
      <4> QED BY <3>1, <4>1, <4>2
    <3>4. PICK row \in watched' : row.script = req[r].cp
      BY <3>3
    <3>5. row = Row(req[r].cp, Created(req[r].cp))
      <4>1. IsRow(row)'
        BY <1>2 DEF TypeOK
      <4>2. row \in Rows /\ row.sigsetCreateTime = Created(row.script)
        BY <4>1, <1>3 DEF IsRow, Created, contract
      <4> QED BY <4>2, <3>4 DEF Rows, Row
    <3> QED BY <2>2, <3>2, <3>5, <1>3 DEF Stays, Created, contract
  <2> QED BY <2>1, <2>2
<1>8. AcceptedIsWatched'
  <2>1. \A i \in accepted' : Stays(i)'
    <3>1. accepted \subseteq 0..BuildingIndex /\ \A i \in accepted : Stays(i)
      BY <1>1, AcceptedStays DEF TypeOK
    <3>2. CASE AnswerDeposit(r)
      BY <3>1, <3>2, <1>1, <1>5, <1>6 DEF AnswerDeposit, At, AnswerStays
    <3>3. CASE accepted' = accepted
      BY <3>1, <3>3, <1>5
    <3> QED BY <3>2, <3>3
        DEF Receive, Serve, RequestFails, PostDeposit, GetCheckpoint, Get, ReadCheckpoint, CheckAddress,
            SelectScript, InsertScript, ReadTx, Reply
  <2> QED BY <2>1 DEF AcceptedIsWatched, Stays, Checkpoint, Created
<1>9. TodoHasExpired'
  BY <1>1, <1>3 DEF TodoHasExpired, contract, BuildingIndex, Created, Expired
<1> QED BY <1>2, <1>7, <1>8, <1>9 DEF IInv

\* A row that is deleted has expired, and what has expired takes no deposits.
LEMMA RemovalIInv ==
    ASSUME IInv, Removal \/ RemovalFails
    PROVE  IInv'
<1>1. TypeOK /\ AcceptedIsWatched /\ AnswerStays /\ TodoHasExpired
  BY DEF IInv
<1>2. TypeOK'
  BY <1>1, RemovalTypeOK
<1>3. UNCHANGED <<contract, req, accepted>>
  BY DEF Removal, RemovalFails, BeginRemoval, SelectRows, DeleteRow, RemovalDone
<1>4. \A i \in 0..BuildingIndex : Stays(i) => Stays(i)'
  <2>1. CASE \E row \in removal.todo : DeleteRow(row)
    <3> PICK row \in removal.todo : DeleteRow(row)
      BY <2>1
    <3> SUFFICES ASSUME NEW i \in 0..BuildingIndex, Stays(i)
                 PROVE  Stays(i)'
      OBVIOUS
    <3>1. CASE i = row.script
      <4>1. Created(i) + MaxAge < now + Skew /\ Created(i) \in Int /\ now \in Int
        BY <3>1, <1>1, CreatedType, Bounds DEF TodoHasExpired, Expired
      <4>2. ~(now <= Created(i) + MaxDepositAge)
        BY <4>1, AgeAssumption, ApiAssumption
      <4> QED BY <4>2, <1>3 DEF Stays, Created, contract
    <3>2. CASE i # row.script
      <4>1. Row(i, Created(i)) \in watched => Row(i, Created(i)) \in watched'
        BY <3>2, DeleteByScript, RowFields DEF DeleteRow
      <4> QED BY <4>1, <1>3 DEF Stays, Created, contract
    <3> QED BY <3>1, <3>2
  <2>2. CASE watched' = watched
    BY <2>2, <1>3 DEF Stays, Created, contract
  <2> QED BY <2>1, <2>2 DEF Removal, RemovalFails, BeginRemoval, SelectRows, RemovalDone
<1>5. AnswerStays'
  BY <1>1, <1>3, <1>4, ReqFields DEF AnswerStays
<1>6. AcceptedIsWatched'
  <2>1. accepted \subseteq 0..BuildingIndex /\ \A i \in accepted : Stays(i)
    BY <1>1, AcceptedStays DEF TypeOK
  <2>2. \A i \in accepted' : Stays(i)'
    BY <2>1, <1>3, <1>4
  <2> QED BY <2>2 DEF AcceptedIsWatched, Stays, Checkpoint, Created
<1>7. TodoHasExpired'
  <2>1. CASE SelectRows
    <3> SUFFICES ASSUME NEW row \in watched, Expired(row, removal.time)
                 PROVE  /\ row.script <= BuildingIndex
                        /\ row.sigsetCreateTime = Created(row.script)
                        /\ Expired(row, now + Skew)
      BY <2>1, <1>3 DEF SelectRows, TodoHasExpired, contract, BuildingIndex, Created, Expired
    <3>1. row \in Rows /\ row.script <= BuildingIndex /\ row.sigsetCreateTime = Created(row.script)
      BY <1>1 DEF TypeOK, IsRow, Created
    <3>2. removal.time \in Int /\ removal.time <= now + Skew /\ now + Skew \in Int
      BY <1>1, Bounds, ApiAssumption DEF TypeOK, RemovalOK
    <3>3. row.sigsetCreateTime \in Int
      BY <3>1, AgeAssumption DEF Rows
    <3> QED BY <3>1, <3>2, <3>3, AgeAssumption DEF Expired
  <2>2. CASE removal'.todo \subseteq removal.todo
    BY <2>2, <1>1, <1>3 DEF TodoHasExpired, contract, BuildingIndex, Created, Expired
  <2>3. SelectRows \/ removal'.todo \subseteq removal.todo
    <3>1. CASE BeginRemoval
      BY <3>1, <1>1 DEF BeginRemoval, TypeOK, RemovalOK
    <3>2. CASE \E row \in removal.todo : DeleteRow(row)
      BY <3>2, <1>1 DEF DeleteRow, TypeOK, RemovalOK
    <3>3. CASE RemovalDone \/ RemovalFails
      BY <3>3 DEF RemovalDone, RemovalFails, Resting
    <3> QED BY <3>1, <3>2, <3>3 DEF Removal
  <2> QED BY <2>1, <2>2, <2>3
<1> QED BY <1>2, <1>5, <1>6, <1>7 DEF IInv

LEMMA WorldIInv ==
    ASSUME IInv, World
    PROVE  IInv'
<1>1. TypeOK /\ AcceptedIsWatched /\ AnswerStays /\ TodoHasExpired
  BY DEF IInv
<1>2. TypeOK'
  BY <1>1, WorldTypeOK
<1>3. \A i \in 0..BuildingIndex : Created(i)' = Created(i)
  <2>1. Len(sigset) = BuildingIndex + 1 /\ sigset \in Seq(0..now)
    BY <1>1, Bounds DEF TypeOK, ContractOK
  <2>2. sigset' = sigset \/ sigset' = Append(sigset, now)
    BY DEF World, Tick, NewCheckpoint
  <2>3. BuildingIndex \in Nat
    BY <1>1, Bounds DEF Index
  <2>4. \A i \in 0..BuildingIndex : i + 1 \in 1..Len(sigset)
    BY <2>1, <2>3
  <2>5. \A n \in 1..Len(sigset) : sigset'[n] = sigset[n]
    BY <2>1, <2>2
  <2> QED BY <2>4, <2>5 DEF Created
<1>4. now <= now' /\ now \in Int /\ now' \in Int /\ BuildingIndex <= BuildingIndex'
  BY <1>1, Bounds DEF World, Tick, NewCheckpoint, TypeOK, ContractOK, BuildingIndex
<1>5. UNCHANGED <<watched, req, removal, accepted>>
  BY DEF World
<1>6. \A i \in 0..BuildingIndex : Stays(i) => Stays(i)'
  BY <1>1, <1>3, <1>4, <1>5, CreatedType, StaysOn
<1>7. AnswerStays'
  BY <1>1, <1>5, <1>6, ReqFields DEF AnswerStays
<1>8. AcceptedIsWatched'
  <2>1. accepted \subseteq 0..BuildingIndex /\ \A i \in accepted : Stays(i)
    BY <1>1, AcceptedStays DEF TypeOK
  <2>2. \A i \in accepted' : Stays(i)'
    BY <2>1, <1>5, <1>6
  <2> QED BY <2>2 DEF AcceptedIsWatched, Stays, Checkpoint, Created
<1>9. TodoHasExpired'
  <2> SUFFICES ASSUME NEW row \in removal.todo
               PROVE  /\ row.script <= BuildingIndex'
                      /\ row.sigsetCreateTime = Created(row.script)'
                      /\ Expired(row, now' + Skew)
    BY <1>5 DEF TodoHasExpired, Expired
  <2>1. row \in Rows /\ row.script <= BuildingIndex /\ row.sigsetCreateTime = Created(row.script) /\ Expired(row, now + Skew)
    BY <1>1 DEF TodoHasExpired, TypeOK, RemovalOK
  <2>2. row.script \in 0..BuildingIndex /\ row.sigsetCreateTime \in Int /\ BuildingIndex \in Int /\ BuildingIndex' \in Int
    BY <2>1, <1>1, <1>2, Bounds, AgeAssumption DEF Rows, Index, TypeOK, ContractOK, BuildingIndex
  <2> QED BY <2>1, <2>2, <1>3, <1>4, AgeAssumption, ApiAssumption DEF Expired
<1> QED BY <1>2, <1>7, <1>8, <1>9 DEF IInv

\* An address that was answered OK is watched for as long as the contract takes
\* deposits to it: AcceptedIsWatched, for every instance in which max_age exceeds
\* max_deposit_age by what the two clocks may differ.
THEOREM AddressStaysWatched == Spec => []AcceptedIsWatched
<1>1. Init => IInv
  <2> SUFFICES ASSUME Init
               PROVE  IInv
    OBVIOUS
  <2>1. TypeOK
    BY InitTypeOK
  <2>2. AnswerStays
    BY DEF Init, AnswerStays, Idle
  <2> QED BY <2>1, <2>2 DEF Init, IInv, AcceptedIsWatched, TodoHasExpired, Resting
<1>2. IInv /\ [Next]_vars => IInv'
  <2> SUFFICES ASSUME IInv, [Next]_vars
               PROVE  IInv'
    OBVIOUS
  <2>1. TypeOK'
    BY TypeOKStep DEF IInv
  <2>2. CASE Start \/ UNCHANGED vars
    BY <2>1, <2>2
    DEF Start, vars, contract, IInv, AcceptedIsWatched, AnswerStays, TodoHasExpired, Stays, Created, Checkpoint,
        Expired, BuildingIndex
  <2>3. CASE Crash
    <3>1. AcceptedIsWatched'
      BY <2>3 DEF Crash, IInv, AcceptedIsWatched, Checkpoint, contract
    <3>2. AnswerStays' /\ TodoHasExpired'
      BY <2>3 DEF Crash, AnswerStays, TodoHasExpired, Idle, Resting
    <3> QED BY <2>1, <3>1, <3>2 DEF IInv
  <2> QED BY <2>2, <2>3, ServeIInv, RemovalIInv, WorldIInv DEF Next
<1>3. IInv => AcceptedIsWatched
  BY DEF IInv
<1> QED BY <1>1, <1>2, <1>3, PTL DEF Spec

--------------------------------------------------------------------------------
(* Answers to GET /checkpoint *)

\* Two queries make one answer: between them the request keeps the index it
\* asked for; one that has not begun has nothing to disagree about.
OfOneCheckpoint(l) ==
    /\ l.at = "idle" => l.index = None /\ l.cp <= l.tx
    /\ l.at = "tx" => (l.index # None => l.cp = l.index)
    /\ l.at = "reply" => (l.index # None => l.cp = l.index /\ l.tx = l.index) /\ l.cp <= l.tx

AnswersAgree == TypeOK /\ \A r \in Request : OfOneCheckpoint(req[r])

LEMMA IdleAgrees == OfOneCheckpoint(Idle)
BY DEF OfOneCheckpoint, Idle, None

\* Between two queries the checkpoints only become more, so that the building
\* one is none before the one that was read.
LEMMA ServeAgrees ==
    ASSUME AnswersAgree, NEW r \in Request, Receive(r) \/ Serve(r) \/ RequestFails(r)
    PROVE  OfOneCheckpoint(req'[r]) /\ \A q \in Request \ {r} : req'[q] = req[q]
<1>1. TypeOK /\ OfOneCheckpoint(req[r]) /\ req \in [Request -> Locals] /\ req[r] \in Locals
  BY DEF AnswersAgree, TypeOK, RequestsOK
<1>2. CASE End(r)
  BY <1>1, <1>2, IdleAgrees DEF End
<1>3. CASE Get(r)
  BY <1>1, <1>3 DEF Get, At, OfOneCheckpoint, Locals
<1>4. CASE \E i \in Index \cup {None} : GetCheckpoint(r, i)
  BY <1>1, <1>4 DEF GetCheckpoint, CheckpointByIndex, Checkpoint, OfOneCheckpoint
<1>5. CASE ReadTx(r)
  <2>1. req[r].cp \in Int /\ req[r].cp <= BuildingIndex /\ BuildingIndex \in Int
    BY <1>1, ReqFields, Bounds DEF Index
  <2>2. req[r].at = "tx" /\ req'[r].at = "reply" /\ req'[r].cp = req[r].cp /\ req'[r].index = req[r].index
    BY <1>1, <1>5 DEF ReadTx, At, Locals
  <2>3. req'[r].tx = IF req[r].index # None THEN req[r].index ELSE BuildingIndex
    BY <1>1, <1>5 DEF ReadTx, CheckpointTx, BuildingTx, Locals
  <2>4. \A q \in Request \ {r} : req'[q] = req[q]
    BY <1>1, <1>5 DEF ReadTx
  <2> QED BY <1>1, <2>1, <2>2, <2>3, <2>4 DEF OfOneCheckpoint
\* The handler of deposits answers elsewhere.
<1>6. ASSUME req'[r].at \notin {"idle", "tx", "reply"}, \A q \in Request \ {r} : req'[q] = req[q]
      PROVE  OfOneCheckpoint(req'[r]) /\ \A q \in Request \ {r} : req'[q] = req[q]
  BY <1>6 DEF OfOneCheckpoint
<1>7. CASE \E a, i \in Index : PostDeposit(r, a, i)
  BY <1>1, <1>6, <1>7 DEF PostDeposit
<1>8. CASE (ReadCheckpoint(r) \/ CheckAddress(r)) /\ ~End(r)
  BY <1>1, <1>6, <1>8 DEF ReadCheckpoint, CheckAddress, Locals
<1>9. CASE SelectScript(r) \/ InsertScript(r)
  BY <1>1, <1>6, <1>9 DEF SelectScript, InsertScript, Goto, Locals
<1> QED
  BY <1>2, <1>3, <1>4, <1>5, <1>7, <1>8, <1>9 DEF Receive, Serve, RequestFails, AnswerDeposit, Reply

\* The sigset and the transaction of an answer are those of one checkpoint, or
\* the transaction is no older: CheckpointAnswerAgrees, for any number of
\* requests and of checkpoints that begin between the two queries.
THEOREM CheckpointAnswersAgree == Spec => []CheckpointAnswerAgrees
<1>1. Init => AnswersAgree
  BY InitTypeOK, IdleAgrees DEF Init, AnswersAgree
<1>2. AnswersAgree /\ [Next]_vars => AnswersAgree'
  <2> SUFFICES ASSUME AnswersAgree, [Next]_vars
               PROVE  AnswersAgree'
    OBVIOUS
  <2>1. TypeOK'
    BY TypeOKStep DEF AnswersAgree
  <2>2. CASE \E r \in Request : Receive(r) \/ Serve(r) \/ RequestFails(r)
    BY <2>1, <2>2, ServeAgrees DEF AnswersAgree
  <2>3. CASE Crash
    BY <2>1, <2>3, IdleAgrees DEF Crash, AnswersAgree
  <2>4. CASE UNCHANGED req
    BY <2>1, <2>4 DEF AnswersAgree
  <2>5. CASE Start \/ World \/ Removal \/ RemovalFails \/ UNCHANGED vars
    BY <2>4, <2>5
    DEF Start, World, Removal, RemovalFails, BeginRemoval, SelectRows, DeleteRow, RemovalDone, vars
  <2> QED BY <2>2, <2>3, <2>5 DEF Next
<1>3. AnswersAgree => CheckpointAnswerAgrees
  BY DEF AnswersAgree, OfOneCheckpoint, CheckpointAnswerAgrees
<1> QED BY <1>1, <1>2, <1>3, PTL DEF Spec

================================================================================
