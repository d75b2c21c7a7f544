-------------------------- MODULE RelayCheckpoint_proofs -----------------------
(***************************************************************************)
(* relayCheckpoints takes no checkpoint for sent whose transaction the     *)
(* node has not taken; scanForTxid misses no transaction of its range; and *)
(* a proof of relayCheckpointConf is refused for a reorganisation only:    *)
(* for any number of checkpoints, failed requests, restarts, evictions and *)
(* reorganisations.                                                        *)
(***************************************************************************)
EXTENDS RelayCheckpoint, SequenceTheorems, WellFoundedInduction, TLAPS

\* Between the node's answer and the key, cur is a checkpoint whose
\* transaction the node has taken.
AnswerIsKept == pc = "mark" => cur \in seen

IInv == MarkedCheckpointWasSent /\ AnswerIsKept

LEMMA Initially == Init => IInv
BY DEF Init, IInv, MarkedCheckpointWasSent, AnswerIsKept

LEMMA StepKeeps == IInv /\ Step => IInv'
<1> SUFFICES ASSUME IInv, Step PROVE IInv'
  OBVIOUS
<1> USE DEF IInv, MarkedCheckpointWasSent, AnswerIsKept, Goto
<1>1. CASE RelayHeaders
  BY <1>1 DEF RelayHeaders, btc, keys, sends
<1>2. CASE ListCheckpoints
  BY <1>2 DEF ListCheckpoints, btc, keys
<1>3. ASSUME NEW i \in Index, SendCheckpoint(i) PROVE IInv'
  BY <1>3 DEF SendCheckpoint, keys
<1>4. ASSUME NEW i \in Index, SendFails(i) PROVE IInv'
  BY <1>4 DEF SendFails, keys
<1>5. CASE MarkSent
  BY <1>5 DEF MarkSent, btc
<1>6. CASE SendDone
  BY <1>6 DEF SendDone, btc, keys, sends
<1>7. CASE ReadConfirmed \/ ReadUnhandled
  BY <1>7 DEF ReadConfirmed, ReadUnhandled, btc, keys, sends
<1>8. CASE PickIndex \/ ReadHeight \/ ScanForTxid
  BY <1>8 DEF PickIndex, ReadHeight, ScanForTxid, ConfReturns, btc, keys, sends
<1>9. CASE RelayCheckpointTx \/ MarkConf
  BY <1>9 DEF RelayCheckpointTx, MarkConf, ConfReturns, btc, keys, sends
<1> QED
  BY <1>1, <1>2, <1>3, <1>4, <1>5, <1>6, <1>7, <1>8, <1>9 DEF Step

\* What the node has taken it has taken for good, whatever its chain and its
\* mempool do after.
LEMMA EnvironmentKeeps == IInv /\ Environment => IInv'
<1> SUFFICES ASSUME IInv, Environment PROVE IInv'
  OBVIOUS
<1> USE DEF IInv, MarkedCheckpointWasSent, AnswerIsKept, keys, sends
<1>1. CASE Complete \/ LightClientFollows
  BY <1>1 DEF Complete, LightClientFollows, btc
<1>2. ASSUME NEW i \in Index, OtherRelayBroadcast(i) PROVE IInv'
  BY <1>2 DEF OtherRelayBroadcast
<1>3. ASSUME NEW i \in Index, OtherRelayConf(i) \/ Evict(i) PROVE IInv'
  BY <1>3 DEF OtherRelayConf, Evict, btc
<1>4. CASE Mine
  BY <1>4 DEF Mine
<1>5. ASSUME NEW f \in 0..MaxHeight, Reorg(f) PROVE IInv'
  BY <1>5 DEF Reorg
<1> QED BY <1>1, <1>2, <1>3, <1>4, <1>5 DEF Environment

LEMMA Inductive == IInv /\ [Next]_vars => IInv'
<1> SUFFICES ASSUME IInv, [Next]_vars PROVE IInv'
  OBVIOUS
<1> USE DEF IInv, MarkedCheckpointWasSent, AnswerIsKept, keys, sends, btc
<1>1. CASE Step
  BY <1>1, StepKeeps
<1>2. CASE StepFails
  BY <1>2 DEF StepFails, ListFails, ConfFails, ConfReturns, Goto
<1>3. CASE Crash
  BY <1>3 DEF Crash, ConfReturns, Goto
<1>4. CASE Environment
  BY <1>4, EnvironmentKeeps
<1>5. CASE UNCHANGED vars
  BY <1>5 DEF vars
<1> QED BY <1>1, <1>2, <1>3, <1>4, <1>5 DEF Next

\* The key relay-checkpoint-i is inserted (relayer 620-627) only for a
\* checkpoint whose transaction the node has taken, for any number of
\* checkpoints and of failures.
THEOREM NothingIsMarkedUnsent == Spec => []MarkedCheckpointWasSent
<1>1. Spec => []IInv
  BY Initially, Inductive, PTL DEF Spec
<1>2. IInv => MarkedCheckpointWasSent
  BY DEF IInv
<1> QED BY <1>1, <1>2, PTL

--------------------------------------------------------------------------------
(* The least number of a set, in place of induction *)

LEMMA LeastUnder ==
    ASSUME NEW T, T \subseteq Nat, T # {}, NEW R, IsWellFoundedOn(R, Nat),
           \A x, y \in Nat : y < x => <<y, x>> \in R
    PROVE  \E n \in T : \A m \in T : n <= m
<1>1. PICK n \in T : \A m \in T : ~ (<<m, n>> \in R)
  BY WFMin
<1>2. ASSUME NEW m \in T
      PROVE  n <= m
  <2>1. m \in Nat /\ n \in Nat
    OBVIOUS
  <2>2. ~(m < n)
    BY <1>1, <2>1
  <2> QED BY <2>1, <2>2
<1> QED BY <1>2

LEMMA LessThan == \A x, y \in Nat : y < x => <<y, x>> \in OpToRel(<, Nat)
BY ZenonT(20) DEF OpToRel

LEMMA LeastNumber ==
    ASSUME NEW T, T \subseteq Nat, T # {}
    PROVE  \E n \in T : \A m \in T : n <= m
BY LessThan, LeastUnder, NatLessThanWellFounded, Zenon

LEMMA GreatestNumber ==
    ASSUME NEW base \in Nat, NEW T, T \subseteq 0..base, T # {}
    PROVE  \E n \in T : \A m \in T : m <= n
<1> DEFINE D == {base - n : n \in T}
<1>1. D \subseteq Nat /\ D # {}
  <2>1. \A n \in T : base - n \in Nat
    OBVIOUS
  <2>2. PICK n : n \in T
    OBVIOUS
  <2>3. base - n \in D
    BY <2>2
  <2> QED BY <2>1, <2>3
<1> HIDE DEF D
<1>2. PICK d \in D : \A e \in D : d <= e
  BY <1>1, LeastNumber
<1>3. PICK n \in T : d = base - n
  BY DEF D
<1>4. ASSUME NEW m \in T
      PROVE  m <= n
  <2>1. base - m \in D
    BY DEF D
  <2>2. base - n <= base - m /\ m \in Int /\ n \in Int
    BY <1>2, <1>3, <2>1
  <2> QED BY <2>2
<1> QED BY <1>4

--------------------------------------------------------------------------------
(* Chains *)

LEMMA AncestorIsBlock ==
    ASSUME NEW b \in Block, NEW h \in 0..Height(b)
    PROVE  Ancestor(b, h) \in Block /\ Height(Ancestor(b, h)) = h
BY BoundAssumption DEF Block, Ancestor, Height

LEMMA MinedIsBlock ==
    ASSUME NEW b \in Block, Height(b) >= 1
    PROVE  /\ Append(b, b[Height(b)]) \in Block
           /\ Height(Append(b, b[Height(b)])) = Height(b) + 1
<1>1. b[Height(b)] \in 0..MaxForks
  <2>1. b \in Seq(0..MaxForks) /\ Len(b) \in 1..Len(b)
    BY DEF Block, Height
  <2> QED BY <2>1, ElementOfSeq DEF Height
<1> QED BY <1>1 DEF Block, Height

\* A branch of n blocks with a label of its own.
LEMMA BranchIsBlock ==
    ASSUME NEW b \in Block, NEW f \in 0..Height(b), NEW n \in Nat, NEW label \in 0..MaxForks
    PROVE  /\ Ancestor(b, f) \o [k \in 1..n |-> label] \in Block
           /\ Height(Ancestor(b, f) \o [k \in 1..n |-> label]) = f + n
<1>1. Ancestor(b, f) \in Block /\ Height(Ancestor(b, f)) = f
  BY AncestorIsBlock
<1> DEFINE new == [k \in 1..n |-> label]
<1>2. new \in Seq(0..MaxForks) /\ Len(new) = n
  OBVIOUS
<1> QED BY <1>1, <1>2 DEF Block, Height

--------------------------------------------------------------------------------
(* scanForTxid *)

Hits(tip, i, base) == {h \in Oldest(base)..base : Ancestor(tip, h) \in minedIn[i]}

\* The body of ScanFrom's recursion.
Batch(tip, i, from, base) ==
    IF Height(tip) - base >= ScanBlocks THEN Null
    ELSE IF Hits(tip, i, base) # {}
      THEN Ancestor(tip, CHOOSE h \in Hits(tip, i, base) : \A g \in Hits(tip, i, base) : g <= h)
    ELSE IF Oldest(base) = base THEN Null
    ELSE from[Oldest(base)]

\* from is what scanForTxid finds from each base up to n.
Scans(tip, i, from, n) == from = [base \in 1..n |-> Batch(tip, i, from, base)]

\* A batch goes on from a lower block, or is the last.
LEMMA OldestIsBelow ==
    ASSUME NEW base \in Nat, base >= 1
    PROVE  Oldest(base) \in 1..base
BY ScanAssumption DEF Oldest

\* The recursion has a solution on every prefix: the least n without one would
\* extend the one before it.
LEMMA ScanExists ==
    ASSUME NEW tip, NEW i, NEW n \in Nat
    PROVE  \E from : Scans(tip, i, from, n)
<1> DEFINE T == {k \in Nat : ~ \E from : Scans(tip, i, from, k)}
<1> SUFFICES ASSUME T # {}
             PROVE  FALSE
  OBVIOUS
<1>1. PICK k \in T : \A m \in T : k <= m
  <2>1. T \subseteq Nat
    OBVIOUS
  <2> HIDE DEF T
  <2> QED BY <2>1, LeastNumber
<1>2. k # 0
  <2>1. Scans(tip, i, [base \in 1..0 |-> Null], 0)
    BY DEF Scans
  <2> QED BY <2>1
<1>3. k \in Nat /\ k - 1 \in Nat /\ k - 1 \notin T
  BY <1>1, <1>2
<1>4. PICK g : Scans(tip, i, g, k - 1)
  BY <1>3
<1> DEFINE from == [base \in 1..k |-> IF base = k THEN Batch(tip, i, g, k) ELSE g[base]]
<1>5. ASSUME NEW base \in 1..k
      PROVE  from[base] = Batch(tip, i, from, base)
  <2>1. Oldest(base) \in 1..base
    BY <1>3, OldestIsBelow
  <2>2. Oldest(base) # base => from[Oldest(base)] = g[Oldest(base)]
    BY <2>1, <1>3
  <2>3. Batch(tip, i, from, base) = Batch(tip, i, g, base)
    <3> HIDE DEF from
    <3>1. CASE Oldest(base) = base
      BY <3>1 DEF Batch
    <3>2. CASE Oldest(base) # base
      BY <3>2, <2>2 DEF Batch
    <3> QED BY <3>1, <3>2
  <2>4. from[base] = Batch(tip, i, g, base)
    <3>1. CASE base = k
      BY <3>1
    <3>2. CASE base # k
      <4>1. base \in 1..(k - 1)
        BY <3>2, <1>3
      <4>2. g[base] = Batch(tip, i, g, base)
        BY <4>1, <1>4 DEF Scans
      <4> QED BY <4>2, <3>2
    <3> QED BY <3>1, <3>2
  <2> QED BY <2>3, <2>4
<1>6. Scans(tip, i, from, k)
  <2> HIDE DEF from
  <2>1. from = [base \in 1..k |-> from[base]]
    BY DEF from
  <2> QED BY <2>1, <1>5 DEF Scans
<1> QED BY <1>6

\* What ScanFrom is: the recursion, from the tip.
LEMMA ScanFromIs ==
    ASSUME NEW tip, NEW i, Height(tip) \in Nat
    PROVE  \E from : Scans(tip, i, from, Height(tip)) /\ ScanFrom(tip, i) = from[Height(tip)]
<1> DEFINE from == CHOOSE f : Scans(tip, i, f, Height(tip))
<1>1. Scans(tip, i, from, Height(tip))
  BY ScanExists
<1>2. ScanFrom(tip, i) = from[Height(tip)]
  BY DEF ScanFrom, Scans, Batch, Hits
<1> QED BY <1>1, <1>2

\* What a batch finds is a block of the chain that holds the transaction.
LEMMA BatchHit ==
    ASSUME NEW tip, NEW i, NEW base \in Nat, base >= 1, Hits(tip, i, base) # {}
    PROVE  \E h \in Hits(tip, i, base) :
              /\ h \in 1..base /\ Ancestor(tip, h) \in minedIn[i]
              /\ h = CHOOSE h1 \in Hits(tip, i, base) : \A g \in Hits(tip, i, base) : g <= h1
<1>1. Oldest(base) \in 1..base
  BY OldestIsBelow
<1>2. \A h \in Hits(tip, i, base) : h \in 1..base /\ Ancestor(tip, h) \in minedIn[i]
  BY <1>1 DEF Hits
<1>3. Hits(tip, i, base) \subseteq 0..base
  BY <1>2
<1>4. \E h \in Hits(tip, i, base) : \A g \in Hits(tip, i, base) : g <= h
  BY <1>3, GreatestNumber
<1> QED BY <1>2, <1>4

LEMMA ScanIsBlock ==
    ASSUME NEW tip \in Block, Height(tip) >= 1, NEW i
    PROVE  ScanFrom(tip, i) \in Block
<1> DEFINE n == Height(tip)
<1>1. n \in Nat
  BY DEF Block, Height
<1>2. PICK from : Scans(tip, i, from, n) /\ ScanFrom(tip, i) = from[n]
  BY <1>1, ScanFromIs
<1> DEFINE T == {base \in Nat : base \in 1..n /\ from[base] \notin Block}
<1>3. T = {}
  <2> SUFFICES ASSUME T # {}
               PROVE  FALSE
    OBVIOUS
  <2>1. PICK base \in T : \A m \in T : base <= m
    <3>1. T \subseteq Nat
      OBVIOUS
    <3> HIDE DEF T
    <3> QED BY <3>1, LeastNumber
  <2>2. base \in 1..n /\ from[base] = Batch(tip, i, from, base)
    BY <2>1, <1>2 DEF Scans
  <2>3. Oldest(base) \in 1..base
    BY <2>1, OldestIsBelow
  <2>4. Oldest(base) # base => from[Oldest(base)] \in Block
    <3> SUFFICES ASSUME Oldest(base) # base, from[Oldest(base)] \notin Block
                 PROVE  FALSE
      OBVIOUS
    <3>1. Oldest(base) \in Nat /\ Oldest(base) \in 1..n /\ Oldest(base) < base
      BY <1>1, <2>2, <2>3
    <3>2. Oldest(base) \in T
      BY <3>1
    <3> QED BY <2>1, <2>2, <3>1, <3>2
  <2>5. Null \in Block
    BY EmptySeq DEF Null, Block
  <2>6. ASSUME Hits(tip, i, base) # {}
        PROVE  Ancestor(tip, CHOOSE h \in Hits(tip, i, base) : \A g \in Hits(tip, i, base) : g <= h) \in Block
    <3>1. PICK h \in 1..base :
              h = CHOOSE h1 \in Hits(tip, i, base) : \A g \in Hits(tip, i, base) : g <= h1
      BY <2>2, <2>6, BatchHit
    <3>2. Ancestor(tip, h) \in Block
      BY <2>2, <3>1, <1>1, AncestorIsBlock
    <3> QED BY <3>1, <3>2
  <2>7. Batch(tip, i, from, base) \in Block
    BY <2>4, <2>5, <2>6 DEF Batch
  <2> QED BY <2>1, <2>2, <2>7
<1> QED BY <1>1, <1>2, <1>3

\* scanForTxid finds a transaction that lies no deeper than ScanBlocks under
\* the tip: by induction on the base of the batch, as each batch begins with
\* the last block of the one before.
LEMMA ScanFinds ==
    ASSUME NEW tip, NEW i, Height(tip) \in Nat, NEW h \in 1..Height(tip),
           Ancestor(tip, h) \in minedIn[i], Height(tip) - h <= ScanBlocks
    PROVE  ScanFrom(tip, i) \in minedIn[i]
<1> DEFINE n == Height(tip)
<1>1. PICK from : Scans(tip, i, from, n) /\ ScanFrom(tip, i) = from[n]
  BY ScanFromIs
<1> DEFINE T == {base \in Nat : base \in h..n /\ n - base < ScanBlocks /\ from[base] \notin minedIn[i]}
<1>2. T = {}
  <2> SUFFICES ASSUME T # {}
               PROVE  FALSE
    OBVIOUS
  <2>1. PICK base \in T : \A m \in T : base <= m
    <3>1. T \subseteq Nat
      OBVIOUS
    <3> HIDE DEF T
    <3> QED BY <3>1, LeastNumber
  <2>2. base \in Nat /\ base \in 1..n /\ h <= base /\ ~(n - base >= ScanBlocks)
    BY <2>1, ScanAssumption
  <2>3. from[base] = Batch(tip, i, from, base)
    BY <2>2, <1>1 DEF Scans
  <2>4. Oldest(base) \in 1..base
    BY <2>2, OldestIsBelow
  <2>5. CASE Hits(tip, i, base) # {}
    <3>1. PICK hit \in Hits(tip, i, base) :
              /\ Ancestor(tip, hit) \in minedIn[i]
              /\ hit = CHOOSE h1 \in Hits(tip, i, base) : \A g \in Hits(tip, i, base) : g <= h1
      BY <2>2, <2>5, BatchHit
    <3>2. Batch(tip, i, from, base) = Ancestor(tip, hit)
      BY <2>2, <2>5, <3>1 DEF Batch
    <3> QED BY <2>1, <2>3, <3>1, <3>2
  <2>6. CASE Hits(tip, i, base) = {}
    <3>1. h < Oldest(base)
      BY <2>2, <2>4, <2>6 DEF Hits
    <3>2. Oldest(base) # base
      <4>1. Oldest(base) = base => base = 1
        BY <2>2, ScanAssumption DEF Oldest
      <4> QED BY <4>1, <3>1
    <3>3. from[base] = from[Oldest(base)]
      BY <2>2, <2>3, <2>6, <3>2 DEF Batch
    <3>4. Oldest(base) \in h..n /\ n - Oldest(base) < ScanBlocks
      BY <2>2, <2>4, <3>1, ScanAssumption
    <3>5. Oldest(base) \in T
      BY <2>1, <2>4, <3>3, <3>4
    <3> QED BY <2>1, <2>2, <2>4, <3>2, <3>5
  <2> QED BY <2>5, <2>6
<1>3. n \in h..n /\ n - n < ScanBlocks
  BY ScanAssumption
<1> QED BY <1>1, <1>2, <1>3

\* A transaction in any of the last ScanBlocks blocks is found, on every chain
\* and wherever else it is mined: ScanFindsTransaction follows from the types.
LEMMA ScanIsComplete == TypeOK => ScanFindsTransaction
<1> SUFFICES ASSUME TypeOK, NEW i \in Index, NEW h \in 1..Height(side),
                    Ancestor(side, h) \in minedIn[i], Height(side) - h <= ScanBlocks
             PROVE  ScanFrom(side, i) \in minedIn[i]
  BY DEF ScanFindsTransaction
<1>1. Height(side) \in Nat
  BY DEF TypeOK, Block, Height
<1> QED BY <1>1, ScanFinds

--------------------------------------------------------------------------------
(* Types, and the depth of a proof *)

\* The light client never falls back below the height that was read of it.
HeightsOK ==
    /\ Height(chain) >= 1 /\ Height(side) >= 1
    /\ pc \in {"scan", "proof"} => btcHeight <= Height(side)

FoundIsBuried == pc = "proof" => Buried(found)

DepthInv == IInv /\ TypeOK /\ HeightsOK /\ FoundIsBuried

LEMMA DepthInit == Init => DepthInv
<1> SUFFICES ASSUME Init
             PROVE  DepthInv
  OBVIOUS
<1> DEFINE start == [h \in 1..InitHeight |-> 0]
<1>1. start \in Seq(0..MaxForks) /\ Len(start) = InitHeight
  BY BoundAssumption, HeightAssumption
<1> HIDE DEF start
<1>2. chain = start /\ side = start /\ pc = "header"
  BY DEF Init, start
<1>3. chain \in Block /\ side \in Block /\ Height(chain) >= 1 /\ Height(side) >= 1
  BY <1>1, <1>2, HeightAssumption DEF Block, Height
<1>4. Null \in Block
  BY EmptySeq DEF Null, Block
<1>5. 0 \in Index /\ 0 \in 0..MaxForks /\ 0 \in 0..MaxFaults
  BY BoundAssumption DEF Index
<1>6. TypeOK
  BY <1>3, <1>4, <1>5 DEF Init, TypeOK, MaybeIndex, PCs
<1> QED BY <1>2, <1>3, <1>6, Initially DEF DepthInv, HeightsOK, FoundIsBuried

LEMMA ReturnTypes ==
    ASSUME TypeOK, ConfReturns
    PROVE  /\ pc' = "header"
           /\ confirmedIndex' \in MaybeIndex /\ unconfirmedIndex' \in MaybeIndex
           /\ unconfIndex' \in Index /\ btcHeight' \in Nat /\ found' \in Block
<1>1. Null \in Block /\ 0 \in Index
  BY EmptySeq, BoundAssumption DEF Null, Block, Index
<1> QED BY <1>1 DEF ConfReturns, Goto, MaybeIndex

LEMMA FaultType ==
    ASSUME faults \in 0..MaxFaults, Fault
    PROVE  faults' \in 0..MaxFaults
BY BoundAssumption DEF Fault

\* The steps of relayCheckpoints: the key that is inserted is a checkpoint's,
\* since the node has taken it.
LEMMA SendTypes ==
    ASSUME TypeOK, AnswerIsKept,
           \/ RelayHeaders \/ ListCheckpoints \/ ListFails \/ MarkSent \/ SendDone
           \/ \E i \in Index : SendCheckpoint(i) \/ SendFails(i)
    PROVE  TypeOK' /\ UNCHANGED <<chain, side>> /\ pc' \notin {"scan", "proof"}
<1> USE DEF TypeOK, Goto, btc, remote, keys, sends, conf
<1>1. CASE RelayHeaders \/ SendDone
  BY <1>1 DEF RelayHeaders, SendDone, PCs
<1>2. CASE ListCheckpoints
  <2>1. todo' \subseteq Index
    BY <1>2 DEF ListCheckpoints, CompletedCheckpointTxs
  <2> QED BY <1>2, <2>1 DEF ListCheckpoints, PCs
<1>3. CASE ListFails
  BY <1>3, FaultType DEF ListFails, PCs
<1>4. CASE MarkSent
  <2>1. cur \in Index
    BY <1>4 DEF MarkSent, AnswerIsKept
  <2> QED BY <1>4, <2>1 DEF MarkSent, PCs, MaybeIndex
<1>5. ASSUME NEW i \in Index, SendCheckpoint(i)
      PROVE  TypeOK' /\ UNCHANGED <<chain, side>> /\ pc' \notin {"scan", "proof"}
  BY <1>5 DEF SendCheckpoint, PCs, MaybeIndex
<1>6. ASSUME NEW i \in Index, SendFails(i)
      PROVE  TypeOK' /\ UNCHANGED <<chain, side>> /\ pc' \notin {"scan", "proof"}
  <2>1. faults' \in 0..MaxFaults
    BY <1>6, FaultType DEF SendFails
  <2>2. mempool' \subseteq Index /\ seen' \subseteq Index
    BY <1>6 DEF SendFails
  <2> QED BY <1>6, <2>1, <2>2 DEF SendFails
<1> QED BY <1>1, <1>2, <1>3, <1>4, <1>5, <1>6

\* The steps of relayCheckpointConf.
LEMMA ConfTypes ==
    ASSUME TypeOK, Height(side) >= 1,
           \/ ReadConfirmed \/ ReadUnhandled \/ PickIndex \/ ReadHeight \/ ScanForTxid
           \/ RelayCheckpointTx \/ MarkConf \/ ConfFails \/ Crash
    PROVE  TypeOK' /\ UNCHANGED <<chain, side>>
<1> USE DEF TypeOK, Goto, btc, remote, keys, sends, conf
<1>1. CASE ReadConfirmed
  BY <1>1 DEF ReadConfirmed, PCs
<1>2. CASE ReadUnhandled
  <2>1. UnhandledConfirmedIndex \in MaybeIndex
    BY BoundAssumption DEF UnhandledConfirmedIndex, MaybeIndex, Index, None
  <2> QED BY <1>2, <2>1 DEF ReadUnhandled, PCs
<1>3. CASE PickIndex
  <2>1. CASE ConfReturns
    BY <1>3, <2>1, ReturnTypes DEF PickIndex, PCs
  <2>2. CASE ~NothingToConfirm
    <3>1. completed \in Index /\ unconfirmedIndex \in Index
      BY <2>2 DEF NothingToConfirm, MaybeIndex
    <3>2. NextIndex \in Index
      BY <3>1, ScanAssumption, BoundAssumption DEF NextIndex, Index
    <3> QED BY <1>3, <2>2, <3>2 DEF PickIndex, PCs
  <2> QED BY <1>3, <2>1, <2>2 DEF PickIndex
<1>4. CASE ReadHeight
  <2>1. CASE ConfReturns
    BY <1>4, <2>1, ReturnTypes DEF ReadHeight, PCs
  <2>2. CASE ~ConfReturns
    <3>1. Height(side) \in Nat
      BY DEF Block, Height
    <3> QED BY <1>4, <2>2, <3>1 DEF ReadHeight, PCs
  <2> QED BY <2>1, <2>2
<1>5. CASE ScanForTxid
  <2>1. CASE ConfReturns
    BY <1>5, <2>1, ReturnTypes DEF ScanForTxid, PCs
  <2>2. CASE ~ConfReturns
    <3>1. ScanFrom(side, unconfIndex) \in Block
      BY ScanIsBlock
    <3> QED BY <1>5, <2>2, <3>1 DEF ScanForTxid, PCs
  <2> QED BY <2>1, <2>2
<1>6. CASE RelayCheckpointTx
  <2>1. faults' \in 0..MaxFaults /\ confirmed' \in MaybeIndex
    BY <1>6, FaultType DEF RelayCheckpointTx, MaybeIndex
  <2> QED BY <1>6, <2>1 DEF RelayCheckpointTx, PCs
<1>7. CASE MarkConf
  BY <1>7, ReturnTypes DEF MarkConf, PCs
<1>8. CASE ConfFails
  BY <1>8, ReturnTypes, FaultType DEF ConfFails, PCs
<1>9. CASE Crash
  BY <1>9, ReturnTypes, FaultType DEF Crash, PCs, MaybeIndex
<1> QED BY <1>1, <1>2, <1>3, <1>4, <1>5, <1>6, <1>7, <1>8, <1>9

LEMMA NodeTypes ==
    ASSUME TypeOK, NEW best \in Block, NEW f, NodeMovesTo(best, f)
    PROVE  chain' = best /\ minedIn' \in [Index -> SUBSET Block] /\ mempool' \subseteq Index
<1>1. PICK ts \in SUBSET Index :
          /\ minedIn' = [i \in Index |-> IF i \in ts THEN minedIn[i] \cup {best} ELSE minedIn[i]]
          /\ mempool' \subseteq Index
  BY DEF NodeMovesTo, TypeOK
<1>2. minedIn' \in [Index -> SUBSET Block]
  BY <1>1 DEF TypeOK
<1> QED BY <1>1, <1>2 DEF NodeMovesTo

LEMMA EnvironmentTypes ==
    ASSUME TypeOK, HeightsOK, Environment
    PROVE  /\ TypeOK' /\ UNCHANGED <<pc, btcHeight, found>>
           /\ Height(side) <= Height(side') /\ Height(chain) <= Height(chain')
<1> USE DEF TypeOK, btc, remote, keys, sends, conf
<1>1. Height(chain) \in Nat /\ Height(side) \in Nat
  BY DEF Block, Height
<1>2. CASE Complete
  <2>1. completed' \in MaybeIndex
    BY <1>2, BoundAssumption DEF Complete, MaybeIndex, Index, None
  <2> QED BY <1>1, <1>2, <2>1 DEF Complete
<1>3. ASSUME NEW i \in Index, OtherRelayBroadcast(i)
      PROVE  TypeOK' /\ UNCHANGED <<pc, btcHeight, found, side, chain>>
  BY <1>3, FaultType DEF OtherRelayBroadcast
<1>4. ASSUME NEW i \in Index, OtherRelayConf(i)
      PROVE  TypeOK' /\ UNCHANGED <<pc, btcHeight, found, side, chain>>
  BY <1>4 DEF OtherRelayConf, MaybeIndex
<1>5. ASSUME NEW i \in Index, Evict(i)
      PROVE  TypeOK' /\ UNCHANGED <<pc, btcHeight, found, side, chain>>
  BY <1>5, FaultType DEF Evict
<1>6. CASE LightClientFollows
  BY <1>1, <1>6 DEF LightClientFollows
<1>7. CASE Mine
  <2> DEFINE best == Append(chain, chain[Height(chain)])
  <2>1. best \in Block /\ Height(best) = Height(chain) + 1
    BY MinedIsBlock DEF HeightsOK
  <2> HIDE DEF best
  <2>2. chain' = best /\ minedIn' \in [Index -> SUBSET Block] /\ mempool' \subseteq Index
    BY <1>7, <2>1, NodeTypes DEF Mine, best
  <2> QED BY <1>1, <1>7, <2>1, <2>2 DEF Mine
<1>8. ASSUME NEW f \in 0..MaxHeight, Reorg(f)
      PROVE  /\ TypeOK' /\ UNCHANGED <<pc, btcHeight, found, side>>
             /\ Height(chain) <= Height(chain')
  <2> DEFINE best == Ancestor(chain, f) \o [k \in 1..(Height(chain) + 1 - f) |-> forks + 1]
  <2>1. f \in 0..Height(chain) /\ Height(chain) + 1 - f \in Nat /\ forks + 1 \in 0..MaxForks
    BY <1>1, <1>8, BoundAssumption DEF Reorg
  <2>2. best \in Block /\ Height(best) = f + (Height(chain) + 1 - f)
    <3> DEFINE n == Height(chain) + 1 - f
               label == forks + 1
    <3>1. chain \in Block /\ f \in 0..Height(chain) /\ n \in Nat /\ label \in 0..MaxForks
      BY <2>1
    <3> HIDE DEF n, label
    <3>2. /\ Ancestor(chain, f) \o [k \in 1..n |-> label] \in Block
          /\ Height(Ancestor(chain, f) \o [k \in 1..n |-> label]) = f + n
      BY <3>1, BranchIsBlock, Zenon
    <3> QED BY <3>2 DEF n, label
  <2>3. NodeMovesTo(best, f) /\ forks' = forks + 1 /\ UNCHANGED <<seen, remote, keys, pc, sends, conf, faults>>
    BY <1>8 DEF Reorg
  <2> HIDE DEF best
  <2>4. chain' = best /\ minedIn' \in [Index -> SUBSET Block] /\ mempool' \subseteq Index
    BY <2>2, <2>3, NodeTypes
  <2> QED BY <1>1, <2>1, <2>2, <2>3, <2>4
<1> QED BY <1>1, <1>2, <1>3, <1>4, <1>5, <1>6, <1>7, <1>8 DEF Environment

LEMMA DepthStep == DepthInv /\ [Next]_vars => DepthInv'
<1> SUFFICES ASSUME DepthInv, [Next]_vars
             PROVE  DepthInv'
  OBVIOUS
<1>1. IInv /\ IInv' /\ TypeOK /\ HeightsOK /\ FoundIsBuried
  BY Inductive DEF DepthInv
<1>2. Height(side) \in Nat /\ Height(chain) \in Nat /\ btcHeight \in Nat
  BY <1>1 DEF TypeOK, Block, Height
<1>3. CASE \/ RelayHeaders \/ ListCheckpoints \/ ListFails \/ MarkSent \/ SendDone
           \/ \E i \in Index : SendCheckpoint(i) \/ SendFails(i)
  <2>1. TypeOK' /\ UNCHANGED <<chain, side>> /\ pc' \notin {"scan", "proof"}
    BY <1>1, <1>3, SendTypes DEF IInv
  <2> QED BY <1>1, <2>1 DEF DepthInv, HeightsOK, FoundIsBuried
<1>4. ASSUME \/ ReadConfirmed \/ ReadUnhandled \/ PickIndex \/ ReadHeight \/ ScanForTxid
             \/ RelayCheckpointTx \/ MarkConf \/ ConfFails \/ Crash
      PROVE  DepthInv'
  <2>1. TypeOK' /\ UNCHANGED <<chain, side>>
    BY <1>1, <1>4, ConfTypes DEF HeightsOK
  <2>2. pc' \in {"scan", "proof"} => btcHeight' <= Height(side)
    BY <1>1, <1>2, <1>4
    DEF ReadConfirmed, ReadUnhandled, PickIndex, ReadHeight, ScanForTxid, RelayCheckpointTx, MarkConf, ConfFails,
        Crash, ConfReturns, Goto, HeightsOK
  <2>3. pc' = "proof" => Height(found') <= btcHeight' - MinConf
    BY <1>1, <1>4
    DEF ReadConfirmed, ReadUnhandled, PickIndex, ReadHeight, ScanForTxid, RelayCheckpointTx, MarkConf, ConfFails,
        Crash, ConfReturns, Goto, Buried
  <2> QED BY <1>1, <2>1, <2>2, <2>3 DEF DepthInv, HeightsOK, FoundIsBuried, Buried
<1>5. CASE Environment
  <2>1. /\ TypeOK' /\ UNCHANGED <<pc, btcHeight, found>>
        /\ Height(side) <= Height(side') /\ Height(chain) <= Height(chain')
    BY <1>1, <1>5, EnvironmentTypes
  <2>2. Height(side') \in Nat /\ Height(chain') \in Nat
    BY <2>1 DEF TypeOK, Block, Height
  <2> QED BY <1>1, <1>2, <2>1, <2>2 DEF DepthInv, HeightsOK, FoundIsBuried, Buried
<1>6. CASE UNCHANGED vars
  BY <1>1, <1>6
  DEF vars, btc, remote, keys, sends, conf, DepthInv, TypeOK, Mined, HeightsOK, FoundIsBuried, Buried
<1> QED BY <1>3, <1>4, <1>5, <1>6 DEF Next, Step, StepFails

LEMMA DepthInvariant == Spec => []DepthInv
BY DepthInit, DepthStep, PTL DEF Spec

\* Type correctness of the checkpoint loop for every instance.
THEOREM TypeCorrect == Spec => []TypeOK
<1>1. DepthInv => TypeOK
  BY DEF DepthInv
<1> QED BY <1>1, DepthInvariant, PTL

\* scanForTxid's overlapping batches leave no gap above ScanBlocks, for every
\* batch size of two or more, every depth, every chain and every placement of
\* the transactions on it: ScanFindsTransaction.
THEOREM ScanLeavesNoGap == Spec => []ScanFindsTransaction
<1> QED BY TypeCorrect, ScanIsComplete, PTL

\* Which step of the loop submits a proof, and what the contract makes of it.
LEMMA OnlyTheProofStepSubmits ==
    ASSUME TypeOK, Next, pc = "proof", pc' = "confMark"
    PROVE  RelayCheckpointTx
<1>1. CASE \/ RelayHeaders \/ ListCheckpoints \/ ListFails \/ MarkSent \/ SendDone
           \/ \E i \in Index : SendCheckpoint(i) \/ SendFails(i)
  BY <1>1 DEF RelayHeaders, ListCheckpoints, ListFails, MarkSent, SendDone, SendCheckpoint, SendFails
<1>2. CASE \/ ReadConfirmed \/ ReadUnhandled \/ PickIndex \/ ReadHeight \/ ScanForTxid
           \/ MarkConf \/ ConfFails \/ Crash
  BY <1>2 DEF ReadConfirmed, ReadUnhandled, PickIndex, ReadHeight, ScanForTxid, MarkConf, ConfFails,
              Crash, ConfReturns, Goto
<1>3. CASE Environment
  BY <1>3 DEF Environment, Complete, OtherRelayBroadcast, OtherRelayConf, Evict, LightClientFollows,
              Mine, Reorg
<1> QED BY <1>1, <1>2, <1>3 DEF Next, Step, StepFails

\* A proof that reaches the contract while the light client is on its block's
\* chain is taken, or the contract has a later one: the two reads of the light
\* client before it (relayer 675, 738) make it deep enough for good, for any
\* number of checkpoints, failures and reorganisations.
THEOREM OnlyReorgsRefuseProofs == Spec => ProofIsRefusedOnlyOffChain
<1>1. DepthInv /\ [Next]_vars =>
        [pc = "proof" /\ pc' = "confMark" /\ faults' = faults /\ OnChain(found, side)
           => confirmed' >= unconfIndex]_vars
  <2> SUFFICES ASSUME DepthInv, Next, pc = "proof", pc' = "confMark", faults' = faults,
                      OnChain(found, side)
               PROVE  confirmed' >= unconfIndex
    OBVIOUS
  <2>1. TypeOK /\ RelayCheckpointTx
    BY OnlyTheProofStepSubmits DEF DepthInv
  <2>2. confirmed' = IF Proves(found, unconfIndex) THEN unconfIndex ELSE confirmed
    BY <2>1, BoundAssumption DEF RelayCheckpointTx, Fault, TypeOK
  <2>3. Height(found) <= Height(side) - MinConf
    <3>1. Height(found) \in Nat /\ Height(side) \in Nat /\ btcHeight \in Nat /\ MinConf \in Nat
      BY <2>1, ScanAssumption DEF TypeOK, Block, Height
    <3>2. Height(found) <= btcHeight - MinConf /\ btcHeight <= Height(side)
      BY DEF DepthInv, FoundIsBuried, Buried, HeightsOK
    <3> QED BY <3>1, <3>2
  <2>4. unconfIndex \in Int /\ confirmed \in Int
    BY <2>1 DEF TypeOK, MaybeIndex, Index, None
  <2> QED BY <2>2, <2>3, <2>4 DEF Proves
<1> QED BY <1>1, DepthInvariant, PTL DEF Spec, ProofIsRefusedOnlyOffChain

================================================================================
