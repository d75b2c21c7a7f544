----------------------------- MODULE DepositIndex -----------------------------
(***************************************************************************)
(* The deposit index (services/deposit_index): what the relayer knows of   *)
(* the deposits that the app contract has not credited yet.  A script      *)
(* stands for the pair of columns (receiver, bitcoinAddress) it determines *)
(* and height = 0 for the `undefined` of a deposit found in the mempool.   *)
(***************************************************************************)
EXTENDS Integers, DuckDb

IndexKey == {"script", "txid", "vout"}

Outpoint(s, t, i) == [script |-> s, txid |-> t, vout |-> i]

IndexRow(s, t, i, h) == [script |-> s, txid |-> t, vout |-> i, height |-> h]

\* get: the row of an outpoint, or none.
GetDeposit(index, s, t, i) == Select(index, Outpoint(s, t, i))

\* insertDeposit: a row that exists is left as it is, height included.
InsertDeposit(index, s, t, i, h) ==
    IF GetDeposit(index, s, t, i) = {}
      THEN Insert(index, IndexKey, IndexRow(s, t, i, h))
      ELSE index

\* Mutants of RemoveDeposit: the vout before; every output of the transaction.
RemoveDepositOffByOne(index, s, t, i) == Delete(index, Outpoint(s, t, i - 1))
RemoveDepositByTx(index, s, t, i) == Delete(index, [txid |-> t])

RemoveDeposit(index, s, t, i) == Delete(index, Outpoint(s, t, i))

Confirmations(row, currentHeight) ==
    IF row.height # 0 THEN currentHeight - row.height + 1 ELSE 0

\* getDepositsByReceiver, for the receiver that script s names.
GetDepositsByReceiver(index, s, currentHeight) ==
    {[txid |-> r.txid, vout |-> r.vout, height |-> r.height,
      confirmations |-> Confirmations(r, currentHeight)] :
        r \in Select(index, [script |-> s])}
===============================================================================
