---------------------------- MODULE MCRelayDeposit ----------------------------
(***************************************************************************)
(* Instances of RelayDeposit: transactions and their outputs.              *)
(***************************************************************************)
EXTENDS RelayDeposit

CONSTANTS t1, s1

\* One transaction that pays one deposit address.
OneOutput == [t \in {t1} |-> <<s1>>]

\* One transaction that pays a plain output and, twice, one deposit address.
TwoDeposits == [t \in {t1} |-> <<s1, NoScript, s1>>]
===============================================================================
