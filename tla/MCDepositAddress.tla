--------------------------- MODULE MCDepositAddress ---------------------------
EXTENDS DepositAddress, TLC

\* The relayers are told apart only by what they answer.
Symmetry == Permutations(Relayer)
================================================================================
