---------------------------- MODULE MCRedeemScript -----------------------------
(* A small instance of RedeemScript. *)
EXTENDS RedeemScript

MCThresholds == {<<2, 3>>}

\* The sum of the last is more than the network compares.
MCFoundations == {NoFoundation, <<>>, <<1>>, <<1, 2>>, <<2, 3>>}

================================================================================
