----------------------------- MODULE ThresholdVote -----------------------------
(***************************************************************************)
(* What a deposit's redeem script promises, whatever its instructions: the *)
(* signatories are asked one after the other, the powers of those who      *)
(* signed are added up in units, and the output may be spent when the sum  *)
(* is above the threshold in units.  Rounding is all that keeps the sum    *)
(* from being the power that signed.                                       *)
(***************************************************************************)
EXTENDS Integers, Sequences

VARIABLES
    vp,         \* the signatories' voting powers
    unit,       \* what one unit of the sum stands for
    threshold,  \* the power that the signers must exceed
    i,          \* the signatory to be asked next
    acc,        \* the sum, in units
    power,      \* history: the power that has signed
    verdict     \* none, open, closed, or invalid: no spend at all

vars == <<vp, unit, threshold, i, acc, power, verdict>>

TypeOK ==
    /\ vp \in Seq(Nat) /\ unit \in Nat \ {0} /\ threshold \in Int
    /\ i \in 1..(Len(vp) + 1)
    /\ acc \in Nat /\ power \in Nat
    /\ verdict \in {"none", "open", "closed", "invalid"}

Init ==
    /\ vp \in Seq(Nat) /\ unit \in Nat \ {0} /\ threshold \in Int
    /\ i = 1 /\ acc = 0 /\ power = 0
    /\ verdict = "none"

Ask(signs) ==
    /\ verdict = "none" /\ i <= Len(vp)
    /\ i' = i + 1
    /\ acc' = IF signs THEN acc + (vp[i] \div unit) ELSE acc
    /\ power' = IF signs THEN power + vp[i] ELSE power
    /\ UNCHANGED <<vp, unit, threshold, verdict>>

Decide ==
    /\ verdict = "none" /\ i > Len(vp)
    /\ verdict' = IF acc > threshold \div unit THEN "open" ELSE "closed"
    /\ UNCHANGED <<vp, unit, threshold, i, acc, power>>

Invalidate ==
    /\ verdict = "none"
    /\ verdict' = "invalid"
    /\ UNCHANGED <<vp, unit, threshold, i, acc, power>>

Next == Ask(TRUE) \/ Ask(FALSE) \/ Decide \/ Invalidate

Spec == Init /\ [][Next]_vars

\* Nobody spends a deposit without more power than the threshold: rounding
\* never helps the signers.
OpenIsAboveThreshold == verdict = "open" => power > threshold

\* Rounding costs the signers less than one unit each.
ClosedIsNearThreshold ==
    verdict = "closed" => power <= threshold + Len(vp) * (unit - 1)

================================================================================
