------------------------------ MODULE RedeemScript -----------------------------
(***************************************************************************)
(* redeemScript of lib-js: the script that a deposit address stands for,   *)
(* instruction by instruction, and Bitcoin's interpreter (external) that   *)
(* runs it on a witness.  A stack is a sequence with its top first, its    *)
(* items are integers: a number or truth value is itself, a public key and *)
(* a signature by that key are the key's name.                             *)
(***************************************************************************)
EXTENDS Integers, Sequences, SequencesExt

CONSTANTS
    Precision,  \* targetPrecision: 23 bits of voting power
    WordBits,   \* 64, for clz64
    NumLimit,   \* arithmetic takes numbers below this: 2^31 in the network
    MaxSigs,    \* bound: signatories
    MaxPower,   \* bound: voting power of one
    Thresholds, \* sigset_threshold: pairs of numerator and denominator
    Foundations \* foundation_signatories: NoFoundation or their powers

NoFoundation == <<0>>
ZeroByte == -1    \* Buffer.from([0]), which is not the empty item 0
Dest == -2        \* the commitment to the destination

\* 2^n.
Pow2[n \in Nat] == IF n = 0 THEN 1 ELSE 2 * Pow2[n - 1]

\* The numbers the network compares are wider than the precision; a threshold
\* is a share of the whole; there may be a foundation, of any powers.
ASSUME NumbersAssumption == Precision \in Nat \ {0} /\ WordBits \in Nat /\ NumLimit \in Nat /\ Pow2[Precision] <= NumLimit
ASSUME SigsAssumption == MaxSigs \in Nat /\ MaxPower \in Nat
ASSUME ThresholdsAssumption == \A r \in Thresholds : r \in Nat \X (Nat \ {0}) /\ r[1] <= r[2]
ASSUME FoundationsAssumption == Foundations \subseteq Seq(Nat)

VARIABLES
    sigset,   \* vp, foundation, numerator, denominator
    witness,  \* the items that the spender gives
    script,   \* the instructions
    at,       \* the next one
    stack,
    cond,     \* for each OP_IF around, innermost first, 1 if its branch is taken, else 0
    signers,  \* history: the keys whose signature was found valid
    asked,    \* history: how many keys have been asked ...
    acc,      \* ... and the number on the stack after the last of them
    result    \* none, open, closed or invalid

history == <<signers, asked, acc>>
vars    == <<sigset, witness, script, at, stack, cond, history, result>>

SumTo(f, n) == LET sum[k \in Nat] == IF k = 0 THEN 0 ELSE sum[k - 1] + f[k] IN sum[n]
SumOf(s) == SumTo(s, Len(s))

SigKeys(s)        == [j \in DOMAIN s.vp |-> -(j + 2)]
FoundationKeys(s) == [j \in DOMAIN s.foundation |-> -(MaxSigs + j + 2)]

--------------------------------------------------------------------------------
(* The script *)

PresentVp(vp) == SumOf(vp)

BitLength(n) == CHOOSE b \in 0..n : n < Pow2[b] /\ (b = 0 \/ n >= Pow2[b - 1])

Clz64(n) == IF n = 0 THEN 0 ELSE WordBits - BitLength(n)

\* A mutant of GetTruncation: one bit too many is kept.
GetTruncationShort(vp) ==
    LET vpBits == WordBits - Clz64(PresentVp(vp))
    IN IF vpBits <= Precision THEN 0 ELSE vpBits - Precision - 1

GetTruncation(vp) ==
    LET vpBits == WordBits - Clz64(PresentVp(vp))
    IN IF vpBits < Precision THEN 0 ELSE vpBits - Precision

Op(name) == [op |-> name, n |-> 0]
Push(n)  == [op |-> "PUSH", n |-> n]

\* A mutant of Question: the first key leaves its power when it does not sign.
QuestionWithoutElse(key, power, first) ==
    IF first
    THEN <<Push(key), Op("CHECKSIG"), Op("IF"), Push(power), Op("ELSE"), Push(power), Op("ENDIF")>>
    ELSE <<Op("SWAP"), Push(key), Op("CHECKSIG"), Op("IF"), Push(power), Op("ADD"), Op("ENDIF")>>

\* A mutant of Question: two keys are on top of the witness's next item.
QuestionWithoutSwap(key, power, first) ==
    IF first
    THEN <<Push(key), Op("CHECKSIG"), Op("IF"), Push(power), Op("ELSE"), Push(0), Op("ENDIF")>>
    ELSE <<Push(key), Op("SWAP"), Op("CHECKSIG"), Op("IF"), Push(power), Op("ADD"), Op("ENDIF")>>

\* Does this key's signature come next?  If so, its power is added up.
Question(key, power, first) ==
    IF first
    THEN <<Push(key), Op("CHECKSIG"), Op("IF"), Push(power), Op("ELSE"), Push(0), Op("ENDIF")>>
    ELSE <<Op("SWAP"), Push(key), Op("CHECKSIG"), Op("IF"), Push(power), Op("ADD"), Op("ENDIF")>>

\* The questions to all keys, in turn: seven instructions each.
Tally(keys, powers) ==
    [k \in 1..(7 * Len(powers)) |->
        LET j == ((k - 1) \div 7) + 1
        IN Question(keys[j], powers[j], j = 1)[((k - 1) % 7) + 1]]

\* The power that the signers must exceed.
Share(s) == (PresentVp(s.vp) * s.numerator) \div s.denominator

\* A mutant of SignatoriesOpen: the threshold is enough.
SignatoriesOpenAtThreshold(s) ==
    LET u == Pow2[GetTruncation(s.vp)]
    IN Tally(SigKeys(s), [j \in DOMAIN s.vp |-> s.vp[j] \div u])
         \o <<Push(Share(s) \div u),
              Op("GREATERTHANOREQUAL"), Push(Dest), Op("DROP")>>

SignatoriesOpen(s) ==
    LET u == Pow2[GetTruncation(s.vp)]
    IN Tally(SigKeys(s), [j \in DOMAIN s.vp |-> s.vp[j] \div u])
         \o <<Push(Share(s) \div u),
              Op("GREATERTHAN"), Push(Dest), Op("DROP")>>

\* Math.ceil of the foundation's share, which is not truncated.
FoundationThreshold(s) == (SumOf(s.foundation) * s.numerator + s.denominator - 1) \div s.denominator

FoundationOpens(s) ==
    IF s.foundation = <<>> THEN <<Op("RETURN")>>
    ELSE Tally(FoundationKeys(s), s.foundation)
           \o <<Push(FoundationThreshold(s)), Op("GREATERTHANOREQUAL")>>

Script(s) ==
    IF s.foundation = NoFoundation THEN SignatoriesOpen(s)
    ELSE <<Push(ZeroByte), Op("EQUAL"), Op("IF")>> \o SignatoriesOpen(s)
           \o <<Op("ELSE")>> \o FoundationOpens(s) \o <<Op("ENDIF")>>

--------------------------------------------------------------------------------
(* The interpreter *)

\* How many items an instruction takes, and what it leaves on the stack.
Arity(op) ==
    CASE op = "PUSH" -> 0
      [] op \in {"DROP", "IF"} -> 1
      [] OTHER -> 2

Truth(b) == IF b THEN 1 ELSE 0
OnTop(n, s) == <<n>> \o s

Effect(t, s) ==
    LET below == SubSeq(s, Arity(t.op) + 1, Len(s))
    IN CASE t.op = "PUSH" -> OnTop(t.n, s)
         [] t.op = "DROP" -> below
         [] t.op = "SWAP" -> OnTop(s[2], OnTop(s[1], below))
         [] t.op \in {"CHECKSIG", "EQUAL"} -> OnTop(Truth(s[1] = s[2]), below)
         [] t.op = "ADD" -> OnTop(s[1] + s[2], below)
         [] t.op = "GREATERTHAN" -> OnTop(Truth(s[2] > s[1]), below)
         [] t.op = "GREATERTHANOREQUAL" -> OnTop(Truth(s[2] >= s[1]), below)

Runs == \A j \in DOMAIN cond : cond[j] = 1
Flow == {"IF", "ELSE", "ENDIF"}
Arithmetic == {"ADD", "GREATERTHAN", "GREATERTHANOREQUAL"}

Running == result = "none" /\ at <= Len(script)
t == script[at]
Continue == at' = at + 1 /\ UNCHANGED <<sigset, witness, script, result>>

\* The instruction finds too few items, or a number too large.
Stuck ==
    \/ t.op = "RETURN"
    \/ Len(stack) < Arity(t.op)
    \/ /\ t.op \in Arithmetic /\ Len(stack) >= 2
       /\ \E j \in 1..2 : stack[j] \notin 0..(NumLimit - 1)

Skip ==
    /\ Running /\ ~Runs /\ t.op \notin Flow
    /\ Continue
    /\ UNCHANGED <<stack, cond, history>>

Execute ==
    /\ Running /\ Runs /\ t.op \notin Flow
    /\ ~Stuck
    /\ stack' = Effect(t, stack)
    /\ signers' = IF t.op = "CHECKSIG" /\ stack[1] = stack[2] THEN signers \cup {stack[1]} ELSE signers
    /\ Continue
    /\ UNCHANGED <<cond, asked, acc>>

If ==
    /\ Running /\ t.op = "IF"
    /\ Runs => ~Stuck
    /\ cond' = OnTop(Truth(Runs /\ stack[1] # 0), cond)
    /\ stack' = IF Runs THEN Tail(stack) ELSE stack
    /\ Continue
    /\ UNCHANGED history

Else ==
    /\ Running /\ t.op = "ELSE"
    /\ cond' = OnTop(1 - cond[1], Tail(cond))
    /\ Continue
    /\ UNCHANGED <<stack, history>>

\* The OP_IFs around the question to one key: of its own branch.
Outer == IF sigset.foundation = NoFoundation THEN 0 ELSE 1
Asks == Len(cond) = Outer + 1 /\ \A j \in 2..Len(cond) : cond[j] = 1

EndIf ==
    /\ Running /\ t.op = "ENDIF"
    /\ cond' = Tail(cond)
    /\ asked' = IF Asks THEN asked + 1 ELSE asked
    /\ acc' = IF Asks /\ stack # <<>> THEN stack[1] ELSE acc
    /\ Continue
    /\ UNCHANGED <<stack, signers>>

Fail ==
    /\ Running /\ Runs /\ t.op \notin {"ELSE", "ENDIF"}
    /\ Stuck
    /\ result' = "invalid"
    /\ UNCHANGED <<sigset, witness, script, at, stack, cond, history>>

\* One item must be left, a true one.
Finish ==
    /\ result = "none" /\ at > Len(script)
    /\ result' = IF Len(stack) # 1 THEN "invalid"
                 ELSE IF stack[1] # 0 THEN "open" ELSE "closed"
    /\ UNCHANGED <<sigset, witness, script, at, stack, cond, history>>

--------------------------------------------------------------------------------
Answers(keys) ==
    {w \in [1..Len(keys) -> {0, keys[1]} \cup ToSet(keys)] :
        \A j \in DOMAIN w : w[j] \in {0, keys[1], keys[j]}}

\* Each key's own signature, nothing, or the first key's once more; with or
\* without the item that picks the branch; one item short or too many.
Witnesses(s) ==
    LET sig   == Answers(SigKeys(s))
        found == IF s.foundation \in {NoFoundation, <<>>} THEN {<<>>} ELSE Answers(FoundationKeys(s))
    IN {<<>>, SigKeys(s) \o <<0>>} \cup
       (IF s.foundation = NoFoundation THEN sig
        ELSE {<<ZeroByte>> \o w : w \in sig} \cup {<<0>> \o w : w \in found})

Init ==
    /\ sigset \in [vp : UNION {[1..n -> 0..MaxPower] : n \in 1..MaxSigs},
                   foundation : Foundations,
                   numerator : {r[1] : r \in Thresholds}, denominator : {r[2] : r \in Thresholds}]
    /\ <<sigset.numerator, sigset.denominator>> \in Thresholds
    /\ witness \in Witnesses(sigset)
    /\ script = Script(sigset) /\ at = 1
    /\ stack = witness /\ cond = <<>>
    /\ signers = {} /\ asked = 0 /\ acc = 0
    /\ result = "none"

Next == Skip \/ Execute \/ If \/ Else \/ EndIf \/ Fail \/ Finish

Spec == Init /\ [][Next]_vars

--------------------------------------------------------------------------------
(* Properties *)

\* The witness picks the foundation's branch.
Foundation == sigset.foundation # NoFoundation /\ (witness = <<>> \/ witness[1] # ZeroByte)

Keys   == IF ~Foundation THEN SigKeys(sigset) ELSE FoundationKeys(sigset)
Powers == IF ~Foundation THEN sigset.vp ELSE sigset.foundation
Unit   == IF ~Foundation THEN Pow2[GetTruncation(sigset.vp)] ELSE 1
Threshold ==
    IF ~Foundation THEN Share(sigset) ELSE FoundationThreshold(sigset) - 1
PowerOf(keys, n) == SumTo([j \in DOMAIN Powers |-> IF Keys[j] \in keys THEN Powers[j] ELSE 0], n)

\* The script stays well formed under the interpreter, and every number it
\* makes is one the network can compare.
TypeOK ==
    /\ \A j \in DOMAIN stack : stack[j] < NumLimit \/ Foundation
    /\ at \in 1..(Len(script) + 1)
    /\ cond \in Seq({0, 1}) /\ Len(cond) <= 2
    /\ asked \in 0..Len(Powers)
    /\ signers \subseteq ToSet(Keys)
    /\ result \in {"none", "open", "closed", "invalid"}

\* The witness without the item that picks the branch, if there are two.
Items == IF sigset.foundation = NoFoundation THEN witness ELSE Tail(witness)

\* The witness of a wallet: for each key its signature or nothing.
WellFormed ==
    /\ sigset.foundation # NoFoundation => witness # <<>>
    /\ Len(Items) = Len(Keys)
    /\ \A j \in DOMAIN Items : Items[j] \in {0, Keys[j]}

\* No witness, of whatever items, opens a deposit without the signatures of
\* more than the threshold's share of the voting power (lib-js 142-222).
OpensOnlyAboveShare ==
    (result = "open" /\ ~Foundation) =>
        PowerOf(signers, Len(Powers)) * sigset.denominator > PresentVp(sigset.vp) * sigset.numerator

\* The signatures of enough power, by more than what truncation takes from
\* them, do open it: no deposit is lost to the form of its script.  For the
\* foundation, whose powers are not truncated, as long as their sum is a number
\* that the network can compare.
EnoughPowerOpens ==
    ( /\ result \in {"closed", "invalid"}
      /\ WellFormed
      /\ Powers # <<>>
      /\ Foundation => SumOf(Powers) < NumLimit )
    => PowerOf(ToSet(Items), Len(Powers)) <= Threshold + Len(Powers) * (Unit - 1)

\* The script counts as the vote does: one key after the other, by units, and
\* with one comparison at the end.
Vote == INSTANCE ThresholdVote WITH
    vp <- Powers, unit <- Unit, threshold <- Threshold,
    i <- asked + 1, acc <- acc, power <- PowerOf(signers, asked), verdict <- result
ImplementsVote == Vote!Spec

================================================================================
