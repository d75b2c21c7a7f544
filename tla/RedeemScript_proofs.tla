--------------------------- MODULE RedeemScript_proofs --------------------------
(***************************************************************************)
(* The redeem script run on any witness: the interpreter's state at every  *)
(* instruction, that a run is a vote of ThresholdVote, and what follows    *)
(* for whoever signs.                                                      *)
(***************************************************************************)
EXTENDS RedeemScript, SequenceTheorems, WellFoundedInduction, TLAPS

--------------------------------------------------------------------------------
(* The least number of a set, in place of induction *)

LEMMA LeastUnder ==
    ASSUME NEW T, T \subseteq Nat, T # {}, NEW R, IsWellFoundedOn(R, Nat),
           \A x, y \in Nat : y < x => <<y, x>> \in R
    PROVE  \E n \in T : \A m \in T : n <= m
<1>1. PICK n \in T : \A m \in T : ~ (<<m, n>> \in R)
  BY WFMin
<1>2. ASSUME NEW m \in T
      PROVE  n <= m
  <2>1. m \in Nat /\ n \in Nat
    OBVIOUS
  <2>2. ~(m < n)
    BY <1>1, <2>1
  <2> QED BY <2>1, <2>2
<1> QED BY <1>2

LEMMA LessThan == \A x, y \in Nat : y < x => <<y, x>> \in OpToRel(<, Nat)
BY ZenonT(20) DEF OpToRel

LEMMA LeastNumber ==
    ASSUME NEW T, T \subseteq Nat, T # {}
    PROVE  \E n \in T : \A m \in T : n <= m
BY LessThan, LeastUnder, NatLessThanWellFounded, Zenon

--------------------------------------------------------------------------------
(* Division *)

LEMMA Division ==
    ASSUME NEW a \in Int, NEW b \in Nat \ {0}
    PROVE  /\ a \div b \in Int
           /\ (a \div b) * b <= a /\ a <= (a \div b) * b + b - 1
OBVIOUS

LEMMA Monotone ==
    ASSUME NEW a \in Int, NEW b \in Int, NEW c \in Nat, a <= b
    PROVE  a * c <= b * c
OBVIOUS

\* A quotient is below what the whole is below, in units.
LEMMA QuotientBelow ==
    ASSUME NEW a \in Nat, NEW b \in Nat \ {0}, NEW c \in Nat, a < b * c
    PROVE  a \div b \in Nat /\ a \div b < c
<1> DEFINE q == a \div b
<1>1. q \in Int /\ q * b <= a
  BY Division
<1>2. q >= 0
  OBVIOUS
<1> HIDE DEF q
<1>3. q < c
  <2> SUFFICES ASSUME c <= q
               PROVE  FALSE
    BY <1>1
  <2>1. c * b <= q * b
    BY <1>1, Monotone
  <2>2. c * b = b * c
    OBVIOUS
  <2> DEFINE cb == b * c  qb == q * b
  <2>3. cb \in Int /\ qb \in Int
    BY <1>1
  <2>4. cb <= qb /\ qb <= a /\ a < cb
    BY <1>1, <2>1, <2>2
  <2> HIDE DEF cb, qb
  <2> QED BY <2>3, <2>4
<1> QED BY <1>1, <1>2, <1>3 DEF q

--------------------------------------------------------------------------------
(* The recursions: powers of two, and running sums *)

Doubling == [kind |-> "double", start |-> 1]
Summing(f) == [kind |-> "sum", start |-> 0, of |-> f]

Grow(r, x, k) == IF r.kind = "double" THEN 2 * x ELSE x + r.of[k]

\* g is what the recursion r makes, up to n or for ever.
MakesUpTo(g, r, n) == g = [k \in 0..n |-> IF k = 0 THEN r.start ELSE Grow(r, g[k - 1], k)]
Makes(g, r) == g = [k \in Nat |-> IF k = 0 THEN r.start ELSE Grow(r, g[k - 1], k)]

\* The recursion has a solution on every prefix ...
LEMMA MakesUpToExists ==
    ASSUME NEW r, NEW n \in Nat
    PROVE  \E g : MakesUpTo(g, r, n)
<1> DEFINE T == {k \in Nat : ~ \E g : MakesUpTo(g, r, k)}
<1> SUFFICES ASSUME T # {}
             PROVE  FALSE
  OBVIOUS
<1>1. PICK k \in T : \A m \in T : k <= m
  <2>1. T \subseteq Nat
    OBVIOUS
  <2> HIDE DEF T
  <2> QED BY <2>1, LeastNumber
<1>2. k # 0
  <2>1. MakesUpTo([j \in 0..0 |-> r.start], r, 0)
    BY DEF MakesUpTo
  <2> QED BY <2>1
<1>3. k \in Nat /\ k - 1 \in Nat /\ k - 1 \notin T
  BY <1>1, <1>2
<1>4. PICK g : MakesUpTo(g, r, k - 1)
  BY <1>3
<1> DEFINE h == [j \in 0..k |-> IF j = k THEN Grow(r, g[k - 1], k) ELSE g[j]]
<1>5. ASSUME NEW j \in 0..k
      PROVE  h[j] = IF j = 0 THEN r.start ELSE Grow(r, h[j - 1], j)
  <2>1. CASE j = k
    <3>1. h[j] = Grow(r, g[k - 1], k) /\ h[j - 1] = g[k - 1]
      BY <2>1, <1>3
    <3> QED BY <2>1, <3>1, <1>2
  <2>2. CASE j # k
    <3>1. j \in 0..(k - 1)
      BY <2>2, <1>3
    <3>2. g[j] = IF j = 0 THEN r.start ELSE Grow(r, g[j - 1], j)
      BY <3>1, <1>4 DEF MakesUpTo
    <3>3. h[j] = g[j] /\ (j # 0 => h[j - 1] = g[j - 1])
      BY <2>2, <3>1, <1>3
    <3> QED BY <3>2, <3>3
  <2> QED BY <2>1, <2>2
<1>6. MakesUpTo(h, r, k)
  <2>1. h = [j \in 0..k |-> h[j]]
    OBVIOUS
  <2> HIDE DEF h
  <2> QED BY <2>1, <1>5 DEF MakesUpTo
<1> QED BY <1>6

\* ... only one ...
LEMMA MakesUpToAgree ==
    ASSUME NEW r, NEW n \in Nat, NEW m \in Nat, NEW g, NEW h, MakesUpTo(g, r, n), MakesUpTo(h, r, m), n <= m
    PROVE  \A k \in 0..n : g[k] = h[k]
<1> DEFINE T == {k \in Nat : k \in 0..n /\ g[k] # h[k]}
<1> SUFFICES ASSUME T # {}
             PROVE  FALSE
  OBVIOUS
<1>1. PICK k \in T : \A j \in T : k <= j
  <2>1. T \subseteq Nat
    OBVIOUS
  <2> HIDE DEF T
  <2> QED BY <2>1, LeastNumber
<1>2. k \in 0..n /\ k \in 0..m /\ g[k] # h[k]
  BY <1>1
<1>3. /\ g[k] = IF k = 0 THEN r.start ELSE Grow(r, g[k - 1], k)
      /\ h[k] = IF k = 0 THEN r.start ELSE Grow(r, h[k - 1], k)
  BY <1>2 DEF MakesUpTo
<1>4. k # 0 /\ k - 1 \in 0..n /\ ~(k <= k - 1)
  BY <1>2, <1>3
<1>5. g[k - 1] = h[k - 1]
  <2>1. k - 1 \notin T
    BY <1>1, <1>4
  <2> QED BY <2>1, <1>4
<1> QED BY <1>2, <1>3, <1>4, <1>5

\* ... and so one for all numbers.
LEMMA MakesExists ==
    ASSUME NEW r
    PROVE  \E g : Makes(g, r)
<1> DEFINE G(n) == CHOOSE g : MakesUpTo(g, r, n)
           all == [n \in Nat |-> G(n)[n]]
<1>1. \A n \in Nat : MakesUpTo(G(n), r, n)
  BY MakesUpToExists
<1> HIDE DEF G
<1>2. ASSUME NEW k \in Nat
      PROVE  all[k] = IF k = 0 THEN r.start ELSE Grow(r, all[k - 1], k)
  <2>1. G(k)[k] = IF k = 0 THEN r.start ELSE Grow(r, G(k)[k - 1], k)
    <3>1. MakesUpTo(G(k), r, k) /\ k \in 0..k
      BY <1>1
    <3> QED BY <3>1 DEF MakesUpTo
  <2>2. ASSUME k # 0
        PROVE  G(k)[k - 1] = G(k - 1)[k - 1]
    <3>1. k - 1 \in Nat /\ k - 1 <= k /\ k - 1 \in 0..(k - 1)
      BY <2>2
    <3>2. MakesUpTo(G(k), r, k) /\ MakesUpTo(G(k - 1), r, k - 1)
      BY <1>1, <3>1
    <3>3. \A j \in 0..(k - 1) : G(k - 1)[j] = G(k)[j]
      BY <3>1, <3>2, MakesUpToAgree
    <3> QED BY <3>1, <3>3
  <2>3. k # 0 => k - 1 \in Nat
    OBVIOUS
  <2> QED BY <2>1, <2>2, <2>3
<1>3. all = [k \in Nat |-> all[k]]
  OBVIOUS
<1> HIDE DEF all
<1>4. Makes(all, r)
  BY <1>2, <1>3 DEF Makes
<1> QED BY <1>4

\* The defining equations.
LEMMA SumToIs ==
    ASSUME NEW f
    PROVE  /\ SumTo(f, 0) = 0
           /\ \A n \in Nat : SumTo(f, n + 1) = SumTo(f, n) + f[n + 1]
<1> DEFINE r == Summing(f)
           sum == CHOOSE g : Makes(g, r)
<1>0. r.start = 0 /\ \A x, k : Grow(r, x, k) = x + f[k]
  BY DEF Summing, Grow
<1>1. Makes(sum, r)
  BY MakesExists
<1>2. ASSUME NEW n
      PROVE  SumTo(f, n) = sum[n]
  <2>1. \A g : Makes(g, r) <=> g = [k \in Nat |-> IF k = 0 THEN 0 ELSE g[k - 1] + f[k]]
    <3> HIDE DEF r
    <3> QED BY <1>0 DEF Makes
  <2> HIDE DEF r
  <2> QED BY <2>1 DEF SumTo
<1> HIDE DEF sum, r
<1>3. sum[0] = 0
  BY <1>0, <1>1 DEF Makes
<1>4. ASSUME NEW n \in Nat
      PROVE  sum[n + 1] = sum[n] + f[n + 1]
  <2>1. n + 1 \in Nat /\ n + 1 # 0 /\ (n + 1) - 1 = n
    OBVIOUS
  <2>2. sum[n + 1] = IF n + 1 = 0 THEN 0 ELSE sum[(n + 1) - 1] + f[n + 1]
    BY <1>0, <1>1, <2>1 DEF Makes
  <2> QED BY <2>1, <2>2
<1> QED BY <1>2, <1>3, <1>4

LEMMA Pow2Is == Pow2[0] = 1 /\ \A n \in Nat : Pow2[n + 1] = 2 * Pow2[n]
<1> DEFINE r == Doubling
<1>0. r.start = 1 /\ \A x, k : Grow(r, x, k) = 2 * x
  BY DEF Doubling, Grow
<1> HIDE DEF r
<1>1. \A g : Makes(g, r) <=> g = [k \in Nat |-> IF k = 0 THEN 1 ELSE 2 * g[k - 1]]
  BY <1>0 DEF Makes
<1>2. Makes(Pow2, r)
  <2>1. \E g : Makes(g, r)
    BY MakesExists
  <2> QED BY <1>1, <2>1 DEF Pow2
<1>3. ASSUME NEW n \in Nat
      PROVE  Pow2[n + 1] = 2 * Pow2[n]
  <2>1. n + 1 \in Nat /\ n + 1 # 0 /\ (n + 1) - 1 = n
    OBVIOUS
  <2>2. Pow2[n + 1] = IF n + 1 = 0 THEN 1 ELSE 2 * Pow2[(n + 1) - 1]
    BY <1>1, <1>2, <2>1
  <2> QED BY <2>1, <2>2
<1>4. Pow2[0] = 1
  BY <1>1, <1>2
<1> QED BY <1>3, <1>4

--------------------------------------------------------------------------------
(* Sums *)

\* The least counterexample below a bound, for the lemmas on sums.
LEMMA SumToNat ==
    ASSUME NEW f, NEW n \in Nat, \A k \in 1..n : f[k] \in Nat
    PROVE  \A m \in 0..n : SumTo(f, m) \in Nat
<1> DEFINE T == {k \in Nat : k \in 0..n /\ SumTo(f, k) \notin Nat}
<1> SUFFICES ASSUME T # {}
             PROVE  FALSE
  OBVIOUS
<1>1. PICK k \in T : \A j \in T : k <= j
  <2>1. T \subseteq Nat
    OBVIOUS
  <2> HIDE DEF T
  <2> QED BY <2>1, LeastNumber
<1>2. k \in 1..n /\ k - 1 \in Nat /\ (k - 1) + 1 = k
  BY <1>1, SumToIs
<1>3. SumTo(f, k - 1) \in Nat
  <2>1. k - 1 \in 0..n /\ k - 1 \notin T
    BY <1>1, <1>2
  <2> QED BY <2>1, <1>2
<1>4. SumTo(f, (k - 1) + 1) = SumTo(f, k - 1) + f[(k - 1) + 1]
  BY <1>2, SumToIs
<1>5. SumTo(f, k) \in Nat
  BY <1>2, <1>3, <1>4
<1> QED BY <1>1, <1>5

\* A sum depends on the numbers it adds up.
LEMMA SumToAgree ==
    ASSUME NEW f, NEW g, NEW n \in Nat, \A k \in 1..n : f[k] = g[k]
    PROVE  SumTo(f, n) = SumTo(g, n)
<1> DEFINE T == {k \in Nat : k \in 0..n /\ SumTo(f, k) # SumTo(g, k)}
<1>1. T = {}
  <2> SUFFICES ASSUME T # {}
               PROVE  FALSE
    OBVIOUS
  <2>1. PICK k \in T : \A j \in T : k <= j
    <3>1. T \subseteq Nat
      OBVIOUS
    <3> HIDE DEF T
    <3> QED BY <3>1, LeastNumber
  <2>2. k \in 1..n /\ k - 1 \in Nat /\ (k - 1) + 1 = k
    BY <2>1, SumToIs
  <2>3. SumTo(f, k - 1) = SumTo(g, k - 1)
    <3>1. k - 1 \in 0..n /\ k - 1 \notin T
      BY <2>1, <2>2
    <3> QED BY <3>1, <2>2
  <2>4. /\ SumTo(f, (k - 1) + 1) = SumTo(f, k - 1) + f[(k - 1) + 1]
        /\ SumTo(g, (k - 1) + 1) = SumTo(g, k - 1) + g[(k - 1) + 1]
    BY <2>2, SumToIs
  <2>5. SumTo(f, k) = SumTo(g, k)
    BY <2>2, <2>3, <2>4
  <2> QED BY <2>1, <2>5
<1>2. n \in 0..n /\ n \notin T
  BY <1>1
<1> QED BY <1>2

\* And grows with them ...
LEMMA SumToMonotone ==
    ASSUME NEW f, NEW g, NEW n \in Nat,
           \A k \in 1..n : f[k] \in Nat /\ g[k] \in Nat /\ f[k] <= g[k]
    PROVE  SumTo(f, n) <= SumTo(g, n)
<1>0. \A m \in 0..n : SumTo(f, m) \in Nat /\ SumTo(g, m) \in Nat
  BY SumToNat
<1> DEFINE T == {k \in Nat : k \in 0..n /\ ~(SumTo(f, k) <= SumTo(g, k))}
<1>1. T = {}
  <2> SUFFICES ASSUME T # {}
               PROVE  FALSE
    OBVIOUS
  <2>1. PICK k \in T : \A j \in T : k <= j
    <3>1. T \subseteq Nat
      OBVIOUS
    <3> HIDE DEF T
    <3> QED BY <3>1, LeastNumber
  <2>2. k \in 1..n /\ k - 1 \in 0..n /\ k - 1 \in Nat /\ (k - 1) + 1 = k
    BY <2>1, SumToIs
  <2>3. SumTo(f, k - 1) <= SumTo(g, k - 1)
    <3>1. k - 1 \notin T
      BY <2>1, <2>2
    <3> QED BY <3>1, <2>2
  <2>4. /\ SumTo(f, (k - 1) + 1) = SumTo(f, k - 1) + f[(k - 1) + 1]
        /\ SumTo(g, (k - 1) + 1) = SumTo(g, k - 1) + g[(k - 1) + 1]
    BY <2>2, SumToIs
  <2>5. /\ SumTo(f, k) = SumTo(f, k - 1) + f[k] /\ SumTo(g, k) = SumTo(g, k - 1) + g[k]
    BY <2>2, <2>4
  <2>6. SumTo(f, k - 1) \in Nat /\ SumTo(g, k - 1) \in Nat /\ f[k] \in Nat /\ g[k] \in Nat /\ f[k] <= g[k]
    BY <1>0, <2>2
  <2>7. SumTo(f, k) <= SumTo(g, k)
    BY <2>3, <2>5, <2>6
  <2> QED BY <2>1, <2>7
<1>2. n \in 0..n /\ n \notin T
  BY <1>1
<1> QED BY <1>2

\* ... and with their number.
LEMMA SumToGrows ==
    ASSUME NEW f, NEW n \in Nat, \A k \in 1..n : f[k] \in Nat, NEW m \in 0..n
    PROVE  SumTo(f, m) <= SumTo(f, n)
<1>0. \A k \in 0..n : SumTo(f, k) \in Nat
  BY SumToNat
<1> DEFINE T == {k \in Nat : k \in m..n /\ ~(SumTo(f, m) <= SumTo(f, k))}
<1>1. T = {}
  <2> SUFFICES ASSUME T # {}
               PROVE  FALSE
    OBVIOUS
  <2>1. PICK k \in T : \A j \in T : k <= j
    <3>1. T \subseteq Nat
      OBVIOUS
    <3> HIDE DEF T
    <3> QED BY <3>1, LeastNumber
  <2>2. k # m
    BY <1>0, <2>1
  <2>3. k \in 1..n /\ k - 1 \in m..n /\ k - 1 \in 0..n /\ k - 1 \in Nat /\ (k - 1) + 1 = k
    BY <2>1, <2>2
  <2>4. SumTo(f, m) <= SumTo(f, k - 1)
    <3>1. k - 1 \notin T
      BY <2>1, <2>3
    <3> QED BY <3>1, <2>3
  <2>5. SumTo(f, (k - 1) + 1) = SumTo(f, k - 1) + f[(k - 1) + 1]
    BY <2>3, SumToIs
  <2>6. SumTo(f, k) = SumTo(f, k - 1) + f[k]
    BY <2>3, <2>5
  <2>7. SumTo(f, m) \in Nat /\ SumTo(f, k - 1) \in Nat /\ f[k] \in Nat
    BY <1>0, <2>3
  <2>8. SumTo(f, m) <= SumTo(f, k)
    BY <2>4, <2>6, <2>7
  <2> QED BY <2>1, <2>8
<1>2. n \in m..n /\ n \in Nat /\ n \notin T
  BY <1>1
<1> QED BY <1>2

--------------------------------------------------------------------------------
(* Powers of two, and what truncation keeps *)

LEMMA Pow2Type == \A n \in Nat : Pow2[n] \in Nat \ {0} /\ n < Pow2[n]
<1> DEFINE T == {n \in Nat : ~(Pow2[n] \in Nat \ {0} /\ n < Pow2[n])}
<1> SUFFICES ASSUME T # {}
             PROVE  FALSE
  OBVIOUS
<1>1. PICK n \in T : \A m \in T : n <= m
  <2>1. T \subseteq Nat
    OBVIOUS
  <2> HIDE DEF T
  <2> QED BY <2>1, LeastNumber
<1>2. n # 0
  <2>1. Pow2[0] \in Nat \ {0} /\ 0 < Pow2[0]
    BY Pow2Is
  <2> QED BY <1>1, <2>1
<1>3. n \in Nat /\ n - 1 \in Nat /\ (n - 1) + 1 = n /\ n - 1 \notin T
  BY <1>1, <1>2
<1>4. Pow2[n - 1] \in Nat \ {0} /\ n - 1 < Pow2[n - 1]
  BY <1>3
<1>5. Pow2[(n - 1) + 1] = 2 * Pow2[n - 1]
  BY <1>3, Pow2Is
<1>6. Pow2[n] \in Nat \ {0} /\ n < Pow2[n]
  BY <1>3, <1>4, <1>5
<1> QED BY <1>1, <1>6

LEMMA Pow2Sum ==
    ASSUME NEW a \in Nat, NEW b \in Nat
    PROVE  Pow2[a + b] = Pow2[a] * Pow2[b]
<1> DEFINE T == {n \in Nat : Pow2[a + n] # Pow2[a] * Pow2[n]}
<1>1. T = {}
  <2> SUFFICES ASSUME T # {}
               PROVE  FALSE
    OBVIOUS
  <2>1. PICK n \in T : \A m \in T : n <= m
    <3>1. T \subseteq Nat
      OBVIOUS
    <3> HIDE DEF T
    <3> QED BY <3>1, LeastNumber
  <2>2. n # 0
    <3>1. Pow2[a] \in Nat /\ Pow2[0] = 1 /\ a + 0 = a
      BY Pow2Is, Pow2Type
    <3> QED BY <2>1, <3>1
  <2>3. n \in Nat /\ n - 1 \in Nat /\ (n - 1) + 1 = n /\ n - 1 \notin T /\ a + (n - 1) \in Nat /\ (a + (n - 1)) + 1 = a + n
    BY <2>1, <2>2
  <2>4. Pow2[a + (n - 1)] = Pow2[a] * Pow2[n - 1]
    BY <2>3
  <2>5. Pow2[(n - 1) + 1] = 2 * Pow2[n - 1] /\ Pow2[(a + (n - 1)) + 1] = 2 * Pow2[a + (n - 1)]
    BY <2>3, Pow2Is
  <2>6. Pow2[a] \in Nat /\ Pow2[n - 1] \in Nat
    BY <2>3, Pow2Type
  <2> DEFINE x == Pow2[a]  y == Pow2[n - 1]
  <2>7. Pow2[n] = 2 * y /\ Pow2[a + n] = 2 * (x * y)
    BY <2>3, <2>4, <2>5
  <2>8. x \in Nat /\ y \in Nat
    BY <2>6
  <2>9. x * (2 * y) = 2 * (x * y)
    <3> HIDE DEF x, y
    <3> QED BY <2>8
  <2> QED BY <2>1, <2>7, <2>9
<1>2. b \notin T
  BY <1>1
<1> QED BY <1>2

LEMMA Pow2Monotone ==
    ASSUME NEW a \in Nat, NEW b \in Nat, a <= b
    PROVE  Pow2[a] <= Pow2[b]
<1>1. b - a \in Nat /\ a + (b - a) = b
  OBVIOUS
<1>2. Pow2[b] = Pow2[a] * Pow2[b - a]
  BY <1>1, Pow2Sum
<1> DEFINE x == Pow2[a]  y == Pow2[b - a]
<1>3. x \in Nat /\ y \in Nat /\ 1 <= y
  BY <1>1, Pow2Type
<1>4. x <= x * y
  <2> HIDE DEF x, y
  <2>1. 1 * x <= y * x
    BY <1>3, Monotone
  <2> QED BY <1>3, <2>1
<1> QED BY <1>2, <1>4

LEMMA BitLengthIs ==
    ASSUME NEW n \in Nat
    PROVE  /\ BitLength(n) \in Nat
           /\ n < Pow2[BitLength(n)]
<1> DEFINE T == {b \in Nat : n < Pow2[b]}
<1>1. PICK b \in T : \A m \in T : b <= m
  <2>1. n \in T
    BY Pow2Type
  <2>2. T \subseteq Nat
    OBVIOUS
  <2> HIDE DEF T
  <2> QED BY <2>1, <2>2, LeastNumber
<1>2. b \in 0..n /\ n < Pow2[b]
  <2>1. n \in T
    BY Pow2Type
  <2>2. b <= n
    BY <1>1, <2>1
  <2> QED BY <1>1, <2>2
<1>3. b = 0 \/ n >= Pow2[b - 1]
  <2> SUFFICES ASSUME b # 0
               PROVE  n >= Pow2[b - 1]
    OBVIOUS
  <2>1. b - 1 \in Nat /\ ~(b <= b - 1)
    BY <1>2
  <2>2. b - 1 \notin T
    BY <1>1, <2>1
  <2>3. ~(n < Pow2[b - 1]) /\ Pow2[b - 1] \in Nat
    BY <2>1, <2>2, Pow2Type
  <2> QED BY <2>3
<1>4. \E c \in 0..n : n < Pow2[c] /\ (c = 0 \/ n >= Pow2[c - 1])
  BY <1>2, <1>3
<1>5. BitLength(n) \in 0..n /\ n < Pow2[BitLength(n)]
  BY <1>4 DEF BitLength
<1> QED BY <1>5

\* Truncated, a sum of powers has no more than targetPrecision bits (lib-js
\* 294-301): a number that the network can compare.
LEMMA TruncationKeepsPrecision ==
    ASSUME NEW vp \in Seq(Nat)
    PROVE  /\ GetTruncation(vp) \in Nat
           /\ Pow2[GetTruncation(vp)] \in Nat \ {0}
           /\ PresentVp(vp) \in Nat
           /\ PresentVp(vp) < Pow2[GetTruncation(vp)] * Pow2[Precision]
<1> DEFINE sum == PresentVp(vp)
           bits == WordBits - Clz64(sum)
           cut == GetTruncation(vp)
<1>1. sum \in Nat
  <2>1. Len(vp) \in Nat /\ \A k \in 1..Len(vp) : vp[k] \in Nat
    BY LenProperties, ElementOfSeq
  <2>2. Len(vp) \in 0..Len(vp)
    BY <2>1
  <2> QED BY <2>1, <2>2, SumToNat DEF PresentVp, SumOf
<1>2. bits \in Nat /\ (sum # 0 => sum < Pow2[bits])
  <2>1. BitLength(sum) \in Nat /\ sum < Pow2[BitLength(sum)]
    BY <1>1, BitLengthIs
  <2>2. CASE sum = 0
    <3>1. bits = WordBits
      BY <2>2, NumbersAssumption DEF Clz64
    <3> QED BY <2>2, <3>1, NumbersAssumption
  <2>3. CASE sum # 0
    <3> HIDE DEF sum
    <3>1. bits = BitLength(sum)
      BY <2>1, <2>3, NumbersAssumption DEF Clz64
    <3> QED BY <2>1, <3>1
  <2> QED BY <2>2, <2>3
<1>3. cut = IF bits < Precision THEN 0 ELSE bits - Precision
  BY DEF GetTruncation
<1> HIDE DEF bits
<1>4. cut \in Nat
  BY <1>2, <1>3, NumbersAssumption
<1>5. Pow2[cut] \in Nat \ {0} /\ Pow2[Precision] \in Nat \ {0}
  BY <1>4, Pow2Type, NumbersAssumption
<1>6. sum < Pow2[cut] * Pow2[Precision]
  <2> HIDE DEF sum, cut
  <2>0. Pow2[cut + Precision] = Pow2[cut] * Pow2[Precision] /\ cut + Precision \in Nat
    BY <1>4, Pow2Sum, NumbersAssumption
  <2>1. Pow2[cut + Precision] \in Nat \ {0}
    BY <2>0, Pow2Type
  <2>2. CASE sum = 0
    BY <2>0, <2>1, <2>2
  <2>3. CASE sum # 0
    <3>1. bits <= cut + Precision
      BY <1>2, <1>3, NumbersAssumption
    <3>2. Pow2[bits] <= Pow2[cut + Precision]
      BY <1>2, <2>0, <3>1, Pow2Monotone
    <3>3. sum < Pow2[bits] /\ Pow2[bits] \in Nat
      BY <1>2, <2>3, Pow2Type
    <3>4. sum < Pow2[cut + Precision]
      BY <1>1, <2>1, <3>2, <3>3
    <3> QED BY <2>0, <3>4
  <2> QED BY <2>2, <2>3
<1> QED BY <1>1, <1>4, <1>5, <1>6

--------------------------------------------------------------------------------
(* The script's instructions, one by one *)

Ops == {"PUSH", "DROP", "SWAP", "CHECKSIG", "EQUAL", "ADD", "GREATERTHAN", "GREATERTHANOREQUAL",
        "IF", "ELSE", "ENDIF", "RETURN"}
Instruction == [op : Ops, n : Int]

LEMMA OpIs ==
    ASSUME NEW name \in Ops
    PROVE  Op(name) \in Instruction /\ Op(name).op = name
BY DEF Op, Instruction

LEMMA PushIs ==
    ASSUME NEW n \in Int
    PROVE  Push(n) \in Instruction /\ Push(n).op = "PUSH" /\ Push(n).n = n
BY DEF Push, Instruction, Ops

LEMMA QuestionIs ==
    ASSUME NEW key \in Int, NEW power \in Int, NEW first \in BOOLEAN
    PROVE  /\ \A d \in 1..7 : Question(key, power, first)[d] \in Instruction
           /\ first => /\ Question(key, power, first)[1] = Push(key)
                       /\ Question(key, power, first)[2] = Op("CHECKSIG")
                       /\ Question(key, power, first)[3] = Op("IF")
                       /\ Question(key, power, first)[4] = Push(power)
                       /\ Question(key, power, first)[5] = Op("ELSE")
                       /\ Question(key, power, first)[6] = Push(0)
                       /\ Question(key, power, first)[7] = Op("ENDIF")
           /\ ~first => /\ Question(key, power, first)[1] = Op("SWAP")
                        /\ Question(key, power, first)[2] = Push(key)
                        /\ Question(key, power, first)[3] = Op("CHECKSIG")
                        /\ Question(key, power, first)[4] = Op("IF")
                        /\ Question(key, power, first)[5] = Push(power)
                        /\ Question(key, power, first)[6] = Op("ADD")
                        /\ Question(key, power, first)[7] = Op("ENDIF")
<1>1. /\ Push(key) \in Instruction /\ Push(power) \in Instruction /\ Push(0) \in Instruction
      /\ Op("CHECKSIG") \in Instruction /\ Op("IF") \in Instruction /\ Op("ELSE") \in Instruction
      /\ Op("ENDIF") \in Instruction /\ Op("SWAP") \in Instruction /\ Op("ADD") \in Instruction
  BY PushIs, OpIs DEF Ops
<1>2. \A d \in 1..7 : d = 1 \/ d = 2 \/ d = 3 \/ d = 4 \/ d = 5 \/ d = 6 \/ d = 7
  OBVIOUS
<1>3. CASE first
  BY <1>1, <1>2, <1>3 DEF Question
<1>4. CASE ~first
  BY <1>1, <1>2, <1>4 DEF Question
<1> QED BY <1>3, <1>4

LEMMA TallyIs ==
    ASSUME NEW keys, NEW powers, Len(powers) \in Nat,
           \A j \in 1..Len(powers) : keys[j] \in Int /\ powers[j] \in Int
    PROVE  /\ Tally(keys, powers) \in Seq(Instruction)
           /\ Len(Tally(keys, powers)) = 7 * Len(powers)
           /\ \A j \in 1..Len(powers), d \in 1..7 :
                Tally(keys, powers)[7 * (j - 1) + d] = Question(keys[j], powers[j], j = 1)[d]
<1> DEFINE n == 7 * Len(powers)
           Instr(k) == Question(keys[((k - 1) \div 7) + 1], powers[((k - 1) \div 7) + 1], ((k - 1) \div 7) + 1 = 1)[((k - 1) % 7) + 1]
<1>1. Tally(keys, powers) = [k \in 1..n |-> Instr(k)]
  BY DEF Tally
<1>2. n \in Nat
  OBVIOUS
<1>3. ASSUME NEW k \in 1..n
      PROVE  Instr(k) \in Instruction
  <2>1. ((k - 1) \div 7) + 1 \in 1..Len(powers) /\ ((k - 1) % 7) + 1 \in 1..7
    OBVIOUS
  <2> DEFINE j == ((k - 1) \div 7) + 1
  <2>2. keys[j] \in Int /\ powers[j] \in Int /\ (j = 1) \in BOOLEAN
    BY <2>1
  <2> QED BY <2>1, <2>2, QuestionIs
<1> HIDE DEF n
<1>4. /\ Tally(keys, powers) \in Seq(Instruction)
      /\ Len(Tally(keys, powers)) = n
  <2> HIDE DEF Instr
  <2>1. [k \in 1..n |-> Instr(k)] \in Seq(Instruction)
    BY <1>2, <1>3, IsASeq
  <2> QED BY <1>1, <1>2, <2>1
<1>5. ASSUME NEW j \in 1..Len(powers), NEW d \in 1..7
      PROVE  Tally(keys, powers)[7 * (j - 1) + d] = Question(keys[j], powers[j], j = 1)[d]
  <2> DEFINE k == 7 * (j - 1) + d
  <2>1. k \in 1..n
    BY DEF n
  <2>2. ((k - 1) \div 7) + 1 = j /\ ((k - 1) % 7) + 1 = d
    OBVIOUS
  <2> HIDE DEF k
  <2>3. Tally(keys, powers)[k] = Instr(k)
    BY <1>1, <2>1
  <2>4. Instr(k) = Question(keys[j], powers[j], j = 1)[d]
    BY <2>2
  <2> QED BY <2>3, <2>4 DEF k
<1> QED BY <1>4, <1>5 DEF n

--------------------------------------------------------------------------------
(* The signatory sets of an instance *)

IsSigset(s) ==
    /\ s.vp \in Seq(Nat) /\ Len(s.vp) >= 1
    /\ s.foundation \in Seq(Nat)
    /\ s.numerator \in Nat /\ s.denominator \in Nat \ {0} /\ s.numerator <= s.denominator

\* The share of a sum, rounded down or up, is a number no larger than the sum.
LEMMA ShareIs ==
    ASSUME NEW sum \in Nat, NEW num \in Nat, NEW den \in Nat \ {0}, num <= den
    PROVE  /\ (sum * num) \div den \in 0..sum
           /\ (sum * num + den - 1) \div den \in 0..sum
<1> DEFINE p == sum * num  sd == sum * den
<1>1. p \in Nat /\ sd \in Nat
  OBVIOUS
<1>2. num * sum <= den * sum
  BY Monotone
<1>3. p <= sd
  BY <1>2
<1>4. sd < den * (sum + 1) /\ sd + den - 1 < den * (sum + 1)
  <2>1. den * (sum + 1) = sd + den
    OBVIOUS
  <2> HIDE DEF sd
  <2> QED BY <1>1, <2>1
<1>5. p < den * (sum + 1) /\ p + den - 1 < den * (sum + 1) /\ den * (sum + 1) \in Nat
  <2>1. den * (sum + 1) \in Nat
    OBVIOUS
  <2> DEFINE top == den * (sum + 1)
  <2> HIDE DEF p, sd, top
  <2>2. p < top /\ p + den - 1 < top
    BY <1>1, <1>3, <1>4, <2>1 DEF top
  <2> QED BY <2>1, <2>2 DEF top
<1> HIDE DEF p
<1>6. p \div den \in Nat /\ p \div den < sum + 1
  BY <1>1, <1>5, QuotientBelow
<1>7. (p + den - 1) \div den \in Nat /\ (p + den - 1) \div den < sum + 1
  <2>1. p + den - 1 \in Nat
    BY <1>1
  <2> QED BY <1>5, <2>1, QuotientBelow
<1> QED BY <1>6, <1>7 DEF p

LEMMA SigsetIs ==
    ASSUME NEW s, IsSigset(s)
    PROVE  /\ Share(s) \in 0..PresentVp(s.vp)
           /\ SumOf(s.foundation) \in Nat
           /\ FoundationThreshold(s) \in 0..SumOf(s.foundation)
           /\ Pow2[GetTruncation(s.vp)] \in Nat \ {0}
           /\ Share(s) \div Pow2[GetTruncation(s.vp)] \in Int
<1>1. PresentVp(s.vp) \in Nat /\ Pow2[GetTruncation(s.vp)] \in Nat \ {0}
  BY TruncationKeepsPrecision DEF IsSigset
<1>2. Len(s.foundation) \in Nat /\ Len(s.foundation) \in 0..Len(s.foundation)
      /\ \A k \in 1..Len(s.foundation) : s.foundation[k] \in Nat
  BY LenProperties, ElementOfSeq DEF IsSigset
<1>3. SumOf(s.foundation) \in Nat
  BY <1>2, SumToNat DEF SumOf
<1>4. Share(s) \in 0..PresentVp(s.vp)
  BY <1>1, ShareIs DEF IsSigset, Share
<1>5. FoundationThreshold(s) \in 0..SumOf(s.foundation)
  BY <1>3, ShareIs DEF IsSigset, FoundationThreshold
<1>6. Share(s) \div Pow2[GetTruncation(s.vp)] \in Int
  <2>1. Share(s) \in Int
    BY <1>1, <1>4
  <2> QED BY <1>1, <2>1, Division
<1> QED BY <1>1, <1>3, <1>4, <1>5, <1>6

\* Concatenation, as an operator that the provers do not look into.
Join(s, u) == s \o u

LEMMA Joined ==
    ASSUME NEW s \in Seq(Instruction), NEW u \in Seq(Instruction)
    PROVE  /\ Join(s, u) \in Seq(Instruction) /\ Len(Join(s, u)) = Len(s) + Len(u)
           /\ \A k \in 1..Len(s) : Join(s, u)[k] = s[k]
           /\ \A k \in 1..Len(u) : Join(s, u)[Len(s) + k] = u[k]
<1> DEFINE j == s \o u
<1>1. /\ j \in Seq(Instruction) /\ Len(j) = Len(s) + Len(u)
      /\ \A k \in 1..(Len(s) + Len(u)) : j[k] = IF k <= Len(s) THEN s[k] ELSE u[k - Len(s)]
  BY ConcatProperties
<1>2. Join(s, u) = j
  BY DEF Join
<1> HIDE DEF j
<1>3. Len(s) \in Nat /\ Len(u) \in Nat
  OBVIOUS
<1>4. \A k \in 1..Len(s) : j[k] = s[k]
  BY <1>1, <1>3
<1>5. ASSUME NEW k \in 1..Len(u)
      PROVE  j[Len(s) + k] = u[k]
  <2>1. Len(s) + k \in 1..(Len(s) + Len(u)) /\ ~(Len(s) + k <= Len(s)) /\ (Len(s) + k) - Len(s) = k
    BY <1>3
  <2> QED BY <1>1, <2>1
<1> QED BY <1>1, <1>2, <1>4, <1>5

SigUnit(s) == Pow2[GetTruncation(s.vp)]

\* Instruction d of question j, and its place among the questions.
Place(j, d) == 7 * (j - 1) + d
Instr(key, power, j, d) == Question(key, power, j = 1)[d]

LEMMA SignatoriesOpenIs ==
    ASSUME NEW s, IsSigset(s)
    PROVE  /\ SignatoriesOpen(s) \in Seq(Instruction)
           /\ Len(SignatoriesOpen(s)) = 7 * Len(s.vp) + 4
           /\ \A j \in 1..Len(s.vp), d \in 1..7 :
                SignatoriesOpen(s)[Place(j, d)] = Instr(SigKeys(s)[j], s.vp[j] \div SigUnit(s), j, d)
           /\ SignatoriesOpen(s)[7 * Len(s.vp) + 1] = Push(Share(s) \div SigUnit(s))
           /\ SignatoriesOpen(s)[7 * Len(s.vp) + 2] = Op("GREATERTHAN")
           /\ SignatoriesOpen(s)[7 * Len(s.vp) + 3] = Push(Dest)
           /\ SignatoriesOpen(s)[7 * Len(s.vp) + 4] = Op("DROP")
<1> DEFINE n == Len(s.vp)
           keys == SigKeys(s)
           powers == [j \in DOMAIN s.vp |-> s.vp[j] \div SigUnit(s)]
           tally == Tally(keys, powers)
           tail == <<Push(Share(s) \div SigUnit(s)), Op("GREATERTHAN"), Push(Dest), Op("DROP")>>
<1>1. SignatoriesOpen(s) = Join(tally, tail)
  BY DEF SignatoriesOpen, SigUnit, Join
<1>2. n \in Nat /\ DOMAIN s.vp = 1..n /\ \A j \in 1..n : s.vp[j] \in Nat
  BY LenProperties, ElementOfSeq DEF IsSigset
<1>3. SigUnit(s) \in Nat \ {0} /\ Share(s) \div SigUnit(s) \in Int
  BY SigsetIs DEF SigUnit
<1>4. \A j \in 1..n : keys[j] \in Int /\ powers[j] \in Int /\ powers[j] = s.vp[j] \div SigUnit(s)
  <2>1. \A j \in 1..n : s.vp[j] \div SigUnit(s) \in Int
    <3> TAKE j \in 1..n
    <3>1. s.vp[j] \in Int
      BY <1>2
    <3> QED BY <1>3, <3>1, Division
  <2> QED BY <1>2, <2>1 DEF SigKeys
<1>5. Len(powers) = n
  BY <1>2
<1>6. tail \in Seq(Instruction) /\ Len(tail) = 4
      /\ tail[1] = Push(Share(s) \div SigUnit(s)) /\ tail[2] = Op("GREATERTHAN")
      /\ tail[3] = Push(Dest) /\ tail[4] = Op("DROP")
  <2>1. /\ Push(Share(s) \div SigUnit(s)) \in Instruction /\ Push(Dest) \in Instruction
        /\ Op("GREATERTHAN") \in Instruction /\ Op("DROP") \in Instruction
    BY <1>3, PushIs, OpIs DEF Dest, Ops
  <2> QED BY <2>1
<1> HIDE DEF n, keys, powers, tail
<1>7. /\ tally \in Seq(Instruction) /\ Len(tally) = 7 * n
      /\ \A j \in 1..n, d \in 1..7 : tally[7 * (j - 1) + d] = Question(keys[j], powers[j], j = 1)[d]
  <2>1. Len(powers) \in Nat /\ \A j \in 1..Len(powers) : keys[j] \in Int /\ powers[j] \in Int
    BY <1>2, <1>4, <1>5
  <2>2. /\ tally \in Seq(Instruction) /\ Len(tally) = 7 * Len(powers)
        /\ \A j \in 1..Len(powers), d \in 1..7 : tally[7 * (j - 1) + d] = Question(keys[j], powers[j], j = 1)[d]
    BY <2>1, TallyIs
  <2> QED BY <1>5, <2>2
<1> DEFINE m == 7 * n
<1>m. m \in Nat /\ 4 \in Nat /\ Len(tally) = m
  BY <1>2, <1>7
<1> HIDE DEF tally, m
<1>8. /\ Join(tally, tail) \in Seq(Instruction) /\ Len(Join(tally, tail)) = m + 4
      /\ \A k \in 1..m : Join(tally, tail)[k] = tally[k]
      /\ \A k \in 1..4 : Join(tally, tail)[m + k] = tail[k]
  <2>1. /\ Join(tally, tail) \in Seq(Instruction) /\ Len(Join(tally, tail)) = Len(tally) + Len(tail)
        /\ \A k \in 1..Len(tally) : Join(tally, tail)[k] = tally[k]
        /\ \A k \in 1..Len(tail) : Join(tally, tail)[Len(tally) + k] = tail[k]
    BY <1>6, <1>7, Joined
  <2>2. Len(tally) = m /\ Len(tail) = 4
    BY <1>6, <1>m
  <2> QED BY <1>m, <2>1, <2>2
<1>9. ASSUME NEW j \in 1..n, NEW d \in 1..7
      PROVE  SignatoriesOpen(s)[Place(j, d)] = Instr(keys[j], s.vp[j] \div SigUnit(s), j, d)
  <2> DEFINE k == 7 * (j - 1) + d
  <2>1. k \in 1..m
    BY <1>2 DEF m
  <2>2. tally[k] = Question(keys[j], powers[j], j = 1)[d] /\ powers[j] = s.vp[j] \div SigUnit(s)
    BY <1>4, <1>7
  <2> HIDE DEF k
  <2>3. Join(tally, tail)[k] = tally[k]
    BY <1>8, <2>1
  <2> QED BY <1>1, <2>2, <2>3 DEF k, Place, Instr
<1>10. /\ Join(tally, tail)[m + 1] = tail[1] /\ Join(tally, tail)[m + 2] = tail[2]
       /\ Join(tally, tail)[m + 3] = tail[3] /\ Join(tally, tail)[m + 4] = tail[4]
  BY <1>8, <1>m
<1> QED BY <1>1, <1>6, <1>8, <1>9, <1>10 DEF n, keys, m

LEMMA FoundationOpensIs ==
    ASSUME NEW s, IsSigset(s)
    PROVE  /\ FoundationOpens(s) \in Seq(Instruction)
           /\ s.foundation = <<>> => /\ Len(FoundationOpens(s)) = 1
                                     /\ FoundationOpens(s)[1] = Op("RETURN")
           /\ s.foundation # <<>> =>
                /\ Len(FoundationOpens(s)) = 7 * Len(s.foundation) + 2
                /\ \A j \in 1..Len(s.foundation), d \in 1..7 :
                     FoundationOpens(s)[Place(j, d)] = Instr(FoundationKeys(s)[j], s.foundation[j], j, d)
                /\ FoundationOpens(s)[7 * Len(s.foundation) + 1] = Push(FoundationThreshold(s))
                /\ FoundationOpens(s)[7 * Len(s.foundation) + 2] = Op("GREATERTHANOREQUAL")
<1>0. CASE s.foundation = <<>>
  <2>1. FoundationOpens(s) = <<Op("RETURN")>> /\ Op("RETURN") \in Instruction
    BY <1>0, OpIs DEF FoundationOpens, Ops
  <2> QED BY <1>0, <2>1
<1>1. CASE s.foundation # <<>>
  <2> DEFINE n == Len(s.foundation)
             keys == FoundationKeys(s)
             powers == s.foundation
             tally == Tally(keys, powers)
             tail == <<Push(FoundationThreshold(s)), Op("GREATERTHANOREQUAL")>>
  <2>1. FoundationOpens(s) = Join(tally, tail)
    BY <1>1 DEF FoundationOpens, Join
  <2>2. n \in Nat /\ DOMAIN powers = 1..n /\ \A j \in 1..n : powers[j] \in Nat
    BY LenProperties, ElementOfSeq DEF IsSigset
  <2>3. FoundationThreshold(s) \in Int
    BY SigsetIs
  <2>4. \A j \in 1..n : keys[j] \in Int /\ powers[j] \in Int
    BY <2>2, SigsAssumption DEF FoundationKeys
  <2>6. tail \in Seq(Instruction) /\ Len(tail) = 2
        /\ tail[1] = Push(FoundationThreshold(s)) /\ tail[2] = Op("GREATERTHANOREQUAL")
    <3>1. Push(FoundationThreshold(s)) \in Instruction /\ Op("GREATERTHANOREQUAL") \in Instruction
      BY <2>3, PushIs, OpIs DEF Ops
    <3> QED BY <3>1
  <2> HIDE DEF keys, tail
  <2>7. /\ tally \in Seq(Instruction) /\ Len(tally) = 7 * n
        /\ \A j \in 1..n, d \in 1..7 : tally[7 * (j - 1) + d] = Question(keys[j], powers[j], j = 1)[d]
    <3>1. Len(powers) \in Nat /\ \A j \in 1..Len(powers) : keys[j] \in Int /\ powers[j] \in Int
      BY <2>2, <2>4
    <3>2. n = Len(powers)
      OBVIOUS
    <3> HIDE DEF powers, n
    <3>3. /\ tally \in Seq(Instruction) /\ Len(tally) = 7 * Len(powers)
          /\ \A j \in 1..Len(powers), d \in 1..7 : tally[7 * (j - 1) + d] = Question(keys[j], powers[j], j = 1)[d]
      BY <3>1, TallyIs
    <3> QED BY <3>2, <3>3
  <2> DEFINE m == 7 * n
  <2>m. m \in Nat /\ 2 \in Nat /\ Len(tally) = m
    BY <2>2, <2>7
  <2> HIDE DEF tally, n, m, powers
  <2>8. /\ Join(tally, tail) \in Seq(Instruction) /\ Len(Join(tally, tail)) = m + 2
        /\ \A k \in 1..m : Join(tally, tail)[k] = tally[k]
        /\ \A k \in 1..2 : Join(tally, tail)[m + k] = tail[k]
    <3>1. /\ Join(tally, tail) \in Seq(Instruction) /\ Len(Join(tally, tail)) = Len(tally) + Len(tail)
          /\ \A k \in 1..Len(tally) : Join(tally, tail)[k] = tally[k]
          /\ \A k \in 1..Len(tail) : Join(tally, tail)[Len(tally) + k] = tail[k]
      BY <2>6, <2>7, Joined
    <3>2. Len(tally) = m /\ Len(tail) = 2
      BY <2>6, <2>m
    <3> QED BY <2>m, <3>1, <3>2
  <2>9. ASSUME NEW j \in 1..n, NEW d \in 1..7
        PROVE  FoundationOpens(s)[Place(j, d)] = Instr(keys[j], powers[j], j, d)
    <3> DEFINE k == 7 * (j - 1) + d
    <3>1. k \in 1..m
      BY <2>2 DEF m
    <3>2. tally[k] = Question(keys[j], powers[j], j = 1)[d]
      BY <2>7
    <3> HIDE DEF k
    <3>3. Join(tally, tail)[k] = tally[k]
      BY <2>8, <3>1
    <3> QED BY <2>1, <3>2, <3>3 DEF k, Place, Instr
  <2>10. Join(tally, tail)[m + 1] = tail[1] /\ Join(tally, tail)[m + 2] = tail[2]
    BY <2>8, <2>m
  <2> QED BY <1>1, <2>1, <2>6, <2>8, <2>9, <2>10 DEF n, keys, m, powers
<1> QED BY <1>0, <1>1

\* Where the two branches begin: after how many instructions.
SigBase(s) == IF s.foundation = NoFoundation THEN 0 ELSE 3
FoundBase(s) == SigBase(s) + 7 * Len(s.vp) + 5
FoundEnd(s) == FoundBase(s) + (IF s.foundation = <<>> THEN 2 ELSE 7 * Len(s.foundation) + 3)

LEMMA ScriptIs ==
    ASSUME NEW s, IsSigset(s)
    PROVE  /\ Script(s) \in Seq(Instruction)
           /\ \A k \in 1..(7 * Len(s.vp) + 4) : Script(s)[SigBase(s) + k] = SignatoriesOpen(s)[k]
           /\ s.foundation = NoFoundation => Len(Script(s)) = 7 * Len(s.vp) + 4
           /\ s.foundation # NoFoundation =>
                /\ Script(s)[1] = Push(ZeroByte) /\ Script(s)[2] = Op("EQUAL") /\ Script(s)[3] = Op("IF")
                /\ Script(s)[FoundBase(s)] = Op("ELSE")
                /\ \A k \in 1..Len(FoundationOpens(s)) : Script(s)[FoundBase(s) + k] = FoundationOpens(s)[k]
                /\ Script(s)[FoundEnd(s)] = Op("ENDIF")
                /\ Len(Script(s)) = FoundEnd(s)
<1> DEFINE a == <<Push(ZeroByte), Op("EQUAL"), Op("IF")>>
           b == SignatoriesOpen(s)
           c == <<Op("ELSE")>>
           d == FoundationOpens(s)
           e == <<Op("ENDIF")>>
           n == Len(s.vp)
<1>1. n \in Nat /\ Len(s.foundation) \in Nat
  BY DEF IsSigset
<1>2. b \in Seq(Instruction) /\ Len(b) = 7 * n + 4
  BY SignatoriesOpenIs
<1>3. CASE s.foundation = NoFoundation
  <2>1. Script(s) = b /\ SigBase(s) = 0
    BY <1>3 DEF Script, SigBase
  <2> HIDE DEF b, n
  <2>2. \A k \in 1..(7 * n + 4) : 0 + k = k
    BY <1>1
  <2> QED BY <1>2, <1>3, <2>1, <2>2 DEF b, n
<1>4. CASE s.foundation # NoFoundation
  <2>1. /\ Push(ZeroByte) \in Instruction /\ Op("EQUAL") \in Instruction /\ Op("IF") \in Instruction
        /\ Op("ELSE") \in Instruction /\ Op("ENDIF") \in Instruction
    BY PushIs, OpIs DEF ZeroByte, Ops
  <2>2. /\ a \in Seq(Instruction) /\ Len(a) = 3
        /\ a[1] = Push(ZeroByte) /\ a[2] = Op("EQUAL") /\ a[3] = Op("IF")
        /\ c \in Seq(Instruction) /\ Len(c) = 1 /\ c[1] = Op("ELSE")
        /\ e \in Seq(Instruction) /\ Len(e) = 1 /\ e[1] = Op("ENDIF")
    BY <2>1
  <2>3. d \in Seq(Instruction)
    BY FoundationOpensIs
  <2>4. /\ Len(d) = IF s.foundation = <<>> THEN 1 ELSE 7 * Len(s.foundation) + 2
        /\ Len(d) \in Nat
    BY <1>1, FoundationOpensIs
  <2>5. Script(s) = Join(Join(Join(Join(a, b), c), d), e)
    BY <1>4 DEF Script, Join
  <2>6. SigBase(s) = 3 /\ FoundBase(s) = 7 * n + 8 /\ FoundEnd(s) = 7 * n + 8 + Len(d) + 1
    <3>1. SigBase(s) = 3 /\ FoundBase(s) = 7 * n + 8
      BY <1>1, <1>4 DEF SigBase, FoundBase
    <3>2. CASE s.foundation = <<>>
      <4>1. FoundEnd(s) = FoundBase(s) + 2 /\ Len(d) = 1
        BY <3>2, <2>4 DEF FoundEnd
      <4> QED BY <3>1, <4>1, <1>1
    <3>3. CASE s.foundation # <<>>
      <4>1. FoundEnd(s) = FoundBase(s) + (7 * Len(s.foundation) + 3) /\ Len(d) = 7 * Len(s.foundation) + 2
        BY <3>3, <2>4 DEF FoundEnd
      <4>2. FoundBase(s) + (7 * Len(s.foundation) + 3) = FoundBase(s) + (7 * Len(s.foundation) + 2) + 1
        <5>1. FoundBase(s) \in Nat /\ Len(s.foundation) \in Nat
          BY <3>1, <1>1
        <5> QED BY <5>1
      <4> QED BY <3>1, <4>1, <4>2
    <3> QED BY <3>1, <3>2, <3>3
  <2>d. Len(d) \in Nat
    BY <2>4
  <2>b. 7 * n + 4 \in Nat /\ Len(b) = 7 * n + 4
    BY <1>1, <1>2
  <2> HIDE DEF a, b, c, d, e, n
  <2> DEFINE ab == Join(a, b)  abc == Join(ab, c)  abcd == Join(abc, d)  all == Join(abcd, e)
             nd == Len(d)  p == 7 * n + 4
  <2>n. p \in Nat /\ nd \in Nat /\ p + 3 \in Nat /\ p + 4 \in Nat /\ p + 4 + nd \in Nat /\ Len(b) = p /\ Len(d) = nd
    BY <2>d, <2>b
  <2> HIDE DEF nd, p
  <2>7. /\ ab \in Seq(Instruction) /\ Len(ab) = p + 3
        /\ \A k \in 1..3 : ab[k] = a[k]
        /\ \A k \in 1..p : ab[3 + k] = b[k]
    <3>1. /\ ab \in Seq(Instruction) /\ Len(ab) = Len(a) + Len(b)
          /\ \A k \in 1..Len(a) : ab[k] = a[k]
          /\ \A k \in 1..Len(b) : ab[Len(a) + k] = b[k]
      BY <1>2, <2>2, Joined
    <3>2. Len(a) = 3 /\ Len(b) = p
      BY <1>2, <2>2, <2>n
    <3> HIDE DEF ab
    <3> QED BY <2>n, <3>1, <3>2
  <2> HIDE DEF ab
  <2>8. /\ abc \in Seq(Instruction) /\ Len(abc) = p + 4
        /\ \A k \in 1..(p + 3) : abc[k] = ab[k]
        /\ abc[p + 4] = c[1]
    <3>1. /\ abc \in Seq(Instruction) /\ Len(abc) = Len(ab) + Len(c)
          /\ \A k \in 1..Len(ab) : abc[k] = ab[k]
          /\ \A k \in 1..Len(c) : abc[Len(ab) + k] = c[k]
      BY <2>2, <2>7, Joined
    <3>2. Len(ab) = p + 3 /\ Len(c) = 1
      BY <2>2, <2>7, <2>n
    <3> HIDE DEF abc
    <3>3. (p + 3) + 1 = p + 4 /\ 1 \in 1..1
      BY <2>n
    <3>4. abc[(p + 3) + 1] = c[1]
      BY <2>n, <3>1, <3>2
    <3> QED BY <2>n, <3>1, <3>2, <3>3, <3>4
  <2> HIDE DEF abc
  <2>9. /\ abcd \in Seq(Instruction) /\ Len(abcd) = p + 4 + nd
        /\ \A k \in 1..(p + 4) : abcd[k] = abc[k]
        /\ \A k \in 1..nd : abcd[p + 4 + k] = d[k]
    <3>1. /\ abcd \in Seq(Instruction) /\ Len(abcd) = Len(abc) + Len(d)
          /\ \A k \in 1..Len(abc) : abcd[k] = abc[k]
          /\ \A k \in 1..Len(d) : abcd[Len(abc) + k] = d[k]
      BY <2>3, <2>8, Joined
    <3>2. Len(abc) = p + 4 /\ Len(d) = nd
      BY <2>3, <2>8, <2>n
    <3> HIDE DEF abcd
    <3> QED BY <2>n, <3>1, <3>2
  <2> HIDE DEF abcd
  <2>10. /\ all \in Seq(Instruction) /\ Len(all) = p + 4 + nd + 1
         /\ \A k \in 1..(p + 4 + nd) : all[k] = abcd[k]
         /\ all[p + 4 + nd + 1] = e[1]
    <3>1. /\ all \in Seq(Instruction) /\ Len(all) = Len(abcd) + Len(e)
          /\ \A k \in 1..Len(abcd) : all[k] = abcd[k]
          /\ \A k \in 1..Len(e) : all[Len(abcd) + k] = e[k]
      BY <2>2, <2>9, Joined
    <3>2. Len(abcd) = p + 4 + nd /\ Len(e) = 1
      BY <2>2, <2>9, <2>n
    <3> HIDE DEF all
    <3>3. all[(p + 4 + nd) + 1] = e[1]
      BY <2>n, <3>1, <3>2
    <3> QED BY <2>n, <3>1, <3>2, <3>3
  <2>11. Script(s) = all
    BY <2>5 DEF abcd, abc, ab
  <2> HIDE DEF all
  <2>12. \A k \in 1..3 : all[k] = a[k]
    <3> TAKE k \in 1..3
    <3>1. k \in 1..(p + 3) /\ k \in 1..(p + 4) /\ k \in 1..(p + 4 + nd)
      BY <2>n
    <3> QED BY <2>7, <2>8, <2>9, <2>10, <3>1
  <2>13. \A k \in 1..p : all[3 + k] = b[k]
    <3> TAKE k \in 1..p
    <3>1. 3 + k \in 1..(p + 3) /\ 3 + k \in 1..(p + 4) /\ 3 + k \in 1..(p + 4 + nd)
      BY <2>n
    <3> QED BY <2>7, <2>8, <2>9, <2>10, <3>1
  <2>14. all[p + 4] = c[1]
    <3>1. p + 4 \in 1..(p + 4) /\ p + 4 \in 1..(p + 4 + nd)
      BY <2>n
    <3> QED BY <2>8, <2>9, <2>10, <3>1
  <2>15. \A k \in 1..nd : all[p + 4 + k] = d[k]
    <3> TAKE k \in 1..nd
    <3>1. p + 4 + k \in 1..(p + 4 + nd)
      BY <2>n
    <3> QED BY <2>9, <2>10, <3>1
  <2>16. FoundBase(s) = p + 4 /\ FoundEnd(s) = p + 4 + nd + 1
    BY <1>1, <2>4, <2>6 DEF p, nd
  <2>17. /\ Script(s) \in Seq(Instruction)
         /\ \A k \in 1..p : Script(s)[SigBase(s) + k] = b[k]
         /\ Script(s)[1] = Push(ZeroByte) /\ Script(s)[2] = Op("EQUAL") /\ Script(s)[3] = Op("IF")
         /\ Script(s)[FoundBase(s)] = Op("ELSE")
         /\ \A k \in 1..nd : Script(s)[FoundBase(s) + k] = d[k]
         /\ Script(s)[FoundEnd(s)] = Op("ENDIF") /\ Len(Script(s)) = FoundEnd(s)
    BY <2>2, <2>6, <2>10, <2>11, <2>12, <2>13, <2>14, <2>15, <2>16
  <2> QED BY <1>4, <2>17 DEF b, d, n, p, nd
<1> QED BY <1>3, <1>4

--------------------------------------------------------------------------------
(* What an instruction does to a stack *)

\* s1 is s with its first m items replaced by r others.
Moved(s, s1, m, r) ==
    /\ m <= Len(s)
    /\ Len(s1) = Len(s) - m + r
    /\ \A j \in (r + 1)..Len(s1) : s1[j] = s[j - r + m]

\* s is k items on what is left of w after its first c.
Over(s, w, k, c) ==
    /\ c <= Len(w)
    /\ Len(s) = k + Len(w) - c
    /\ \A j \in (k + 1)..Len(s) : s[j] = w[c + j - k]

LEMMA OnTopIs ==
    ASSUME NEW S, NEW x \in S, NEW s \in Seq(S)
    PROVE  /\ OnTop(x, s) \in Seq(S) /\ Len(OnTop(x, s)) = Len(s) + 1
           /\ OnTop(x, s)[1] = x
           /\ \A j \in 2..(Len(s) + 1) : OnTop(x, s)[j] = s[j - 1]
<1> DEFINE b == <<x>>  all == b \o s
<1>1. b \in Seq(S) /\ Len(b) = 1 /\ b[1] = x
  OBVIOUS
<1>2. OnTop(x, s) = all
  BY DEF OnTop
<1> HIDE DEF b
<1>3. /\ all \in Seq(S) /\ Len(all) = Len(b) + Len(s)
      /\ \A k \in 1..(Len(b) + Len(s)) : all[k] = IF k <= Len(b) THEN b[k] ELSE s[k - Len(b)]
  BY <1>1, ConcatProperties
<1> HIDE DEF all
<1>4. Len(s) \in Nat
  OBVIOUS
<1>5. /\ Len(all) = Len(s) + 1
      /\ all[1] = b[1]
      /\ \A j \in 2..(Len(s) + 1) : all[j] = s[j - 1]
  BY <1>1, <1>3, <1>4
<1> QED BY <1>1, <1>2, <1>3, <1>5

LEMMA BelowIs ==
    ASSUME NEW s \in Seq(Int), NEW m \in Nat, m <= Len(s)
    PROVE  /\ SubSeq(s, m + 1, Len(s)) \in Seq(Int)
           /\ Moved(s, SubSeq(s, m + 1, Len(s)), m, 0)
<1> DEFINE below == SubSeq(s, m + 1, Len(s))
<1>1. Len(s) \in Nat /\ m + 1 \in Int /\ Len(s) \in Int /\ \A i \in (m + 1)..Len(s) : s[i] \in Int
  BY ElementOfSeq
<1>2. /\ below \in Seq(Int)
      /\ Len(below) = IF m + 1 <= Len(s) THEN Len(s) - (m + 1) + 1 ELSE 0
      /\ \A i \in 1..(Len(s) - (m + 1) + 1) : below[i] = s[(m + 1) + i - 1]
  BY <1>1, SubSeqProperties
<1> HIDE DEF below
<1>3. Len(below) = Len(s) - m
  BY <1>1, <1>2
<1>4. \A j \in 1..Len(below) : below[j] = s[j - 0 + m]
  <2> TAKE j \in 1..Len(below)
  <2>1. j \in 1..(Len(s) - (m + 1) + 1) /\ (m + 1) + j - 1 = j - 0 + m
    BY <1>1, <1>3
  <2> QED BY <1>2, <2>1
<1>5. Moved(s, below, m, 0)
  BY <1>1, <1>3, <1>4 DEF Moved
<1> QED BY <1>2, <1>5 DEF below

LEMMA MovedOnTop ==
    ASSUME NEW S, NEW s \in Seq(S), NEW b \in Seq(S), NEW x \in S, NEW m \in Nat, NEW r \in Nat, Moved(s, b, m, r)
    PROVE  /\ Moved(s, OnTop(x, b), m, r + 1)
           /\ OnTop(x, b)[1] = x
           /\ OnTop(x, b) \in Seq(S)
<1> DEFINE all == OnTop(x, b)
<1>1. /\ all \in Seq(S) /\ Len(all) = Len(b) + 1
      /\ all[1] = x
      /\ \A j \in 2..(Len(b) + 1) : all[j] = b[j - 1]
  BY OnTopIs
<1>2. Len(s) \in Nat /\ Len(b) \in Nat
  OBVIOUS
<1> HIDE DEF all
<1>3. Len(all) = Len(s) - m + (r + 1) /\ m <= Len(s)
  BY <1>1, <1>2 DEF Moved
<1>4. ASSUME NEW j \in (r + 1 + 1)..Len(all)
      PROVE  all[j] = s[j - (r + 1) + m]
  <2>1. j \in 2..(Len(b) + 1) /\ j - 1 \in (r + 1)..Len(b) /\ (j - 1) - r + m = j - (r + 1) + m
    BY <1>1, <1>2
  <2>2. all[j] = b[j - 1] /\ b[j - 1] = s[(j - 1) - r + m]
    BY <1>1, <2>1 DEF Moved
  <2> QED BY <2>1, <2>2
<1>5. Moved(s, all, m, r + 1)
  BY <1>3, <1>4 DEF Moved
<1> QED BY <1>1, <1>5 DEF all

LEMMA SecondOnTop ==
    ASSUME NEW S, NEW b \in Seq(S), NEW x \in S, Len(b) >= 1
    PROVE  OnTop(x, b)[2] = b[1]
<1>1. Len(b) \in Nat
  OBVIOUS
<1>2. \A j \in 2..(Len(b) + 1) : OnTop(x, b)[j] = b[j - 1]
  BY OnTopIs
<1>3. 2 \in 2..(Len(b) + 1) /\ 2 - 1 = 1
  BY <1>1
<1> QED BY <1>2, <1>3

\* Each instruction of the script that is no branch.
LEMMA EffectIs ==
    ASSUME NEW s \in Seq(Int), NEW i \in Instruction, i.op \notin Flow, i.op # "RETURN", Len(s) >= Arity(i.op)
    PROVE  /\ Effect(i, s) \in Seq(Int)
           /\ i.op = "PUSH" => Moved(s, Effect(i, s), 0, 1) /\ Effect(i, s)[1] = i.n
           /\ i.op = "DROP" => Moved(s, Effect(i, s), 1, 0)
           /\ i.op = "SWAP" => /\ Moved(s, Effect(i, s), 2, 2)
                               /\ Effect(i, s)[1] = s[2] /\ Effect(i, s)[2] = s[1]
           /\ i.op \in {"CHECKSIG", "EQUAL"} =>
                /\ Moved(s, Effect(i, s), 2, 1)
                /\ Effect(i, s)[1] = Truth(s[1] = s[2])
           /\ i.op = "ADD" => Moved(s, Effect(i, s), 2, 1) /\ Effect(i, s)[1] = s[1] + s[2]
           /\ i.op = "GREATERTHAN" => Moved(s, Effect(i, s), 2, 1) /\ Effect(i, s)[1] = Truth(s[2] > s[1])
           /\ i.op = "GREATERTHANOREQUAL" => Moved(s, Effect(i, s), 2, 1) /\ Effect(i, s)[1] = Truth(s[2] >= s[1])
<1> DEFINE m == Arity(i.op)
           below == SubSeq(s, m + 1, Len(s))
<1>0. m \in 0..2 /\ (i.op \notin {"PUSH", "DROP"} => m = 2) /\ (i.op = "DROP" => m = 1) /\ (i.op = "PUSH" => m = 0)
  BY DEF Arity, Flow
<1>1. below \in Seq(Int) /\ Moved(s, below, m, 0)
  <2>1. m \in Nat /\ m <= Len(s)
    BY <1>0
  <2> HIDE DEF m
  <2> QED BY <2>1, BelowIs
<1>2. i.op \in Ops /\ i.n \in Int
  BY DEF Instruction
<1>3. \A b \in BOOLEAN : Truth(b) \in Int
  BY DEF Truth
<1>4. ASSUME NEW x \in Int, Effect(i, s) = OnTop(x, below)
      PROVE  /\ Effect(i, s) \in Seq(Int) /\ Moved(s, Effect(i, s), m, 1) /\ Effect(i, s)[1] = x
  <2> DEFINE r == 0
  <2>1. m \in Nat /\ r \in Nat /\ r + 1 = 1 /\ Moved(s, below, m, r)
    BY <1>0, <1>1
  <2> HIDE DEF m, below, r
  <2>2. /\ Moved(s, OnTop(x, below), m, r + 1)
        /\ OnTop(x, below)[1] = x
        /\ OnTop(x, below) \in Seq(Int)
    BY <1>1, <2>1, MovedOnTop
  <2> QED BY <1>4, <2>1, <2>2
<1>5. Len(s) \in Nat /\ (2 <= Len(s) => s[1] \in Int /\ s[2] \in Int)
  <2>1. Len(s) \in Nat
    OBVIOUS
  <2>2. 2 <= Len(s) => 1 \in 1..Len(s) /\ 2 \in 1..Len(s)
    BY <2>1
  <2> QED BY <2>1, <2>2, ElementOfSeq
<1>6. CASE i.op = "PUSH"
  <2>1. Effect(i, s) = OnTop(i.n, s)
    BY <1>6 DEF Effect
  <2>2. Moved(s, s, 0, 0) /\ 0 \in Nat /\ 0 + 1 = 1
    BY <1>5 DEF Moved
  <2>3. Moved(s, OnTop(i.n, s), 0, 0 + 1) /\ OnTop(i.n, s)[1] = i.n /\ OnTop(i.n, s) \in Seq(Int)
    BY <1>2, <2>2, MovedOnTop
  <2> QED BY <1>6, <2>1, <2>2, <2>3
<1>7. CASE i.op = "DROP"
  <2>1. Effect(i, s) = below
    BY <1>7 DEF Effect
  <2> HIDE DEF m, below
  <2> QED BY <1>0, <1>1, <1>7, <2>1
<1>8. CASE i.op = "SWAP"
  <2>1. m = 2 /\ s[1] \in Int /\ s[2] \in Int
    BY <1>0, <1>5, <1>8
  <2>2. Effect(i, s) = OnTop(s[2], OnTop(s[1], below))
    BY <1>8 DEF Effect
  <2> DEFINE one == OnTop(s[1], below)
  <2>3. 0 \in Nat /\ 1 \in Nat /\ 2 \in Nat /\ 0 + 1 = 1 /\ 1 + 1 = 2
    OBVIOUS
  <2> HIDE DEF m, below
  <2>4. Moved(s, one, 2, 0 + 1) /\ one[1] = s[1] /\ one \in Seq(Int)
    BY <1>1, <2>1, <2>3, MovedOnTop
  <2>5. Moved(s, one, 2, 1)
    BY <2>3, <2>4
  <2>6. Len(one) >= 1
    BY <1>5, <2>5 DEF Moved
  <2> HIDE DEF one
  <2>7. /\ Moved(s, OnTop(s[2], one), 2, 1 + 1)
        /\ OnTop(s[2], one)[1] = s[2]
        /\ OnTop(s[2], one) \in Seq(Int)
    BY <2>1, <2>3, <2>4, <2>5, MovedOnTop
  <2>8. OnTop(s[2], one)[2] = one[1]
    BY <2>1, <2>4, <2>6, SecondOnTop
  <2> QED BY <1>8, <2>2, <2>3, <2>4, <2>7, <2>8 DEF one
<1>9. CASE i.op \in {"CHECKSIG", "EQUAL"}
  <2>1. Effect(i, s) = OnTop(Truth(s[1] = s[2]), below) /\ Truth(s[1] = s[2]) \in Int
    BY <1>3, <1>9 DEF Effect
  <2> HIDE DEF below
  <2>2. /\ Effect(i, s) \in Seq(Int) /\ Moved(s, Effect(i, s), m, 1) /\ Effect(i, s)[1] = Truth(s[1] = s[2])
    BY <1>4, <2>1
  <2> HIDE DEF m
  <2> QED BY <1>0, <1>9, <2>2
<1>10. CASE i.op = "ADD"
  <2>1. Effect(i, s) = OnTop(s[1] + s[2], below) /\ s[1] + s[2] \in Int
    BY <1>0, <1>5, <1>10 DEF Effect
  <2> HIDE DEF below
  <2>2. /\ Effect(i, s) \in Seq(Int) /\ Moved(s, Effect(i, s), m, 1) /\ Effect(i, s)[1] = s[1] + s[2]
    BY <1>4, <2>1
  <2> HIDE DEF m
  <2> QED BY <1>0, <1>10, <2>2
<1>11. CASE i.op = "GREATERTHAN"
  <2> HIDE DEF below
  <2>0. Truth(s[2] > s[1]) \in Int
    BY DEF Truth
  <2>1. Effect(i, s) = OnTop(Truth(s[2] > s[1]), below)
    BY <1>11 DEF Effect, below
  <2> HIDE DEF below
  <2>2. /\ Effect(i, s) \in Seq(Int) /\ Moved(s, Effect(i, s), m, 1) /\ Effect(i, s)[1] = Truth(s[2] > s[1])
    BY <1>4, <2>0, <2>1
  <2> HIDE DEF m
  <2> QED BY <1>0, <1>11, <2>2
<1>12. CASE i.op = "GREATERTHANOREQUAL"
  <2> HIDE DEF below
  <2>0. Truth(s[2] >= s[1]) \in Int
    BY DEF Truth
  <2>1. Effect(i, s) = OnTop(Truth(s[2] >= s[1]), below)
    BY <1>12 DEF Effect, below
  <2> HIDE DEF below
  <2>2. /\ Effect(i, s) \in Seq(Int) /\ Moved(s, Effect(i, s), m, 1) /\ Effect(i, s)[1] = Truth(s[2] >= s[1])
    BY <1>4, <2>0, <2>1
  <2> HIDE DEF m
  <2> QED BY <1>0, <1>12, <2>2
<1> QED BY <1>2, <1>6, <1>7, <1>8, <1>9, <1>10, <1>11, <1>12 DEF Ops, Flow

--------------------------------------------------------------------------------
(* What stays as it is during a run *)

N == Len(Powers)
Base == IF Foundation THEN FoundBase(sigset) ELSE SigBase(sigset)
Units(j) == Powers[j] \div Unit
Number == IF Foundation THEN Threshold + 1 ELSE Threshold \div Unit

Constant == IsSigset(sigset) /\ witness \in Seq(Int) /\ script = Script(sigset)

Same ==
    /\ sigset' = sigset /\ witness' = witness /\ script' = script
    /\ Keys' = Keys /\ Powers' = Powers /\ Unit' = Unit /\ Threshold' = Threshold
    /\ Foundation' = Foundation /\ Outer' = Outer /\ Base' = Base /\ N' = N /\ Number' = Number

LEMMA SameIs ==
    ASSUME sigset' = sigset, witness' = witness, script' = script
    PROVE  Same
<1>1. Foundation' = Foundation /\ Outer' = Outer
  BY DEF Foundation, Outer
<1>2. Keys' = Keys /\ Powers' = Powers /\ Unit' = Unit /\ Threshold' = Threshold /\ Base' = Base
  BY <1>1 DEF Keys, Powers, Unit, Threshold, Base
<1> QED BY <1>1, <1>2 DEF Same, N, Number

LEMMA ConstantIs ==
    ASSUME Constant
    PROVE  /\ Powers \in Seq(Nat) /\ N \in Nat /\ DOMAIN Powers = 1..N
           /\ Unit \in Nat \ {0} /\ Threshold \in Int /\ Number \in Int
           /\ Foundation \in BOOLEAN /\ Outer \in 0..1 /\ Base \in Nat
           /\ \A j \in 1..N : Keys[j] \in Int /\ Powers[j] \in Nat /\ Units(j) \in Nat
           /\ ~Foundation => Powers = sigset.vp /\ N >= 1
<1>1. Powers \in Seq(Nat)
  BY DEF Constant, IsSigset, Powers
<1>2. N \in Nat /\ DOMAIN Powers = 1..N /\ \A j \in 1..N : Powers[j] \in Nat
  BY <1>1, LenProperties, ElementOfSeq DEF N
<1>3. Unit \in Nat \ {0}
  BY SigsetIs DEF Constant, Unit
<1>4. Threshold \in Int
  <2>1. PresentVp(sigset.vp) \in Nat
    BY TruncationKeepsPrecision DEF Constant, IsSigset
  <2>2. Share(sigset) \in 0..PresentVp(sigset.vp) /\ FoundationThreshold(sigset) \in 0..SumOf(sigset.foundation)
        /\ SumOf(sigset.foundation) \in Nat
    BY SigsetIs DEF Constant
  <2>3. Share(sigset) \in Int /\ FoundationThreshold(sigset) - 1 \in Int
    BY <2>1, <2>2
  <2> QED BY <2>3 DEF Threshold
<1>5. Number \in Int
  BY <1>3, <1>4, Division DEF Number
<1>6. Foundation \in BOOLEAN /\ Outer \in 0..1
  BY DEF Foundation, Outer
<1>7. Base \in Nat
  <2>1. Len(sigset.vp) \in Nat
    BY LenProperties DEF Constant, IsSigset
  <2>2. SigBase(sigset) \in Nat
    BY DEF SigBase
  <2>3. FoundBase(sigset) \in Nat
    BY <2>1, <2>2 DEF FoundBase
  <2> QED BY <2>2, <2>3 DEF Base
<1>8. \A j \in 1..N : Keys[j] \in Int
  <2>1. CASE Foundation
    <3>1. DOMAIN sigset.foundation = 1..N
      BY <1>2, <2>1 DEF Powers
    <3>2. \A j \in 1..N : Keys[j] = -(MaxSigs + j + 2)
      BY <2>1, <3>1 DEF Keys, FoundationKeys
    <3> QED BY <1>2, <3>2, SigsAssumption
  <2>2. CASE ~Foundation
    <3>1. DOMAIN sigset.vp = 1..N
      BY <1>2, <2>2 DEF Powers
    <3>2. \A j \in 1..N : Keys[j] = -(j + 2)
      BY <2>2, <3>1 DEF Keys, SigKeys
    <3> QED BY <1>2, <3>2
  <2> QED BY <2>1, <2>2
<1>9. \A j \in 1..N : Units(j) \in Nat
  <2> TAKE j \in 1..N
  <2>1. Powers[j] \in Nat
    BY <1>2
  <2> QED BY <2>1, <1>3 DEF Units
<1>10. ~Foundation => Powers = sigset.vp /\ N >= 1
  BY DEF Constant, IsSigset, Powers, N
<1> QED BY <1>1, <1>2, <1>3, <1>4, <1>5, <1>6, <1>7, <1>8, <1>9, <1>10

\* Every key has a name of its own, which is no other item's.
LEMMA KeysAre ==
    ASSUME Constant, NEW j \in 1..N
    PROVE  /\ Keys[j] < -2
           /\ \A k \in 1..N : Keys[k] = Keys[j] => k = j
<1>1. DOMAIN Powers = 1..N /\ N \in Nat
  BY ConstantIs
<1>2. CASE Foundation
  <2>1. DOMAIN sigset.foundation = 1..N
    BY <1>1, <1>2 DEF Powers
  <2>2. \A k \in 1..N : Keys[k] = -(MaxSigs + k + 2)
    BY <1>2, <2>1 DEF Keys, FoundationKeys
  <2> QED BY <1>1, <2>2, SigsAssumption
<1>3. CASE ~Foundation
  <2>1. DOMAIN sigset.vp = 1..N
    BY <1>1, <1>3 DEF Powers
  <2>2. \A k \in 1..N : Keys[k] = -(k + 2)
    BY <1>3, <2>1 DEF Keys, SigKeys
  <2> QED BY <1>1, <2>2
<1> QED BY <1>2, <1>3

--------------------------------------------------------------------------------
(* The instruction at each place *)

LEMMA QuestionAt ==
    ASSUME Constant, NEW j \in 1..N, NEW d \in 1..7
    PROVE  /\ Base + 7 * (j - 1) + d \in 1..Len(script)
           /\ script[Base + 7 * (j - 1) + d] = Question(Keys[j], Units(j), j = 1)[d]
<1> DEFINE k == 7 * (j - 1) + d  m == 7 * N
<1>1. N \in Nat /\ Base \in Nat /\ Unit \in Nat \ {0} /\ k \in 1..m /\ m \in Nat /\ IsSigset(sigset)
  <2>1. N \in Nat /\ Base \in Nat /\ Unit \in Nat \ {0} /\ IsSigset(sigset)
    BY ConstantIs DEF Constant
  <2>2. m \in Nat
    BY <2>1
  <2>3. j - 1 \in Nat /\ j - 1 <= N - 1
    BY <2>1
  <2>4. k \in Nat /\ k >= 1 /\ k <= m
    BY <2>1, <2>3
  <2>5. k \in 1..m
    <3> HIDE DEF k, m
    <3> QED BY <2>2, <2>4
  <2> QED BY <2>1, <2>2, <2>5
<1>2. CASE ~Foundation
  <2>1. Powers = sigset.vp /\ Base = SigBase(sigset) /\ Keys = SigKeys(sigset) /\ Unit = SigUnit(sigset)
    BY <1>2 DEF Powers, Base, Keys, Unit, SigUnit
  <2>2. SignatoriesOpen(sigset)[k] = Question(Keys[j], Units(j), j = 1)[d]
    <3>1. j \in 1..Len(sigset.vp)
      BY <2>1 DEF N
    <3>2. SignatoriesOpen(sigset)[Place(j, d)] = Instr(SigKeys(sigset)[j], sigset.vp[j] \div SigUnit(sigset), j, d)
      BY <1>1, <3>1, SignatoriesOpenIs
    <3>3. Units(j) = sigset.vp[j] \div SigUnit(sigset)
      BY <2>1 DEF Units
    <3> HIDE DEF k
    <3> QED BY <2>1, <3>2, <3>3 DEF k, Place, Instr
  <2> DEFINE lenSig == 7 * Len(sigset.vp) + 4
  <2>3. k \in 1..lenSig /\ lenSig = m + 4
    BY <1>1, <2>1 DEF N
  <2>4. script[Base + k] = SignatoriesOpen(sigset)[k]
    BY <1>1, <2>1, <2>3, ScriptIs DEF Constant
  <2>5. Len(script) >= Base + m + 4
    <3>1. CASE sigset.foundation = NoFoundation
      <4>1. Len(script) = lenSig /\ Base = 0
        BY <1>1, <2>1, <3>1, ScriptIs DEF Constant, SigBase
      <4> QED BY <1>1, <2>3, <4>1
    <3>2. CASE sigset.foundation # NoFoundation
      <4>1. Len(script) = FoundEnd(sigset) /\ FoundBase(sigset) = Base + m + 5 /\ Len(sigset.foundation) \in Nat
        <5>1. Len(script) = FoundEnd(sigset)
          BY <1>1, <3>2, ScriptIs DEF Constant
        <5>2. Len(sigset.foundation) \in Nat
          BY <1>1, <3>2 DEF IsSigset
        <5>3. FoundBase(sigset) = Base + m + 5
          BY <1>1, <2>1 DEF FoundBase, N
        <5> QED BY <5>1, <5>2, <5>3
      <4>2. FoundEnd(sigset) >= FoundBase(sigset)
        <5>1. FoundBase(sigset) \in Nat
          BY <1>1, <4>1
        <5> DEFINE rest == IF sigset.foundation = <<>> THEN 2 ELSE 7 * Len(sigset.foundation) + 3
        <5>2. rest \in Nat
          BY <4>1
        <5>3. FoundEnd(sigset) = FoundBase(sigset) + rest
          BY DEF FoundEnd
        <5> HIDE DEF rest
        <5> QED BY <5>1, <5>2, <5>3
      <4> QED BY <1>1, <4>1, <4>2
    <3> QED BY <3>1, <3>2
  <2>6. Base + 7 * (j - 1) + d = Base + k /\ Base + k \in 1..Len(script)
    <3>1. Base + k \in Nat /\ Base + k >= 1 /\ Base + k <= Base + m
      BY <1>1
    <3>2. Len(script) \in Nat
      BY <1>1, ScriptIs, LenProperties DEF Constant
    <3> QED BY <1>1, <2>5, <3>1, <3>2
  <2> QED BY <2>2, <2>4, <2>6
<1>3. CASE Foundation
  <2>1. /\ Powers = sigset.foundation /\ Base = FoundBase(sigset) /\ Keys = FoundationKeys(sigset) /\ Unit = 1
        /\ sigset.foundation # NoFoundation
    BY <1>3 DEF Powers, Base, Keys, Unit, Foundation
  <2>2. sigset.foundation # <<>>
    BY <1>1, <2>1 DEF N
  <2>3. Units(j) = sigset.foundation[j]
    <3>1. Powers[j] \in Nat
      BY ConstantIs
    <3> QED BY <2>1, <3>1 DEF Units
  <2>4. /\ FoundationOpens(sigset)[k] = Question(Keys[j], Units(j), j = 1)[d]
        /\ Len(FoundationOpens(sigset)) = m + 2
    <3>1. j \in 1..Len(sigset.foundation)
      BY <2>1 DEF N
    <3>2. FoundationOpens(sigset)[Place(j, d)] = Instr(FoundationKeys(sigset)[j], sigset.foundation[j], j, d)
      BY <1>1, <2>2, <3>1, FoundationOpensIs
    <3>3. Len(FoundationOpens(sigset)) = m + 2
      BY <1>1, <2>1, <2>2, FoundationOpensIs DEF N
    <3> HIDE DEF k, m
    <3> QED BY <2>1, <2>3, <3>2, <3>3 DEF k, Place, Instr
  <2>5. k \in 1..Len(FoundationOpens(sigset))
    BY <1>1, <2>4
  <2>6. script[Base + k] = FoundationOpens(sigset)[k] /\ Len(script) = FoundEnd(sigset)
    BY <1>1, <2>1, <2>5, ScriptIs DEF Constant
  <2>7. FoundEnd(sigset) = Base + m + 3
    BY <1>1, <2>1, <2>2 DEF FoundEnd, N
  <2>8. Base + 7 * (j - 1) + d = Base + k /\ Base + k \in 1..Len(script)
    BY <1>1, <2>6, <2>7
  <2> QED BY <2>4, <2>6, <2>8
<1> QED BY <1>2, <1>3

\* The next instruction, t, while the first key is asked ...
LEMMA FirstAt ==
    ASSUME Constant, asked = 0, N >= 1, NEW d \in 0..6, at = Base + 7 * asked + d + 1
    PROVE  /\ at \in 1..Len(script) /\ t \in Instruction
           /\ d = 0 => t.op = "PUSH" /\ t.n = Keys[1]
           /\ d = 1 => t.op = "CHECKSIG"
           /\ d = 2 => t.op = "IF"
           /\ d = 3 => t.op = "PUSH" /\ t.n = Units(1)
           /\ d = 4 => t.op = "ELSE"
           /\ d = 5 => t.op = "PUSH" /\ t.n = 0
           /\ d = 6 => t.op = "ENDIF"
<1>1. N \in Nat /\ 1 \in 1..N /\ d + 1 \in 1..7 /\ Base \in Nat
  BY ConstantIs
<1>2. Keys[1] \in Int /\ Units(1) \in Int /\ TRUE \in BOOLEAN
  BY <1>1, ConstantIs
<1> DEFINE j == 1
<1>3. at = Base + 7 * (j - 1) + (d + 1) /\ (j = 1) = TRUE
  BY <1>1
<1>4. at \in 1..Len(script) /\ t = Question(Keys[1], Units(1), TRUE)[d + 1]
  <2> HIDE DEF j
  <2>1. j \in 1..N
    BY <1>1 DEF j
  <2>2. at \in 1..Len(script) /\ t = Question(Keys[j], Units(j), j = 1)[d + 1]
    <3>1. /\ Base + 7 * (j - 1) + (d + 1) \in 1..Len(script)
          /\ script[Base + 7 * (j - 1) + (d + 1)] = Question(Keys[j], Units(j), j = 1)[d + 1]
      BY <1>1, <2>1, QuestionAt
    <3> QED BY <1>3, <3>1 DEF t
  <2> QED BY <1>3, <2>2 DEF j
<1> DEFINE q == Question(Keys[1], Units(1), TRUE)
<1>5. /\ \A e \in 1..7 : q[e] \in Instruction
      /\ q[1] = Push(Keys[1]) /\ q[2] = Op("CHECKSIG") /\ q[3] = Op("IF") /\ q[4] = Push(Units(1))
      /\ q[5] = Op("ELSE") /\ q[6] = Push(0) /\ q[7] = Op("ENDIF")
  BY <1>2, QuestionIs
<1>q. t = q[d + 1]
  BY <1>4
<1> HIDE DEF q
<1>6. t \in Instruction /\ (d = 0 => t = q[1]) /\ (d = 1 => t = q[2]) /\ (d = 2 => t = q[3]) /\ (d = 3 => t = q[4])
      /\ (d = 4 => t = q[5]) /\ (d = 5 => t = q[6]) /\ (d = 6 => t = q[7])
  BY <1>1, <1>q, <1>5
<1>7. /\ q[1].op = "PUSH" /\ q[1].n = Keys[1] /\ q[2].op = "CHECKSIG" /\ q[3].op = "IF"
      /\ q[4].op = "PUSH" /\ q[4].n = Units(1) /\ q[5].op = "ELSE" /\ q[6].op = "PUSH" /\ q[6].n = 0
      /\ q[7].op = "ENDIF"
  BY <1>2, <1>5, PushIs, OpIs DEF Ops
<1> QED BY <1>4, <1>6, <1>7

\* ... and while another is.
LEMMA LaterAt ==
    ASSUME Constant, asked \in 1..(N - 1), NEW d \in 0..6, at = Base + 7 * asked + d + 1
    PROVE  /\ at \in 1..Len(script) /\ t \in Instruction
           /\ d = 0 => t.op = "SWAP"
           /\ d = 1 => t.op = "PUSH" /\ t.n = Keys[asked + 1]
           /\ d = 2 => t.op = "CHECKSIG"
           /\ d = 3 => t.op = "IF"
           /\ d = 4 => t.op = "PUSH" /\ t.n = Units(asked + 1)
           /\ d = 5 => t.op = "ADD"
           /\ d = 6 => t.op = "ENDIF"
<1> DEFINE j == asked + 1
<1>1. N \in Nat /\ j \in 1..N /\ d + 1 \in 1..7 /\ Base \in Nat /\ (j = 1) = FALSE
  BY ConstantIs
<1>2. Keys[j] \in Int /\ Units(j) \in Int
  BY <1>1, ConstantIs
<1>3. at = Base + 7 * (j - 1) + (d + 1)
  BY <1>1
<1> HIDE DEF j
<1>4. at \in 1..Len(script) /\ t = Question(Keys[j], Units(j), j = 1)[d + 1]
  <2>1. /\ Base + 7 * (j - 1) + (d + 1) \in 1..Len(script)
        /\ script[Base + 7 * (j - 1) + (d + 1)] = Question(Keys[j], Units(j), j = 1)[d + 1]
    BY <1>1, QuestionAt
  <2> QED BY <1>3, <2>1 DEF t
<1> DEFINE q == Question(Keys[j], Units(j), FALSE)
<1>5. /\ \A e \in 1..7 : q[e] \in Instruction
      /\ q[1] = Op("SWAP") /\ q[2] = Push(Keys[j]) /\ q[3] = Op("CHECKSIG") /\ q[4] = Op("IF")
      /\ q[5] = Push(Units(j)) /\ q[6] = Op("ADD") /\ q[7] = Op("ENDIF")
  BY <1>2, QuestionIs
<1>6. t = q[d + 1]
  BY <1>1, <1>4
<1> HIDE DEF q
<1>7. t \in Instruction /\ (d = 0 => t = q[1]) /\ (d = 1 => t = q[2]) /\ (d = 2 => t = q[3]) /\ (d = 3 => t = q[4])
      /\ (d = 4 => t = q[5]) /\ (d = 5 => t = q[6]) /\ (d = 6 => t = q[7])
  BY <1>1, <1>5, <1>6
<1> QED BY <1>2, <1>4, <1>5, <1>7, PushIs, OpIs DEF Ops, j

\* The comparison.
LEMMA CompareAt ==
    ASSUME Constant, N >= 1
    PROVE  /\ Base + 7 * N + 1 \in 1..Len(script) /\ Base + 7 * N + 2 \in 1..Len(script)
           /\ script[Base + 7 * N + 1] = Push(Number)
           /\ Foundation => /\ script[Base + 7 * N + 2] = Op("GREATERTHANOREQUAL")
                            /\ script[Base + 7 * N + 3] = Op("ENDIF")
                            /\ Len(script) = Base + 7 * N + 3
           /\ ~Foundation => /\ script[Base + 7 * N + 2] = Op("GREATERTHAN")
                             /\ script[Base + 7 * N + 3] = Push(Dest)
                             /\ script[Base + 7 * N + 4] = Op("DROP")
                             /\ Outer = 0 => Len(script) = Base + 7 * N + 4
                             /\ Outer = 1 => /\ Len(script) > Base + 7 * N + 5
                                             /\ Base + 7 * N + 5 = FoundBase(sigset)
                                             /\ script[Base + 7 * N + 5] = Op("ELSE")
<1> DEFINE m == 7 * N
<1>1. N \in Nat /\ Base \in Nat /\ m \in Nat /\ IsSigset(sigset) /\ script = Script(sigset)
  BY ConstantIs DEF Constant
<1>2. CASE Foundation
  <2>1. /\ Powers = sigset.foundation /\ Base = FoundBase(sigset) /\ sigset.foundation # NoFoundation
        /\ Number = FoundationThreshold(sigset)
    <3>1. FoundationThreshold(sigset) \in Int
      BY <1>1, SigsetIs
    <3> QED BY <1>2, <3>1 DEF Powers, Base, Foundation, Number, Threshold
  <2>2. sigset.foundation # <<>>
    BY <1>1, <2>1 DEF N
  <2>3. /\ Len(FoundationOpens(sigset)) = m + 2
        /\ FoundationOpens(sigset)[m + 1] = Push(Number)
        /\ FoundationOpens(sigset)[m + 2] = Op("GREATERTHANOREQUAL")
    BY <1>1, <2>1, <2>2, FoundationOpensIs DEF N
  <2>4. FoundEnd(sigset) = Base + m + 3
    BY <1>1, <2>1, <2>2 DEF FoundEnd, N
  <2>5. m + 1 \in 1..Len(FoundationOpens(sigset)) /\ m + 2 \in 1..Len(FoundationOpens(sigset))
    BY <1>1, <2>3
  <2>6. /\ script[Base + (m + 1)] = Push(Number) /\ script[Base + (m + 2)] = Op("GREATERTHANOREQUAL")
        /\ script[Base + m + 3] = Op("ENDIF") /\ Len(script) = Base + m + 3
    BY <1>1, <2>1, <2>3, <2>4, <2>5, ScriptIs
  <2>7. Base + (m + 1) = Base + m + 1 /\ Base + (m + 2) = Base + m + 2
    BY <1>1
  <2> HIDE DEF m
  <2>8. script[Base + m + 1] = Push(Number) /\ script[Base + m + 2] = Op("GREATERTHANOREQUAL")
    BY <2>6, <2>7
  <2>9. Base + m + 1 \in 1..Len(script) /\ Base + m + 2 \in 1..Len(script)
    BY <1>1, <2>6
  <2> QED BY <1>2, <2>6, <2>8, <2>9 DEF m
<1>3. CASE ~Foundation
  <2>1. Powers = sigset.vp /\ Base = SigBase(sigset) /\ Number = Share(sigset) \div SigUnit(sigset)
    BY <1>3 DEF Powers, Base, Number, Threshold, Unit, SigUnit
  <2>2. /\ SignatoriesOpen(sigset)[m + 1] = Push(Number)
        /\ SignatoriesOpen(sigset)[m + 2] = Op("GREATERTHAN")
        /\ SignatoriesOpen(sigset)[m + 3] = Push(Dest)
        /\ SignatoriesOpen(sigset)[m + 4] = Op("DROP")
    BY <1>1, <2>1, SignatoriesOpenIs DEF N
  <2>3. \A k \in 1..(m + 4) : script[Base + k] = SignatoriesOpen(sigset)[k]
    BY <1>1, <2>1, ScriptIs DEF N
  <2>4. /\ Outer = 0 => Len(script) = Base + m + 4
        /\ Outer = 1 => /\ Len(script) = FoundEnd(sigset) /\ FoundBase(sigset) = Base + m + 5
                        /\ script[FoundBase(sigset)] = Op("ELSE")
    <3>1. CASE sigset.foundation = NoFoundation
      <4>1. Len(script) = m + 4 /\ Base = 0 /\ Outer = 0
        BY <1>1, <2>1, <3>1, ScriptIs DEF SigBase, N, Outer
      <4> QED BY <1>1, <4>1
    <3>2. CASE sigset.foundation # NoFoundation
      BY <1>1, <2>1, <3>2, ScriptIs DEF FoundBase, N, Outer
    <3> QED BY <3>1, <3>2
  <2>5. Len(sigset.foundation) \in Nat /\ Outer \in 0..1
    BY <1>1, LenProperties, ConstantIs DEF IsSigset
  <2>6. Outer = 1 => Len(script) > Base + m + 5
    <3>1. Outer = 1 => FoundEnd(sigset) > FoundBase(sigset) /\ FoundBase(sigset) \in Nat
      BY <1>1, <2>4, <2>5 DEF FoundEnd
    <3> QED BY <2>4, <3>1
  <2> HIDE DEF m
  <2>7. /\ script[Base + m + 1] = Push(Number) /\ script[Base + m + 2] = Op("GREATERTHAN")
        /\ script[Base + m + 3] = Push(Dest) /\ script[Base + m + 4] = Op("DROP")
    <3>1. m + 1 \in 1..(m + 4) /\ m + 2 \in 1..(m + 4) /\ m + 3 \in 1..(m + 4) /\ m + 4 \in 1..(m + 4)
      BY <1>1
    <3>2. /\ script[Base + (m + 1)] = Push(Number) /\ script[Base + (m + 2)] = Op("GREATERTHAN")
          /\ script[Base + (m + 3)] = Push(Dest) /\ script[Base + (m + 4)] = Op("DROP")
      BY <2>2, <2>3, <3>1
    <3>3. /\ Base + (m + 1) = Base + m + 1 /\ Base + (m + 2) = Base + m + 2
          /\ Base + (m + 3) = Base + m + 3 /\ Base + (m + 4) = Base + m + 4
      BY <1>1
    <3> QED BY <3>2, <3>3
  <2>8. Base + m + 1 \in 1..Len(script) /\ Base + m + 2 \in 1..Len(script)
    <3>1. Len(script) \in Nat
      BY <1>1, ScriptIs, LenProperties
    <3> QED BY <1>1, <2>4, <2>5, <2>6, <3>1
  <2>9. Outer = 1 => Base + m + 5 = FoundBase(sigset) /\ script[Base + m + 5] = Op("ELSE")
    BY <2>4
  <2> QED BY <1>3, <2>4, <2>6, <2>7, <2>8, <2>9 DEF m
<1> QED BY <1>2, <1>3

--------------------------------------------------------------------------------
(* A step of the interpreter *)

Typed ==
    /\ Constant
    /\ at \in Nat \ {0} /\ stack \in Seq(Int) /\ cond \in Seq({0, 1})
    /\ asked \in Nat /\ acc \in Int

Move == Skip \/ Execute \/ If \/ Else \/ EndIf

\* A loop of OP_IFs, all of them taken; and another inside them.
Straight(c, n)  == Len(c) = n /\ \A j \in 1..n : c[j] = 1
Within(c, n, x) == Len(c) = n + 1 /\ c[1] = x /\ \A j \in 2..(n + 1) : c[j] = 1

LEMMA MoveIs ==
    ASSUME Typed, Move
    PROVE  /\ Same /\ Constant' /\ at' = at + 1 /\ at' \in Nat \ {0}
           /\ result = "none" /\ result' = "none" /\ at <= Len(script)
<1>1. sigset' = sigset /\ witness' = witness /\ script' = script /\ at' = at + 1
      /\ result = "none" /\ result' = "none" /\ at <= Len(script)
  BY DEF Move, Skip, Execute, If, Else, EndIf, Continue, Running
<1>2. Same
  BY <1>1, SameIs
<1>3. Constant'
  BY <1>1 DEF Typed, Constant
<1> QED BY <1>1, <1>2, <1>3 DEF Typed

LEMMA Executed ==
    ASSUME Typed, Move, Runs, t \in Instruction, t.op \notin Flow
    PROVE  /\ Typed' /\ cond' = cond /\ asked' = asked /\ acc' = acc
           /\ signers' = IF t.op = "CHECKSIG" /\ stack[1] = stack[2] THEN signers \cup {stack[1]} ELSE signers
           /\ t.op = "PUSH" => Moved(stack, stack', 0, 1) /\ stack'[1] = t.n
           /\ t.op = "DROP" => Moved(stack, stack', 1, 0)
           /\ t.op = "SWAP" => /\ Moved(stack, stack', 2, 2)
                               /\ stack'[1] = stack[2] /\ stack'[2] = stack[1]
           /\ t.op \in {"CHECKSIG", "EQUAL"} =>
                /\ Moved(stack, stack', 2, 1)
                /\ stack'[1] = Truth(stack[1] = stack[2])
           /\ t.op = "ADD" => Moved(stack, stack', 2, 1) /\ stack'[1] = stack[1] + stack[2]
           /\ t.op = "GREATERTHAN" => Moved(stack, stack', 2, 1) /\ stack'[1] = Truth(stack[2] > stack[1])
           /\ t.op = "GREATERTHANOREQUAL" =>
                Moved(stack, stack', 2, 1) /\ stack'[1] = Truth(stack[2] >= stack[1])
<1>1. Execute
  BY DEF Move, Skip, Execute, If, Else, EndIf, Flow
<1>2. /\ stack' = Effect(t, stack) /\ cond' = cond /\ asked' = asked /\ acc' = acc
      /\ signers' = IF t.op = "CHECKSIG" /\ stack[1] = stack[2] THEN signers \cup {stack[1]} ELSE signers
  BY <1>1 DEF Execute
<1>3. t.op # "RETURN" /\ Len(stack) >= Arity(t.op)
  <2>1. stack \in Seq(Int) /\ Len(stack) \in Nat /\ Arity(t.op) \in Nat
    BY DEF Typed, Arity
  <2>2. ~(Len(stack) < Arity(t.op)) /\ t.op # "RETURN"
    BY <1>1 DEF Execute, Stuck
  <2> QED BY <2>1, <2>2
<1>4. stack \in Seq(Int)
  BY DEF Typed
<1> DEFINE i == t  s == stack  e == Effect(i, s)
<1>5. /\ e \in Seq(Int)
      /\ i.op = "PUSH" => Moved(s, e, 0, 1) /\ e[1] = i.n
      /\ i.op = "DROP" => Moved(s, e, 1, 0)
      /\ i.op = "SWAP" => Moved(s, e, 2, 2) /\ e[1] = s[2] /\ e[2] = s[1]
      /\ i.op \in {"CHECKSIG", "EQUAL"} => Moved(s, e, 2, 1) /\ e[1] = Truth(s[1] = s[2])
      /\ i.op = "ADD" => Moved(s, e, 2, 1) /\ e[1] = s[1] + s[2]
      /\ i.op = "GREATERTHAN" => Moved(s, e, 2, 1) /\ e[1] = Truth(s[2] > s[1])
      /\ i.op = "GREATERTHANOREQUAL" => Moved(s, e, 2, 1) /\ e[1] = Truth(s[2] >= s[1])
  <2>1. i \in Instruction /\ i.op \notin Flow /\ i.op # "RETURN" /\ Len(s) >= Arity(i.op) /\ s \in Seq(Int)
    BY <1>3, <1>4
  <2> HIDE DEF i, s
  <2> QED BY <2>1, EffectIs
<1>6. Typed'
  <2>1. stack' \in Seq(Int)
    BY <1>2, <1>5
  <2> QED BY <2>1, <1>2, MoveIs DEF Typed
<1>7. stack' = e
  BY <1>2
<1> HIDE DEF e
<1> QED BY <1>2, <1>5, <1>6, <1>7

LEMMA Skipped ==
    ASSUME Typed, Move, ~Runs, t.op \notin Flow
    PROVE  Typed' /\ stack' = stack /\ cond' = cond /\ asked' = asked /\ acc' = acc /\ signers' = signers
<1>1. Skip
  BY DEF Move, Skip, Execute, If, Else, EndIf, Flow
<1>2. stack' = stack /\ cond' = cond /\ asked' = asked /\ acc' = acc /\ signers' = signers
  BY <1>1 DEF Skip, history
<1> QED BY <1>2, MoveIs DEF Typed

LEMMA TailIs ==
    ASSUME NEW S, NEW s \in Seq(S), Len(s) >= 1
    PROVE  /\ Tail(s) \in Seq(S) /\ Len(Tail(s)) = Len(s) - 1
           /\ \A j \in 1..(Len(s) - 1) : Tail(s)[j] = s[j + 1]
<1>1. s # <<>>
  OBVIOUS
<1> QED BY <1>1, HeadTailProperties

LEMMA TookIf ==
    ASSUME Typed, Move, t.op = "IF"
    PROVE  /\ Typed' /\ asked' = asked /\ acc' = acc /\ signers' = signers
           /\ Len(cond') = Len(cond) + 1
           /\ cond'[1] = Truth(Runs /\ stack[1] # 0)
           /\ \A j \in 2..(Len(cond) + 1) : cond'[j] = cond[j - 1]
           /\ Runs => Len(stack) >= 1 /\ Moved(stack, stack', 1, 0)
           /\ ~Runs => stack' = stack
<1>1. If
  BY DEF Move, Skip, Execute, If, Else, EndIf, Flow
<1>2. /\ cond' = OnTop(Truth(Runs /\ stack[1] # 0), cond)
      /\ stack' = (IF Runs THEN Tail(stack) ELSE stack)
      /\ asked' = asked /\ acc' = acc /\ signers' = signers
  BY <1>1 DEF If, history
<1>3. stack \in Seq(Int) /\ cond \in Seq({0, 1}) /\ Len(stack) \in Nat /\ Len(cond) \in Nat
  BY DEF Typed
<1> DEFINE x == Truth(Runs /\ stack[1] # 0)  c == OnTop(x, cond)
<1>4. x \in {0, 1}
  BY DEF Truth
<1>5. /\ c \in Seq({0, 1}) /\ Len(c) = Len(cond) + 1 /\ c[1] = x
      /\ \A j \in 2..(Len(cond) + 1) : c[j] = cond[j - 1]
  <2> DEFINE B == {0, 1}
  <2>1. x \in B /\ cond \in Seq(B)
    BY <1>3, <1>4
  <2> HIDE DEF x, B
  <2>2. /\ c \in Seq(B) /\ Len(c) = Len(cond) + 1 /\ c[1] = x
        /\ \A j \in 2..(Len(cond) + 1) : c[j] = cond[j - 1]
    BY <2>1, OnTopIs
  <2> HIDE DEF c
  <2> QED BY <2>2 DEF B
<1>6. cond' = c
  BY <1>2
<1>7. CASE Runs
  <2>1. Len(stack) >= 1
    <3>1. ~(Len(stack) < Arity(t.op)) /\ Arity(t.op) = 1
      BY <1>1, <1>7 DEF If, Stuck, Arity
    <3> QED BY <1>3, <3>1
  <2>2. /\ Tail(stack) \in Seq(Int) /\ Len(Tail(stack)) = Len(stack) - 1
        /\ \A j \in 1..(Len(stack) - 1) : Tail(stack)[j] = stack[j + 1]
    BY <1>3, <2>1, TailIs
  <2> DEFINE tl == Tail(stack)
  <2> HIDE DEF tl
  <2>3. Moved(stack, tl, 1, 0)
    <3>1. \A j \in 1..Len(tl) : tl[j] = stack[j - 0 + 1]
      <4> TAKE j \in 1..Len(tl)
      <4>1. j \in 1..(Len(stack) - 1) /\ j - 0 + 1 = j + 1
        BY <1>3, <2>2 DEF tl
      <4> QED BY <2>2, <4>1 DEF tl
    <3> QED BY <1>3, <2>1, <2>2, <3>1 DEF Moved, tl
  <2>4. stack' = tl
    BY <1>2, <1>7 DEF tl
  <2>5. Typed'
    BY <1>2, <1>5, <1>6, <2>2, <2>4, MoveIs DEF Typed, tl
  <2> HIDE DEF c
  <2> QED BY <1>2, <1>5, <1>6, <1>7, <2>1, <2>3, <2>4, <2>5
<1>8. CASE ~Runs
  <2>1. stack' = stack
    BY <1>2, <1>8
  <2>2. Typed'
    BY <1>2, <1>3, <1>5, <1>6, <2>1, MoveIs DEF Typed
  <2> HIDE DEF c
  <2> QED BY <1>2, <1>5, <1>6, <1>8, <2>1, <2>2
<1> QED BY <1>7, <1>8

LEMMA TookElse ==
    ASSUME Typed, Move, t.op = "ELSE", Len(cond) >= 1
    PROVE  /\ Typed' /\ stack' = stack /\ asked' = asked /\ acc' = acc /\ signers' = signers
           /\ Len(cond') = Len(cond) /\ cond'[1] = 1 - cond[1]
           /\ \A j \in 2..Len(cond) : cond'[j] = cond[j]
<1>1. Else
  BY DEF Move, Skip, Execute, If, Else, EndIf, Flow
<1>2. /\ cond' = OnTop(1 - cond[1], Tail(cond))
      /\ stack' = stack /\ asked' = asked /\ acc' = acc /\ signers' = signers
  BY <1>1 DEF Else, history
<1>3. cond \in Seq({0, 1}) /\ Len(cond) \in Nat
  BY DEF Typed
<1> DEFINE x == 1 - cond[1]  tl == Tail(cond)  c == OnTop(x, tl)
<1>4. x \in {0, 1}
  <2>1. 1 \in 1..Len(cond)
    BY <1>3
  <2>2. cond[1] \in {0, 1}
    BY <1>3, <2>1, ElementOfSeq
  <2> QED BY <2>2
<1>5. tl \in Seq({0, 1}) /\ Len(tl) = Len(cond) - 1 /\ \A j \in 1..(Len(cond) - 1) : tl[j] = cond[j + 1]
  BY <1>3, TailIs
<1> HIDE DEF x, tl
<1>6. /\ c \in Seq({0, 1}) /\ Len(c) = Len(tl) + 1 /\ c[1] = x
      /\ \A j \in 2..(Len(tl) + 1) : c[j] = tl[j - 1]
  <2> DEFINE B == {0, 1}
  <2>1. x \in B /\ tl \in Seq(B)
    BY <1>4, <1>5
  <2> HIDE DEF B
  <2>2. /\ c \in Seq(B) /\ Len(c) = Len(tl) + 1 /\ c[1] = x
        /\ \A j \in 2..(Len(tl) + 1) : c[j] = tl[j - 1]
    BY <2>1, OnTopIs
  <2> HIDE DEF c
  <2> QED BY <2>2 DEF B
<1>7. cond' = c
  BY <1>2 DEF x, tl
<1> HIDE DEF c
<1>8. \A j \in 2..Len(cond) : c[j] = cond[j]
  <2> TAKE j \in 2..Len(cond)
  <2>1. j \in 2..(Len(tl) + 1) /\ j - 1 \in 1..(Len(cond) - 1) /\ (j - 1) + 1 = j
    BY <1>3, <1>5
  <2>2. c[j] = tl[j - 1] /\ tl[j - 1] = cond[(j - 1) + 1]
    BY <1>5, <1>6, <2>1
  <2> QED BY <2>1, <2>2
<1>9. Typed'
  BY <1>2, <1>6, <1>7, MoveIs DEF Typed
<1>10. Len(c) = Len(cond)
  BY <1>3, <1>5, <1>6
<1> QED BY <1>2, <1>6, <1>7, <1>8, <1>9, <1>10 DEF x

LEMMA TookEndIf ==
    ASSUME Typed, Move, t.op = "ENDIF", Len(cond) >= 1
    PROVE  /\ Typed' /\ stack' = stack /\ signers' = signers
           /\ Len(cond') = Len(cond) - 1
           /\ \A j \in 1..(Len(cond) - 1) : cond'[j] = cond[j + 1]
           /\ asked' = IF Asks THEN asked + 1 ELSE asked
           /\ (Asks /\ Len(stack) >= 1) => acc' = stack[1]
           /\ ~Asks => acc' = acc
<1>1. EndIf
  BY DEF Move, Skip, Execute, If, Else, EndIf, Flow
<1>2. /\ cond' = Tail(cond) /\ stack' = stack /\ signers' = signers
      /\ asked' = (IF Asks THEN asked + 1 ELSE asked)
      /\ acc' = (IF Asks /\ stack # <<>> THEN stack[1] ELSE acc)
  BY <1>1 DEF EndIf
<1>3. cond \in Seq({0, 1}) /\ stack \in Seq(Int) /\ asked \in Nat /\ acc \in Int /\ Len(stack) \in Nat
  BY DEF Typed
<1> DEFINE tl == Tail(cond)
<1>4. tl \in Seq({0, 1}) /\ Len(tl) = Len(cond) - 1 /\ \A j \in 1..(Len(cond) - 1) : tl[j] = cond[j + 1]
  BY <1>3, TailIs
<1>5. cond' = tl
  BY <1>2
<1> HIDE DEF tl
<1>6. stack # <<>> => 1 \in 1..Len(stack)
  BY <1>3
<1>7. stack # <<>> => stack[1] \in Int
  BY <1>3, <1>6, ElementOfSeq
<1>8. asked' \in Nat /\ acc' \in Int
  BY <1>2, <1>3, <1>7
<1>9. Typed'
  BY <1>2, <1>3, <1>4, <1>5, <1>8, MoveIs DEF Typed
<1>10. Len(stack) >= 1 => stack # <<>>
  OBVIOUS
<1> QED BY <1>2, <1>4, <1>5, <1>9, <1>10

--------------------------------------------------------------------------------
(* Steps, seen on what is left of the witness *)

LEMMA Overs ==
    ASSUME NEW s \in Seq(Int), NEW s1 \in Seq(Int), NEW w \in Seq(Int), NEW c \in Nat
    PROVE  /\ Over(s, w, 0, c) /\ Moved(s, s1, 0, 1) => Over(s1, w, 1, c)
           /\ Over(s, w, 1, c) /\ Moved(s, s1, 0, 1) => Over(s1, w, 2, c) /\ s1[2] = s[1]
           /\ Over(s, w, 2, c) /\ Moved(s, s1, 0, 1) => Over(s1, w, 3, c) /\ s1[2] = s[1] /\ s1[3] = s[2]
           /\ Over(s, w, 1, c) /\ Moved(s, s1, 1, 0) => Over(s1, w, 0, c)
           /\ Over(s, w, 2, c) /\ Moved(s, s1, 1, 0) => Over(s1, w, 1, c) /\ s1[1] = s[2]
           /\ Over(s, w, 1, c) /\ Moved(s, s1, 2, 1) => Over(s1, w, 1, c + 1) /\ s[2] = w[c + 1]
           /\ Over(s, w, 1, c) /\ Moved(s, s1, 2, 2) => Over(s1, w, 2, c + 1) /\ s[2] = w[c + 1]
           /\ Over(s, w, 2, c) /\ Moved(s, s1, 2, 1) => Over(s1, w, 1, c)
           /\ Over(s, w, 3, c) /\ Moved(s, s1, 2, 1) => Over(s1, w, 2, c) /\ s1[2] = s[3]
<1>1. Len(s) \in Nat /\ Len(s1) \in Nat /\ Len(w) \in Nat
  OBVIOUS
<1>2. ASSUME Over(s, w, 0, c), Moved(s, s1, 0, 1) PROVE Over(s1, w, 1, c)
  <2>1. c <= Len(w) /\ Len(s) = Len(w) - c /\ Len(s1) = Len(s) + 1
    BY <1>1, <1>2 DEF Over, Moved
  <2>2. \A j \in 2..Len(s1) : s1[j] = w[c + j - 1]
    <3> TAKE j \in 2..Len(s1)
    <3>1. s1[j] = s[j - 1 + 0]
      BY <1>1, <1>2 DEF Moved
    <3>2. j - 1 + 0 \in 1..Len(s) /\ c + (j - 1 + 0) - 0 = c + j - 1
      BY <1>1, <2>1
    <3>3. \A i \in 1..Len(s) : s[i] = w[c + i - 0]
      BY <1>2 DEF Over
    <3>4. s[j - 1 + 0] = w[c + (j - 1 + 0) - 0]
      BY <3>2, <3>3
    <3> QED BY <3>1, <3>2, <3>4
  <2> QED BY <1>1, <2>1, <2>2 DEF Over
<1>3. ASSUME Over(s, w, 1, c), Moved(s, s1, 0, 1) PROVE Over(s1, w, 2, c) /\ s1[2] = s[1]
  <2>1. c <= Len(w) /\ Len(s) = 1 + Len(w) - c /\ Len(s1) = Len(s) + 1
    BY <1>1, <1>3 DEF Over, Moved
  <2>2. \A j \in 2..Len(s1) : s1[j] = s[j - 1]
    <3> TAKE j \in 2..Len(s1)
    <3>1. s1[j] = s[j - 1 + 0] /\ j - 1 + 0 = j - 1
      BY <1>1, <1>3 DEF Moved
    <3> QED BY <3>1
  <2>3. \A j \in 3..Len(s1) : s1[j] = w[c + j - 2]
    <3> TAKE j \in 3..Len(s1)
    <3>1. j - 1 \in 2..Len(s) /\ c + (j - 1) - 1 = c + j - 2 /\ j \in 2..Len(s1)
      BY <1>1, <2>1
    <3>2. \A i \in 2..Len(s) : s[i] = w[c + i - 1]
      BY <1>3 DEF Over
    <3>3. s[j - 1] = w[c + (j - 1) - 1]
      BY <3>1, <3>2
    <3> QED BY <2>2, <3>1, <3>3
  <2>4. 2 \in 2..Len(s1) /\ 2 - 1 = 1
    BY <1>1, <2>1
  <2>5. s1[2] = s[1]
    BY <2>2, <2>4
  <2> QED BY <1>1, <2>1, <2>3, <2>5 DEF Over
<1>4. ASSUME Over(s, w, 2, c), Moved(s, s1, 0, 1) PROVE Over(s1, w, 3, c) /\ s1[2] = s[1] /\ s1[3] = s[2]
  <2>1. c <= Len(w) /\ Len(s) = 2 + Len(w) - c /\ Len(s1) = Len(s) + 1
    BY <1>1, <1>4 DEF Over, Moved
  <2>2. \A j \in 2..Len(s1) : s1[j] = s[j - 1]
    <3> TAKE j \in 2..Len(s1)
    <3>1. s1[j] = s[j - 1 + 0] /\ j - 1 + 0 = j - 1
      BY <1>1, <1>4 DEF Moved
    <3> QED BY <3>1
  <2>3. \A j \in 4..Len(s1) : s1[j] = w[c + j - 3]
    <3> TAKE j \in 4..Len(s1)
    <3>1. j - 1 \in 3..Len(s) /\ c + (j - 1) - 2 = c + j - 3 /\ j \in 2..Len(s1)
      BY <1>1, <2>1
    <3>2. \A i \in 3..Len(s) : s[i] = w[c + i - 2]
      BY <1>4 DEF Over
    <3>3. s[j - 1] = w[c + (j - 1) - 2]
      BY <3>1, <3>2
    <3> QED BY <2>2, <3>1, <3>3
  <2>4. 2 \in 2..Len(s1) /\ 3 \in 2..Len(s1) /\ 2 - 1 = 1 /\ 3 - 1 = 2
    BY <1>1, <2>1
  <2>5. s1[2] = s[1] /\ s1[3] = s[2]
    BY <2>2, <2>4
  <2> QED BY <1>1, <2>1, <2>3, <2>5 DEF Over
<1>5. ASSUME Over(s, w, 1, c), Moved(s, s1, 1, 0) PROVE Over(s1, w, 0, c)
  BY <1>1, <1>5 DEF Over, Moved
<1>6. ASSUME Over(s, w, 2, c), Moved(s, s1, 1, 0) PROVE Over(s1, w, 1, c) /\ s1[1] = s[2]
  <2>1. c <= Len(w) /\ Len(s) = 2 + Len(w) - c /\ Len(s1) = Len(s) - 1
    BY <1>1, <1>6 DEF Over, Moved
  <2>2. \A j \in 1..Len(s1) : s1[j] = s[j + 1]
    <3> TAKE j \in 1..Len(s1)
    <3>1. s1[j] = s[j - 0 + 1] /\ j - 0 + 1 = j + 1
      BY <1>1, <1>6 DEF Moved
    <3> QED BY <3>1
  <2>3. \A j \in 2..Len(s1) : s1[j] = w[c + j - 1]
    <3> TAKE j \in 2..Len(s1)
    <3>1. j + 1 \in 3..Len(s) /\ c + (j + 1) - 2 = c + j - 1 /\ j \in 1..Len(s1)
      BY <1>1, <2>1
    <3>2. \A i \in 3..Len(s) : s[i] = w[c + i - 2]
      BY <1>6 DEF Over
    <3>3. s[j + 1] = w[c + (j + 1) - 2]
      BY <3>1, <3>2
    <3> QED BY <2>2, <3>1, <3>3
  <2>4. 1 \in 1..Len(s1) /\ 1 + 1 = 2
    BY <1>1, <2>1
  <2>5. s1[1] = s[2]
    BY <2>2, <2>4
  <2> QED BY <1>1, <2>1, <2>3, <2>5 DEF Over
<1>7. ASSUME Over(s, w, 1, c), Moved(s, s1, 2, 1) PROVE Over(s1, w, 1, c + 1) /\ s[2] = w[c + 1]
  <2>1. c + 1 <= Len(w) /\ Len(s) = 1 + Len(w) - c /\ Len(s1) = Len(s) - 1 /\ 2 <= Len(s)
    BY <1>1, <1>7 DEF Over, Moved
  <2>2. \A i \in 2..Len(s) : s[i] = w[c + i - 1]
    BY <1>7 DEF Over
  <2>3. \A j \in 2..Len(s1) : s1[j] = w[(c + 1) + j - 1]
    <3> TAKE j \in 2..Len(s1)
    <3>1. s1[j] = s[j - 1 + 2]
      BY <1>1, <1>7 DEF Moved
    <3>2. j - 1 + 2 \in 2..Len(s) /\ c + (j - 1 + 2) - 1 = (c + 1) + j - 1
      BY <1>1, <2>1
    <3>3. s[j - 1 + 2] = w[c + (j - 1 + 2) - 1]
      BY <2>2, <3>2
    <3> QED BY <3>1, <3>2, <3>3
  <2>4. s[2] = w[c + 1]
    <3>1. 2 \in 2..Len(s) /\ c + 2 - 1 = c + 1
      BY <1>1, <2>1
    <3> QED BY <2>2, <3>1
  <2> QED BY <1>1, <2>1, <2>3, <2>4 DEF Over
<1>8. ASSUME Over(s, w, 1, c), Moved(s, s1, 2, 2) PROVE Over(s1, w, 2, c + 1) /\ s[2] = w[c + 1]
  BY <1>1, <1>8 DEF Over, Moved
<1>9. ASSUME Over(s, w, 2, c), Moved(s, s1, 2, 1) PROVE Over(s1, w, 1, c)
  BY <1>1, <1>9 DEF Over, Moved
<1>10. ASSUME Over(s, w, 3, c), Moved(s, s1, 2, 1) PROVE Over(s1, w, 2, c) /\ s1[2] = s[3]
  <2>1. c <= Len(w) /\ Len(s) = 3 + Len(w) - c /\ Len(s1) = Len(s) - 1
    BY <1>1, <1>10 DEF Over, Moved
  <2>2. \A j \in 2..Len(s1) : s1[j] = s[j + 1]
    <3> TAKE j \in 2..Len(s1)
    <3>1. s1[j] = s[j - 1 + 2] /\ j - 1 + 2 = j + 1
      BY <1>1, <1>10 DEF Moved
    <3> QED BY <3>1
  <2>3. \A j \in 3..Len(s1) : s1[j] = w[c + j - 2]
    <3> TAKE j \in 3..Len(s1)
    <3>1. j + 1 \in 4..Len(s) /\ c + (j + 1) - 3 = c + j - 2 /\ j \in 2..Len(s1)
      BY <1>1, <2>1
    <3>2. \A i \in 4..Len(s) : s[i] = w[c + i - 3]
      BY <1>10 DEF Over
    <3>3. s[j + 1] = w[c + (j + 1) - 3]
      BY <3>1, <3>2
    <3> QED BY <2>2, <3>1, <3>3
  <2>4. 2 \in 2..Len(s1) /\ 2 + 1 = 3
    BY <1>1, <2>1
  <2>5. s1[2] = s[3]
    BY <2>2, <2>4
  <2> QED BY <1>1, <2>1, <2>3, <2>5 DEF Over
<1> QED BY <1>2, <1>3, <1>4, <1>5, <1>6, <1>7, <1>8, <1>9, <1>10

\* Which branches run.
LEMMA RunsIs ==
    ASSUME Typed, NEW n \in Nat
    PROVE  /\ Straight(cond, n) => Runs
           /\ \A x \in {0, 1} : Within(cond, n, x) => (Runs <=> x = 1)
<1>1. DOMAIN cond = 1..Len(cond)
  BY LenProperties DEF Typed
<1>2. Straight(cond, n) => Runs
  BY <1>1 DEF Straight, Runs
<1>3. ASSUME NEW x \in {0, 1}, Within(cond, n, x)
      PROVE  Runs <=> x = 1
  <2>1. Len(cond) = n + 1 /\ cond[1] = x /\ \A j \in 2..(n + 1) : cond[j] = 1
    BY <1>3 DEF Within
  <2>2. 1 \in 1..(n + 1) /\ \A j \in 1..(n + 1) : j = 1 \/ j \in 2..(n + 1)
    OBVIOUS
  <2> QED BY <1>1, <2>1, <2>2 DEF Runs
<1> QED BY <1>2, <1>3

LEMMA TookIfStraight ==
    ASSUME Typed, Move, t.op = "IF", NEW n \in Nat, Straight(cond, n)
    PROVE  /\ Typed' /\ asked' = asked /\ acc' = acc /\ signers' = signers
           /\ Within(cond', n, Truth(stack[1] # 0))
           /\ Len(stack) >= 1 /\ Moved(stack, stack', 1, 0)
<1>1. Runs
  BY RunsIs
<1>2. Len(cond) = n /\ \A j \in 1..n : cond[j] = 1
  BY DEF Straight
<1>3. Truth(Runs /\ stack[1] # 0) = Truth(stack[1] # 0)
  BY <1>1
<1>4. /\ Len(cond') = n + 1 /\ cond'[1] = Truth(stack[1] # 0)
      /\ \A j \in 2..(n + 1) : cond'[j] = cond[j - 1]
  BY <1>2, <1>3, TookIf
<1>5. \A j \in 2..(n + 1) : cond'[j] = 1
  <2> TAKE j \in 2..(n + 1)
  <2>1. j - 1 \in 1..n
    OBVIOUS
  <2> QED BY <1>2, <1>4, <2>1
<1>6. Within(cond', n, Truth(stack[1] # 0))
  BY <1>4, <1>5 DEF Within
<1> QED BY <1>1, <1>6, TookIf

LEMMA TookElseWithin ==
    ASSUME Typed, Move, t.op = "ELSE", NEW n \in Nat, NEW x \in {0, 1}, Within(cond, n, x)
    PROVE  /\ Typed' /\ stack' = stack /\ asked' = asked /\ acc' = acc /\ signers' = signers
           /\ Within(cond', n, 1 - x)
<1>1. Len(cond) = n + 1 /\ cond[1] = x /\ \A j \in 2..(n + 1) : cond[j] = 1
  BY DEF Within
<1>2. Len(cond) >= 1
  BY <1>1
<1> QED BY <1>1, <1>2, TookElse DEF Within

LEMMA TookEndIfWithin ==
    ASSUME Typed, Move, t.op = "ENDIF", NEW x \in {0, 1}, Within(cond, Outer, x)
    PROVE  /\ Typed' /\ stack' = stack /\ signers' = signers
           /\ Straight(cond', Outer)
           /\ asked' = asked + 1
           /\ Len(stack) >= 1 => acc' = stack[1]
<1>1. Len(cond) = Outer + 1 /\ cond[1] = x /\ \A j \in 2..(Outer + 1) : cond[j] = 1
  BY DEF Within
<1>2. Outer \in Nat /\ Len(cond) >= 1
  BY <1>1, ConstantIs DEF Typed
<1>3. Asks
  BY <1>1, <1>2 DEF Asks
<1>4. /\ Len(cond') = Outer
      /\ \A j \in 1..Outer : cond'[j] = cond[j + 1]
  BY <1>1, <1>2, TookEndIf
<1>5. \A j \in 1..Outer : cond'[j] = 1
  <2> TAKE j \in 1..Outer
  <2>1. j + 1 \in 2..(Outer + 1)
    BY <1>2
  <2> QED BY <1>1, <1>4, <2>1
<1> QED BY <1>2, <1>3, <1>4, <1>5, TookEndIf DEF Straight

--------------------------------------------------------------------------------
(* The keys that signed *)

Signed(j) == witness[Outer + j] = Keys[j]
SignersOf(keys, w, o, n) == {keys[j] : j \in {i \in 1..n : w[o + i] = keys[i]}}
SignersAre(n) == signers = SignersOf(Keys, witness, Outer, n)

LEMMA SignersGrow ==
    ASSUME NEW keys, NEW w, NEW o, NEW n \in Nat
    PROVE  /\ SignersOf(keys, w, o, 0) = {}
           /\ w[o + (n + 1)] = keys[n + 1] => SignersOf(keys, w, o, n + 1) = SignersOf(keys, w, o, n) \cup {keys[n + 1]}
           /\ w[o + (n + 1)] # keys[n + 1] => SignersOf(keys, w, o, n + 1) = SignersOf(keys, w, o, n)
<1>1. SignersOf(keys, w, o, 0) = {}
  BY DEF SignersOf
<1>2. \A i : i \in 1..(n + 1) <=> i \in 1..n \/ i = n + 1
  OBVIOUS
<1> DEFINE m == n + 1
<1> HIDE DEF m
<1>3. CASE w[o + m] = keys[m]
  <2>1. SignersOf(keys, w, o, m) = SignersOf(keys, w, o, n) \cup {keys[m]}
    <3>1. \A i : i \in 1..m <=> i \in 1..n \/ i = m
      BY <1>2 DEF m
    <3> QED BY <1>3, <3>1, Zenon DEF SignersOf
  <2> QED BY <1>1, <1>3, <2>1 DEF m
<1>4. CASE w[o + m] # keys[m]
  <2>1. SignersOf(keys, w, o, m) = SignersOf(keys, w, o, n)
    <3>1. \A i : i \in 1..m <=> i \in 1..n \/ i = m
      BY <1>2 DEF m
    <3> QED BY <1>4, <3>1, Zenon DEF SignersOf
  <2> QED BY <1>1, <1>4, <2>1 DEF m
<1> QED BY <1>3, <1>4

\* The units of those who signed, of the first n keys.
UnitsOf(powers, unit, keys, w, o) ==
    [j \in DOMAIN powers |-> IF w[o + j] = keys[j] THEN powers[j] \div unit ELSE 0]
Tallied(n) == SumTo(UnitsOf(Powers, Unit, Keys, witness, Outer), n)

LEMMA TalliedIs ==
    ASSUME Constant
    PROVE  /\ Tallied(0) = 0
           /\ \A n \in 0..(N - 1) : Tallied(n + 1) = Tallied(n) + (IF Signed(n + 1) THEN Units(n + 1) ELSE 0)
           /\ \A n \in 0..N : Tallied(n) \in Nat
<1> DEFINE f == UnitsOf(Powers, Unit, Keys, witness, Outer)
<1>1. N \in Nat /\ DOMAIN Powers = 1..N /\ \A j \in 1..N : Units(j) \in Nat
  BY ConstantIs
<1>2. \A j \in 1..N : f[j] = IF Signed(j) THEN Units(j) ELSE 0
  BY <1>1 DEF UnitsOf, Signed, Units
<1>3. \A j \in 1..N : f[j] \in Nat
  BY <1>1, <1>2
<1> HIDE DEF f
<1>4. SumTo(f, 0) = 0 /\ \A n \in Nat : SumTo(f, n + 1) = SumTo(f, n) + f[n + 1]
  BY SumToIs
<1>5. \A n \in 0..N : SumTo(f, n) \in Nat
  BY <1>1, <1>3, SumToNat
<1>6. ASSUME NEW n \in 0..(N - 1)
      PROVE  SumTo(f, n + 1) = SumTo(f, n) + (IF Signed(n + 1) THEN Units(n + 1) ELSE 0)
  <2>1. n \in Nat /\ n + 1 \in 1..N
    BY <1>1
  <2> QED BY <1>2, <1>4, <2>1
<1> QED BY <1>4, <1>5, <1>6 DEF Tallied, f

--------------------------------------------------------------------------------
(* The phases of a run: where it is, what is on the stack, who has signed *)

Asking(d) ==
    /\ asked \in 0..(N - 1) /\ at = Base + 7 * asked + d + 1
    /\ acc = Tallied(asked)
Used == Outer + asked

\* The question to the first key, before each of its instructions ...
AskFirst(d) == asked = 0 /\ Asking(d)
First0 == AskFirst(0) /\ Straight(cond, Outer) /\ SignersAre(0) /\ Over(stack, witness, 0, Outer)
First1 ==
    /\ AskFirst(1) /\ Straight(cond, Outer) /\ SignersAre(0)
    /\ Over(stack, witness, 1, Outer) /\ stack[1] = Keys[1]
First2 ==
    /\ AskFirst(2) /\ Straight(cond, Outer) /\ SignersAre(1)
    /\ Over(stack, witness, 1, Outer + 1) /\ stack[1] = Truth(Signed(1))
First3 ==
    /\ AskFirst(3) /\ Within(cond, Outer, Truth(Signed(1))) /\ SignersAre(1)
    /\ Over(stack, witness, 0, Outer + 1)
PowerIfSigned ==
    IF Signed(1) THEN Over(stack, witness, 1, Outer + 1) /\ stack[1] = Units(1)
    ELSE Over(stack, witness, 0, Outer + 1)
First4 == AskFirst(4) /\ Within(cond, Outer, Truth(Signed(1))) /\ SignersAre(1) /\ PowerIfSigned
First5 == AskFirst(5) /\ Within(cond, Outer, 1 - Truth(Signed(1))) /\ SignersAre(1) /\ PowerIfSigned
First6 ==
    /\ AskFirst(6) /\ Within(cond, Outer, 1 - Truth(Signed(1))) /\ SignersAre(1)
    /\ Over(stack, witness, 1, Outer + 1) /\ stack[1] = IF Signed(1) THEN Units(1) ELSE 0

\* ... after it, and after that to each of the others ...
Counted ==
    /\ asked \in 1..N /\ at = Base + 7 * asked + 1 /\ acc = Tallied(asked)
    /\ Straight(cond, Outer) /\ SignersAre(asked)
    /\ Over(stack, witness, 1, Used) /\ stack[1] = acc

\* ... and before the later instructions of those.
AskLater(d) == asked # 0 /\ Asking(d)
LaterSigned == Signed(asked + 1)
Later1 ==
    /\ AskLater(1) /\ Straight(cond, Outer) /\ SignersAre(asked)
    /\ Over(stack, witness, 2, Used + 1) /\ stack[1] = witness[Used + 1] /\ stack[2] = acc
Later2 ==
    /\ AskLater(2) /\ Straight(cond, Outer) /\ SignersAre(asked)
    /\ Over(stack, witness, 3, Used + 1)
    /\ stack[1] = Keys[asked + 1] /\ stack[2] = witness[Used + 1] /\ stack[3] = acc
Later3 ==
    /\ AskLater(3) /\ Straight(cond, Outer) /\ SignersAre(asked + 1)
    /\ Over(stack, witness, 2, Used + 1) /\ stack[1] = Truth(LaterSigned) /\ stack[2] = acc
Later4 ==
    /\ AskLater(4) /\ Within(cond, Outer, Truth(LaterSigned)) /\ SignersAre(asked + 1)
    /\ Over(stack, witness, 1, Used + 1) /\ stack[1] = acc
Later5 ==
    /\ AskLater(5) /\ Within(cond, Outer, Truth(LaterSigned)) /\ SignersAre(asked + 1)
    /\ IF LaterSigned
       THEN Over(stack, witness, 2, Used + 1) /\ stack[1] = Units(asked + 1) /\ stack[2] = acc
       ELSE Over(stack, witness, 1, Used + 1) /\ stack[1] = acc
Later6 ==
    /\ AskLater(6) /\ Within(cond, Outer, Truth(LaterSigned)) /\ SignersAre(asked + 1)
    /\ Over(stack, witness, 1, Used + 1)
    /\ stack[1] = acc + (IF LaterSigned THEN Units(asked + 1) ELSE 0)

\* The comparison, and what is behind it.
AskedAll == asked = N /\ N >= 1 /\ acc = Tallied(N) /\ SignersAre(N)
Verdict == Truth(acc > Threshold \div Unit)
Decided == AskedAll /\ Over(stack, witness, 1, Used) /\ stack[1] = Verdict
Compare1 ==
    /\ AskedAll /\ at = Base + 7 * N + 2 /\ Straight(cond, Outer)
    /\ Over(stack, witness, 2, Used) /\ stack[1] = Number /\ stack[2] = acc
Compare2 == Decided /\ at = Base + 7 * N + 3 /\ Straight(cond, Outer)
Compare3 ==
    /\ AskedAll /\ ~Foundation /\ at = Base + 7 * N + 4 /\ Straight(cond, Outer)
    /\ Over(stack, witness, 2, Used) /\ stack[1] = Dest /\ stack[2] = Verdict
Compare4 == Decided /\ ~Foundation /\ at = Base + 7 * N + 5 /\ Straight(cond, Outer)

LEMMA FirstOps ==
    ASSUME Constant
    PROVE  /\ AskFirst(0) => at <= Len(script) /\ t \in Instruction /\ t.op = "PUSH" /\ t.n = Keys[1]
           /\ AskFirst(1) => at <= Len(script) /\ t \in Instruction /\ t.op = "CHECKSIG"
           /\ AskFirst(2) => at <= Len(script) /\ t \in Instruction /\ t.op = "IF"
           /\ AskFirst(3) => at <= Len(script) /\ t \in Instruction /\ t.op = "PUSH" /\ t.n = Units(1)
           /\ AskFirst(4) => at <= Len(script) /\ t \in Instruction /\ t.op = "ELSE"
           /\ AskFirst(5) => at <= Len(script) /\ t \in Instruction /\ t.op = "PUSH" /\ t.n = 0
           /\ AskFirst(6) => at <= Len(script) /\ t \in Instruction /\ t.op = "ENDIF"
<1>1. ASSUME NEW d \in 0..6, AskFirst(d)
      PROVE  /\ at <= Len(script) /\ t \in Instruction
             /\ d = 0 => t.op = "PUSH" /\ t.n = Keys[1]
             /\ d = 1 => t.op = "CHECKSIG"
             /\ d = 2 => t.op = "IF"
             /\ d = 3 => t.op = "PUSH" /\ t.n = Units(1)
             /\ d = 4 => t.op = "ELSE"
             /\ d = 5 => t.op = "PUSH" /\ t.n = 0
             /\ d = 6 => t.op = "ENDIF"
  <2>1. asked = 0 /\ at = Base + 7 * asked + d + 1 /\ 0 \in 0..(N - 1)
    BY <1>1 DEF AskFirst, Asking
  <2>2. N >= 1
    BY <2>1, ConstantIs
  <2>3. at \in 1..Len(script)
    BY <2>1, <2>2, FirstAt
  <2> QED BY <2>1, <2>2, <2>3, FirstAt
<1>2. 0 \in 0..6 /\ 1 \in 0..6 /\ 2 \in 0..6 /\ 3 \in 0..6 /\ 4 \in 0..6 /\ 5 \in 0..6 /\ 6 \in 0..6
  OBVIOUS
<1> QED BY <1>1, <1>2

LEMMA LaterOps ==
    ASSUME Constant
    PROVE  /\ AskLater(0) => at <= Len(script) /\ t \in Instruction /\ t.op = "SWAP"
           /\ AskLater(1) => at <= Len(script) /\ t \in Instruction /\ t.op = "PUSH" /\ t.n = Keys[asked + 1]
           /\ AskLater(2) => at <= Len(script) /\ t \in Instruction /\ t.op = "CHECKSIG"
           /\ AskLater(3) => at <= Len(script) /\ t \in Instruction /\ t.op = "IF"
           /\ AskLater(4) => at <= Len(script) /\ t \in Instruction /\ t.op = "PUSH" /\ t.n = Units(asked + 1)
           /\ AskLater(5) => at <= Len(script) /\ t \in Instruction /\ t.op = "ADD"
           /\ AskLater(6) => at <= Len(script) /\ t \in Instruction /\ t.op = "ENDIF"
<1>1. ASSUME NEW d \in 0..6, AskLater(d)
      PROVE  /\ at <= Len(script) /\ t \in Instruction
             /\ d = 0 => t.op = "SWAP"
             /\ d = 1 => t.op = "PUSH" /\ t.n = Keys[asked + 1]
             /\ d = 2 => t.op = "CHECKSIG"
             /\ d = 3 => t.op = "IF"
             /\ d = 4 => t.op = "PUSH" /\ t.n = Units(asked + 1)
             /\ d = 5 => t.op = "ADD"
             /\ d = 6 => t.op = "ENDIF"
  <2>1. asked # 0 /\ at = Base + 7 * asked + d + 1 /\ asked \in 0..(N - 1)
    BY <1>1 DEF AskLater, Asking
  <2>2. asked \in 1..(N - 1)
    BY <2>1, ConstantIs
  <2>3. at \in 1..Len(script)
    BY <2>1, <2>2, LaterAt
  <2> QED BY <2>1, <2>2, <2>3, LaterAt
<1>2. 0 \in 0..6 /\ 1 \in 0..6 /\ 2 \in 0..6 /\ 3 \in 0..6 /\ 4 \in 0..6 /\ 5 \in 0..6 /\ 6 \in 0..6
  OBVIOUS
<1> QED BY <1>1, <1>2

LEMMA CompareOps ==
    ASSUME Constant, N >= 1
    PROVE  /\ at = Base + 7 * N + 1 => at <= Len(script) /\ t \in Instruction /\ t.op = "PUSH" /\ t.n = Number
           /\ at = Base + 7 * N + 2 =>
                /\ at <= Len(script) /\ t \in Instruction
                /\ t.op = IF Foundation THEN "GREATERTHANOREQUAL" ELSE "GREATERTHAN"
           /\ at = Base + 7 * N + 3 /\ Foundation =>
                /\ t \in Instruction /\ t.op = "ENDIF" /\ at = Len(script) /\ Outer = 1
           /\ at = Base + 7 * N + 3 /\ ~Foundation =>
                at <= Len(script) /\ t \in Instruction /\ t.op = "PUSH" /\ t.n = Dest
           /\ at = Base + 7 * N + 4 /\ ~Foundation => at <= Len(script) /\ t \in Instruction /\ t.op = "DROP"
           /\ at = Base + 7 * N + 5 /\ ~Foundation =>
                /\ Outer = 0 => at = Len(script) + 1
                /\ Outer = 1 => at < Len(script) /\ t \in Instruction /\ t.op = "ELSE" /\ at = FoundBase(sigset)
<1>1. N \in Nat /\ Base \in Nat /\ Number \in Int /\ Dest \in Int /\ Outer \in 0..1 /\ (Foundation => Outer = 1)
  BY ConstantIs DEF Dest, Foundation, Outer
<1>2. \A op \in Ops : Op(op) \in Instruction /\ Op(op).op = op
  BY OpIs
<1>3. /\ Push(Number) \in Instruction /\ Push(Number).op = "PUSH" /\ Push(Number).n = Number
      /\ Push(Dest) \in Instruction /\ Push(Dest).op = "PUSH" /\ Push(Dest).n = Dest
  BY <1>1, PushIs
<1>4. {"GREATERTHANOREQUAL", "GREATERTHAN", "ENDIF", "DROP", "ELSE"} \subseteq Ops
  BY DEF Ops
<1>5. Len(script) \in Nat
  BY ScriptIs, LenProperties DEF Constant
<1> DEFINE m == Base + 7 * N
<1>6. /\ script[m + 1] = Push(Number) /\ m + 1 <= Len(script) /\ m + 2 <= Len(script)
      /\ Foundation => /\ script[m + 2] = Op("GREATERTHANOREQUAL") /\ script[m + 3] = Op("ENDIF")
                       /\ Len(script) = m + 3
      /\ ~Foundation => /\ script[m + 2] = Op("GREATERTHAN") /\ script[m + 3] = Push(Dest)
                        /\ script[m + 4] = Op("DROP")
                        /\ Outer = 0 => Len(script) = m + 4
                        /\ Outer = 1 => /\ Len(script) > m + 5 /\ m + 5 = FoundBase(sigset)
                                        /\ script[m + 5] = Op("ELSE")
  BY <1>5, CompareAt
<1>7. m \in Nat
  BY <1>1
<1> HIDE DEF m
<1>8. CASE at = m + 1
  BY <1>3, <1>6, <1>7, <1>8 DEF t, m
<1>9. CASE at = m + 2
  BY <1>2, <1>4, <1>6, <1>7, <1>9 DEF t, m
<1>10. CASE at = m + 3 /\ Foundation
  BY <1>1, <1>2, <1>4, <1>6, <1>7, <1>10 DEF t, m
<1>11. CASE at = m + 3 /\ ~Foundation
  BY <1>1, <1>3, <1>5, <1>6, <1>7, <1>11 DEF t, m
<1>12. CASE at = m + 4 /\ ~Foundation
  BY <1>1, <1>2, <1>4, <1>5, <1>6, <1>7, <1>12 DEF t, m
<1>13. CASE at = m + 5 /\ ~Foundation
  BY <1>1, <1>2, <1>4, <1>5, <1>6, <1>7, <1>13 DEF t, m
<1> QED BY <1>8, <1>9, <1>10, <1>11, <1>12, <1>13 DEF m

--------------------------------------------------------------------------------
(* From phase to phase *)

LEMMA AskOn ==
    ASSUME Typed, Move, asked' = asked, acc' = acc
    PROVE  /\ AskFirst(0) => AskFirst(1)'
           /\ AskFirst(1) => AskFirst(2)'
           /\ AskFirst(2) => AskFirst(3)'
           /\ AskFirst(3) => AskFirst(4)'
           /\ AskFirst(4) => AskFirst(5)'
           /\ AskFirst(5) => AskFirst(6)'
           /\ AskLater(0) => AskLater(1)'
           /\ AskLater(1) => AskLater(2)'
           /\ AskLater(2) => AskLater(3)'
           /\ AskLater(3) => AskLater(4)'
           /\ AskLater(4) => AskLater(5)'
           /\ AskLater(5) => AskLater(6)'
<1>1. at' = at + 1 /\ Same /\ Base \in Nat /\ N \in Nat /\ asked \in Nat
  BY MoveIs, ConstantIs DEF Typed
<1>2. Base' = Base /\ N' = N /\ asked' = asked /\ acc' = acc
      /\ Powers' = Powers /\ Unit' = Unit /\ Keys' = Keys /\ witness' = witness /\ Outer' = Outer
  BY <1>1 DEF Same
<1>3. ASSUME NEW d \in Nat, NEW e \in Nat, e = d + 1
      PROVE  Asking(d) => Asking(e)'
  <2>1. acc = Tallied(asked) => acc' = Tallied(asked)'
    BY <1>2 DEF Tallied
  <2>2. at = Base + 7 * asked + d + 1 => at' = Base' + 7 * asked' + e + 1
    BY <1>1, <1>2, <1>3
  <2> QED BY <1>2, <2>1, <2>2 DEF Asking
<1>4. /\ Asking(0) => Asking(1)'
      /\ Asking(1) => Asking(2)'
      /\ Asking(2) => Asking(3)'
      /\ Asking(3) => Asking(4)'
      /\ Asking(4) => Asking(5)'
      /\ Asking(5) => Asking(6)'
  <2>1. /\ 0 \in Nat /\ 1 \in Nat /\ 2 \in Nat /\ 3 \in Nat /\ 4 \in Nat /\ 5 \in Nat /\ 6 \in Nat
        /\ 1 = 0 + 1 /\ 2 = 1 + 1 /\ 3 = 2 + 1 /\ 4 = 3 + 1 /\ 5 = 4 + 1 /\ 6 = 5 + 1
    OBVIOUS
  <2> QED BY <2>1, <1>3
<1> QED BY <1>2, <1>4 DEF AskFirst, AskLater

LEMMA Types ==
    ASSUME Typed
    PROVE  /\ Constant /\ Outer \in Nat /\ Outer + 1 \in Nat /\ Used \in Nat /\ Used + 1 \in Nat
           /\ stack \in Seq(Int) /\ witness \in Seq(Int) /\ asked \in Nat /\ acc \in Int
<1>1. /\ Constant /\ stack \in Seq(Int) /\ witness \in Seq(Int) /\ asked \in Nat /\ acc \in Int
  BY DEF Typed, Constant
<1>2. Outer \in 0..1
  BY <1>1, ConstantIs
<1>3. Outer \in Nat
  BY <1>2
<1> QED BY <1>1, <1>3 DEF Used

LEMMA NextType ==
    ASSUME Typed'
    PROVE  stack' \in Seq(Int)
BY DEF Typed

LEMMA SignersStep ==
    ASSUME NEW n \in Nat, SignersAre(n), NEW new,
           Signed(n + 1) => new = signers \cup {Keys[n + 1]},
           ~Signed(n + 1) => new = signers
    PROVE  new = SignersOf(Keys, witness, Outer, n + 1)
<1>1. signers = SignersOf(Keys, witness, Outer, n)
  BY DEF SignersAre
<1>2. CASE Signed(n + 1)
  <2>1. witness[Outer + (n + 1)] = Keys[n + 1]
    BY <1>2 DEF Signed
  <2>2. SignersOf(Keys, witness, Outer, n + 1) = SignersOf(Keys, witness, Outer, n) \cup {Keys[n + 1]}
    <3> DEFINE m == n + 1  all == SignersOf(Keys, witness, Outer, n + 1)
               kept == SignersOf(Keys, witness, Outer, n)  grown == kept \cup {Keys[n + 1]}
    <3>1. witness[Outer + (n + 1)] = Keys[n + 1] => all = grown
      <4> HIDE DEF grown, kept
      <4> QED BY SignersGrow DEF grown, kept
    <3> QED BY <2>1, <3>1
  <2>3. new = signers \cup {Keys[n + 1]}
    BY <1>2
  <2> QED BY <1>1, <2>2, <2>3, Zenon
<1>3. CASE ~Signed(n + 1)
  BY <1>1, <1>3, SignersGrow DEF Signed
<1> QED BY <1>2, <1>3

LEMMA First0Step ==
    ASSUME Typed, Move, First0
    PROVE  Typed' /\ First1'
<1>1. AskFirst(0) /\ Straight(cond, Outer) /\ SignersAre(0) /\ Over(stack, witness, 0, Outer)
  BY DEF First0
<1>2. Runs /\ t \in Instruction /\ t.op = "PUSH" /\ t.n = Keys[1]
  BY <1>1, FirstOps, RunsIs, Types
<1>3. /\ Typed' /\ cond' = cond /\ asked' = asked /\ acc' = acc /\ signers' = signers
      /\ Moved(stack, stack', 0, 1) /\ stack'[1] = t.n
  BY <1>2, Executed DEF Flow
<1>4. Over(stack', witness, 1, Outer)
  BY <1>1, <1>3, Overs, Types, NextType
<1>5. AskFirst(1)' /\ Same
  BY <1>1, <1>3, AskOn, MoveIs
<1> QED BY <1>1, <1>2, <1>3, <1>4, <1>5 DEF First1, SignersAre, Same

LEMMA First1Step ==
    ASSUME Typed, Move, First1
    PROVE  Typed' /\ First2'
<1>1. AskFirst(1) /\ Straight(cond, Outer) /\ SignersAre(0) /\ Over(stack, witness, 1, Outer) /\ stack[1] = Keys[1]
  BY DEF First1
<1>2. Runs /\ t \in Instruction /\ t.op = "CHECKSIG"
  BY <1>1, FirstOps, RunsIs, Types
<1>3. /\ Typed' /\ cond' = cond /\ asked' = asked /\ acc' = acc
      /\ signers' = (IF stack[1] = stack[2] THEN signers \cup {stack[1]} ELSE signers)
      /\ Moved(stack, stack', 2, 1) /\ stack'[1] = Truth(stack[1] = stack[2])
  BY <1>2, Executed DEF Flow
<1>4. Over(stack', witness, 1, Outer + 1) /\ stack[2] = witness[Outer + 1]
  <2>1. stack \in Seq(Int) /\ stack' \in Seq(Int) /\ witness \in Seq(Int) /\ Outer \in Nat
    BY <1>3, Types, NextType
  <2>2. Over(stack, witness, 1, Outer) /\ Moved(stack, stack', 2, 1)
    BY <1>1, <1>3
  <2> QED BY <2>1, <2>2, Overs
<1>5. AskFirst(2)' /\ Same
  BY <1>1, <1>3, AskOn, MoveIs
<1>6. signers' = SignersOf(Keys, witness, Outer, 1) /\ stack'[1] = Truth(Signed(1))
  <2>1. (stack[1] = stack[2]) = Signed(1)
    BY <1>1, <1>4 DEF Signed
  <2> DEFINE n == 0
  <2>2. n \in Nat /\ n + 1 = 1 /\ SignersAre(n)
    BY <1>1
  <2> HIDE DEF n
  <2>3. /\ Signed(n + 1) => signers' = signers \cup {Keys[n + 1]}
        /\ ~Signed(n + 1) => signers' = signers
    BY <1>1, <1>3, <2>1, <2>2
  <2>4. signers' = SignersOf(Keys, witness, Outer, n + 1)
    BY <2>2, <2>3, SignersStep
  <2> QED BY <1>3, <2>1, <2>2, <2>4
<1> QED BY <1>1, <1>3, <1>4, <1>5, <1>6 DEF First2, SignersAre, Signed, Same

LEMMA First2Step ==
    ASSUME Typed, Move, First2
    PROVE  Typed' /\ First3'
<1>1. AskFirst(2) /\ Straight(cond, Outer) /\ SignersAre(1) /\ Over(stack, witness, 1, Outer + 1)
      /\ stack[1] = Truth(Signed(1))
  BY DEF First2
<1>2. t.op = "IF"
  BY <1>1, FirstOps, Types
<1>3. /\ Typed' /\ asked' = asked /\ acc' = acc /\ signers' = signers
      /\ Within(cond', Outer, Truth(stack[1] # 0)) /\ Moved(stack, stack', 1, 0)
  BY <1>1, <1>2, TookIfStraight, Types
<1>4. Over(stack', witness, 0, Outer + 1)
  BY <1>1, <1>3, Overs, Types, NextType
<1>5. AskFirst(3)' /\ Same
  BY <1>1, <1>3, AskOn, MoveIs
<1>6. Truth(stack[1] # 0) = Truth(Signed(1))
  BY <1>1 DEF Truth
<1> QED BY <1>1, <1>3, <1>4, <1>5, <1>6 DEF First3, SignersAre, Signed, Same

LEMMA First3Step ==
    ASSUME Typed, Move, First3
    PROVE  Typed' /\ First4'
<1>1. AskFirst(3) /\ Within(cond, Outer, Truth(Signed(1))) /\ SignersAre(1) /\ Over(stack, witness, 0, Outer + 1)
  BY DEF First3
<1>2. t \in Instruction /\ t.op = "PUSH" /\ t.n = Units(1)
  BY <1>1, FirstOps, Types
<1>3. Runs <=> Signed(1)
  BY <1>1, RunsIs, Types DEF Truth
<1>4. CASE Signed(1)
  <2>1. /\ Typed' /\ cond' = cond /\ asked' = asked /\ acc' = acc /\ signers' = signers
        /\ Moved(stack, stack', 0, 1) /\ stack'[1] = t.n
    BY <1>2, <1>3, <1>4, Executed DEF Flow
  <2>2. Over(stack', witness, 1, Outer + 1)
    BY <1>1, <2>1, Overs, Types, NextType
  <2>3. AskFirst(4)' /\ Same
    BY <1>1, <2>1, AskOn, MoveIs
  <2> QED BY <1>1, <1>2, <1>4, <2>1, <2>2, <2>3 DEF First4, PowerIfSigned, SignersAre, Signed, Same, Units
<1>5. CASE ~Signed(1)
  <2>1. /\ Typed' /\ stack' = stack /\ cond' = cond /\ asked' = asked /\ acc' = acc /\ signers' = signers
    BY <1>2, <1>3, <1>5, Skipped DEF Flow
  <2>2. AskFirst(4)' /\ Same
    BY <1>1, <2>1, AskOn, MoveIs
  <2> QED BY <1>1, <1>5, <2>1, <2>2 DEF First4, PowerIfSigned, SignersAre, Signed, Same, Units
<1> QED BY <1>4, <1>5

LEMMA First4Step ==
    ASSUME Typed, Move, First4
    PROVE  Typed' /\ First5'
<1>1. AskFirst(4) /\ Within(cond, Outer, Truth(Signed(1))) /\ SignersAre(1) /\ PowerIfSigned
  BY DEF First4
<1>2. t.op = "ELSE"
  BY <1>1, FirstOps, Types
<1>3. Truth(Signed(1)) \in {0, 1}
  BY DEF Truth
<1>4. /\ Typed' /\ stack' = stack /\ asked' = asked /\ acc' = acc /\ signers' = signers
      /\ Within(cond', Outer, 1 - Truth(Signed(1)))
  BY <1>1, <1>2, <1>3, TookElseWithin, Types
<1>5. AskFirst(5)' /\ Same
  BY <1>1, <1>4, AskOn, MoveIs
<1> QED BY <1>1, <1>4, <1>5 DEF First5, PowerIfSigned, SignersAre, Signed, Same, Units

LEMMA First5Step ==
    ASSUME Typed, Move, First5
    PROVE  Typed' /\ First6'
<1>1. AskFirst(5) /\ Within(cond, Outer, 1 - Truth(Signed(1))) /\ SignersAre(1) /\ PowerIfSigned
  BY DEF First5
<1>2. t \in Instruction /\ t.op = "PUSH" /\ t.n = 0
  BY <1>1, FirstOps, Types
<1>3. Runs <=> ~Signed(1)
  <2>1. 1 - Truth(Signed(1)) \in {0, 1} /\ (1 - Truth(Signed(1)) = 1 <=> ~Signed(1))
    BY DEF Truth
  <2> QED BY <1>1, <2>1, RunsIs, Types
<1>4. CASE ~Signed(1)
  <2>1. /\ Typed' /\ cond' = cond /\ asked' = asked /\ acc' = acc /\ signers' = signers
        /\ Moved(stack, stack', 0, 1) /\ stack'[1] = t.n
    BY <1>2, <1>3, <1>4, Executed DEF Flow
  <2>2. Over(stack, witness, 0, Outer + 1)
    BY <1>1, <1>4 DEF PowerIfSigned
  <2>3. Over(stack', witness, 1, Outer + 1)
    BY <2>1, <2>2, Overs, Types, NextType
  <2>4. AskFirst(6)' /\ Same
    BY <1>1, <2>1, AskOn, MoveIs
  <2> QED BY <1>1, <1>2, <1>4, <2>1, <2>3, <2>4 DEF First6, SignersAre, Signed, Same, Units
<1>5. CASE Signed(1)
  <2>1. /\ Typed' /\ stack' = stack /\ cond' = cond /\ asked' = asked /\ acc' = acc /\ signers' = signers
    BY <1>2, <1>3, <1>5, Skipped DEF Flow
  <2>2. AskFirst(6)' /\ Same
    BY <1>1, <2>1, AskOn, MoveIs
  <2> QED BY <1>1, <1>5, <2>1, <2>2 DEF First6, PowerIfSigned, SignersAre, Signed, Same, Units
<1> QED BY <1>4, <1>5

LEMMA First6Step ==
    ASSUME Typed, Move, First6
    PROVE  Typed' /\ Counted'
<1>1. AskFirst(6) /\ Within(cond, Outer, 1 - Truth(Signed(1))) /\ SignersAre(1)
      /\ Over(stack, witness, 1, Outer + 1) /\ stack[1] = IF Signed(1) THEN Units(1) ELSE 0
  BY DEF First6
<1>2. t.op = "ENDIF"
  BY <1>1, FirstOps, Types
<1>3. 1 - Truth(Signed(1)) \in {0, 1}
  BY DEF Truth
<1>4. Len(stack) >= 1
  <2>1. Len(witness) \in Nat /\ Len(stack) \in Nat /\ Outer \in Nat
    BY Types, LenProperties
  <2> QED BY <1>1, <2>1 DEF Over
<1>5. /\ Typed' /\ stack' = stack /\ signers' = signers /\ Straight(cond', Outer)
      /\ asked' = asked + 1 /\ acc' = stack[1]
  BY <1>1, <1>2, <1>3, <1>4, TookEndIfWithin
<1>6. asked = 0 /\ asked \in 0..(N - 1) /\ at = Base + 7 * asked + 6 + 1 /\ acc = Tallied(asked)
  BY <1>1 DEF AskFirst, Asking
<1>7. at' = at + 1 /\ Same /\ N \in Nat /\ Base \in Nat
  BY MoveIs, Types, ConstantIs
<1>8. asked' = 1 /\ asked' \in 1..N /\ at' = Base + 7 * asked' + 1
  BY <1>5, <1>6, <1>7
<1>9. acc' = Tallied(1)
  <2> DEFINE n == 0
  <2>1. n \in 0..(N - 1) /\ n + 1 = 1
    BY <1>6
  <2>2. Tallied(n) = 0
    BY TalliedIs, Types
  <2> HIDE DEF n
  <2>3. Tallied(n + 1) = Tallied(n) + (IF Signed(n + 1) THEN Units(n + 1) ELSE 0)
    BY <2>1, TalliedIs, Types
  <2>4. (IF Signed(1) THEN Units(1) ELSE 0) \in Int
    <3>1. Units(1) \in Nat
      BY <1>6, <1>7, ConstantIs, Types
    <3> QED BY <3>1
  <2> QED BY <1>1, <1>5, <2>1, <2>2, <2>3, <2>4
<1> QED BY <1>1, <1>5, <1>7, <1>8, <1>9 DEF Counted, Tallied, SignersAre, Used, Same

LEMMA OverSwapped ==
    ASSUME NEW s \in Seq(Int), NEW s1 \in Seq(Int), NEW w \in Seq(Int), NEW c \in Nat,
           Over(s, w, 1, c), Moved(s, s1, 2, 2)
    PROVE  Over(s1, w, 2, c + 1) /\ s[2] = w[c + 1]
BY Overs

LEMMA OverPushed ==
    ASSUME NEW s \in Seq(Int), NEW s1 \in Seq(Int), NEW w \in Seq(Int), NEW c \in Nat,
           Over(s, w, 2, c), Moved(s, s1, 0, 1)
    PROVE  Over(s1, w, 3, c) /\ s1[2] = s[1] /\ s1[3] = s[2]
BY Overs

LEMMA CountedStep ==
    ASSUME Typed, Move, Counted
    PROVE  Typed' /\ (Later1' \/ Compare1')
<1>1. /\ asked \in 1..N /\ at = Base + 7 * asked + 1 /\ acc = Tallied(asked)
      /\ Straight(cond, Outer) /\ SignersAre(asked)
      /\ Over(stack, witness, 1, Used) /\ stack[1] = acc
  BY DEF Counted
<1>2. N \in Nat /\ Base \in Nat /\ Runs
  BY <1>1, RunsIs, Types, ConstantIs
<1>3. CASE asked # N
  <2>1. AskLater(0)
    BY <1>1, <1>2, <1>3 DEF AskLater, Asking
  <2>2. t \in Instruction /\ t.op = "SWAP"
    BY <2>1, LaterOps, Types
  <2>3. /\ Typed' /\ cond' = cond /\ asked' = asked /\ acc' = acc /\ signers' = signers
        /\ Moved(stack, stack', 2, 2) /\ stack'[1] = stack[2] /\ stack'[2] = stack[1]
    BY <1>2, <2>2, Executed DEF Flow
  <2>4. Over(stack', witness, 2, Used + 1) /\ stack[2] = witness[Used + 1]
    BY <1>1, <2>3, OverSwapped, Types, NextType
  <2>5. AskLater(1)' /\ Same
    BY <2>1, <2>3, AskOn, MoveIs
  <2>6. Later1'
    BY <1>1, <2>3, <2>4, <2>5 DEF Later1, SignersAre, Used, Same
  <2> QED BY <2>3, <2>6
<1>4. CASE asked = N
  <2>1. t \in Instruction /\ t.op = "PUSH" /\ t.n = Number /\ N >= 1
    BY <1>1, <1>2, <1>4, CompareOps, Types
  <2>2. /\ Typed' /\ cond' = cond /\ asked' = asked /\ acc' = acc /\ signers' = signers
        /\ Moved(stack, stack', 0, 1) /\ stack'[1] = t.n
    BY <1>2, <2>1, Executed DEF Flow
  <2>3. Over(stack', witness, 2, Used) /\ stack'[2] = stack[1]
    BY <1>1, <2>2, Overs, Types, NextType
  <2>4. at' = at + 1 /\ Same
    BY MoveIs
  <2>5. at' = Base + 7 * N + 2
    BY <1>1, <1>2, <1>4, <2>4
  <2>6. Compare1'
    BY <1>1, <1>4, <2>1, <2>2, <2>3, <2>4, <2>5 DEF Compare1, AskedAll, SignersAre, Tallied, Used, Same
  <2> QED BY <2>2, <2>6
<1> QED BY <1>3, <1>4

LEMMA Later1Step ==
    ASSUME Typed, Move, Later1
    PROVE  Typed' /\ Later2'
<1>1. /\ AskLater(1) /\ Straight(cond, Outer) /\ SignersAre(asked)
      /\ Over(stack, witness, 2, Used + 1) /\ stack[1] = witness[Used + 1] /\ stack[2] = acc
  BY DEF Later1
<1>2. Runs /\ t \in Instruction /\ t.op = "PUSH" /\ t.n = Keys[asked + 1]
  BY <1>1, LaterOps, RunsIs, Types
<1>3. /\ Typed' /\ cond' = cond /\ asked' = asked /\ acc' = acc /\ signers' = signers
      /\ Moved(stack, stack', 0, 1) /\ stack'[1] = t.n
  BY <1>2, Executed DEF Flow
<1>4. Over(stack', witness, 3, Used + 1) /\ stack'[2] = stack[1] /\ stack'[3] = stack[2]
  BY <1>1, <1>3, OverPushed, Types, NextType
<1>5. AskLater(2)' /\ Same
  BY <1>1, <1>3, AskOn, MoveIs
<1> QED BY <1>1, <1>2, <1>3, <1>4, <1>5 DEF Later2, SignersAre, Used, Same

LEMMA Later2Step ==
    ASSUME Typed, Move, Later2
    PROVE  Typed' /\ Later3'
<1>1. /\ AskLater(2) /\ Straight(cond, Outer) /\ SignersAre(asked)
      /\ Over(stack, witness, 3, Used + 1)
      /\ stack[1] = Keys[asked + 1] /\ stack[2] = witness[Used + 1] /\ stack[3] = acc
  BY DEF Later2
<1>2. Runs /\ t \in Instruction /\ t.op = "CHECKSIG"
  BY <1>1, LaterOps, RunsIs, Types
<1>3. /\ Typed' /\ cond' = cond /\ asked' = asked /\ acc' = acc
      /\ signers' = (IF stack[1] = stack[2] THEN signers \cup {stack[1]} ELSE signers)
      /\ Moved(stack, stack', 2, 1) /\ stack'[1] = Truth(stack[1] = stack[2])
  BY <1>2, Executed DEF Flow
<1>4. Over(stack', witness, 2, Used + 1) /\ stack'[2] = stack[3]
  BY <1>1, <1>3, Overs, Types, NextType
<1>5. AskLater(3)' /\ Same
  BY <1>1, <1>3, AskOn, MoveIs
<1>6. (stack[1] = stack[2]) = LaterSigned
  <2>1. Used + 1 = Outer + (asked + 1)
    BY Types DEF Used
  <2> QED BY <1>1, <2>1 DEF LaterSigned, Signed
<1>7. signers' = SignersOf(Keys, witness, Outer, asked + 1)
  <2>1. /\ Signed(asked + 1) => signers' = signers \cup {Keys[asked + 1]}
        /\ ~Signed(asked + 1) => signers' = signers
    BY <1>1, <1>3, <1>6 DEF LaterSigned
  <2> QED BY <1>1, <2>1, SignersStep, Types
<1> QED BY <1>1, <1>3, <1>4, <1>5, <1>6, <1>7 DEF Later3, SignersAre, LaterSigned, Signed, Used, Same

LEMMA Later3Step ==
    ASSUME Typed, Move, Later3
    PROVE  Typed' /\ Later4'
<1>1. /\ AskLater(3) /\ Straight(cond, Outer) /\ SignersAre(asked + 1)
      /\ Over(stack, witness, 2, Used + 1) /\ stack[1] = Truth(LaterSigned) /\ stack[2] = acc
  BY DEF Later3
<1>2. t.op = "IF"
  BY <1>1, LaterOps, Types
<1>3. /\ Typed' /\ asked' = asked /\ acc' = acc /\ signers' = signers
      /\ Within(cond', Outer, Truth(stack[1] # 0)) /\ Moved(stack, stack', 1, 0)
  BY <1>1, <1>2, TookIfStraight, Types
<1>4. Over(stack', witness, 1, Used + 1) /\ stack'[1] = stack[2]
  <2>1. stack \in Seq(Int) /\ stack' \in Seq(Int) /\ witness \in Seq(Int) /\ Used + 1 \in Nat
    BY <1>3, Types, NextType
  <2>2. Over(stack, witness, 2, Used + 1) /\ Moved(stack, stack', 1, 0)
    BY <1>1, <1>3
  <2> QED BY <2>1, <2>2, Overs
<1>5. AskLater(4)' /\ Same
  BY <1>1, <1>3, AskOn, MoveIs
<1>6. Truth(stack[1] # 0) = Truth(LaterSigned)
  BY <1>1 DEF Truth
<1> QED BY <1>1, <1>3, <1>4, <1>5, <1>6 DEF Later4, SignersAre, LaterSigned, Signed, Used, Same

LEMMA Later4Step ==
    ASSUME Typed, Move, Later4
    PROVE  Typed' /\ Later5'
<1>1. /\ AskLater(4) /\ Within(cond, Outer, Truth(LaterSigned)) /\ SignersAre(asked + 1)
      /\ Over(stack, witness, 1, Used + 1) /\ stack[1] = acc
  BY DEF Later4
<1>2. t \in Instruction /\ t.op = "PUSH" /\ t.n = Units(asked + 1)
  BY <1>1, LaterOps, Types
<1>3. Runs <=> LaterSigned
  BY <1>1, RunsIs, Types DEF Truth
<1>4. CASE LaterSigned
  <2>1. /\ Typed' /\ cond' = cond /\ asked' = asked /\ acc' = acc /\ signers' = signers
        /\ Moved(stack, stack', 0, 1) /\ stack'[1] = t.n
    BY <1>2, <1>3, <1>4, Executed DEF Flow
  <2>2. Over(stack', witness, 2, Used + 1) /\ stack'[2] = stack[1]
    <3>1. stack \in Seq(Int) /\ stack' \in Seq(Int) /\ witness \in Seq(Int) /\ Used + 1 \in Nat
      BY <2>1, Types, NextType
    <3>2. Over(stack, witness, 1, Used + 1) /\ Moved(stack, stack', 0, 1)
      BY <1>1, <2>1
    <3> QED BY <3>1, <3>2, Overs
  <2>3. AskLater(5)' /\ Same
    BY <1>1, <2>1, AskOn, MoveIs
  <2> QED BY <1>1, <1>2, <1>4, <2>1, <2>2, <2>3 DEF Later5, SignersAre, LaterSigned, Signed, Used, Same, Units
<1>5. CASE ~LaterSigned
  <2>1. /\ Typed' /\ stack' = stack /\ cond' = cond /\ asked' = asked /\ acc' = acc /\ signers' = signers
    BY <1>2, <1>3, <1>5, Skipped DEF Flow
  <2>2. AskLater(5)' /\ Same
    BY <1>1, <2>1, AskOn, MoveIs
  <2> QED BY <1>1, <1>5, <2>1, <2>2 DEF Later5, SignersAre, LaterSigned, Signed, Used, Same, Units
<1> QED BY <1>4, <1>5

LEMMA Later5Step ==
    ASSUME Typed, Move, Later5
    PROVE  Typed' /\ Later6'
<1>1. /\ AskLater(5) /\ Within(cond, Outer, Truth(LaterSigned)) /\ SignersAre(asked + 1)
      /\ IF LaterSigned
         THEN Over(stack, witness, 2, Used + 1) /\ stack[1] = Units(asked + 1) /\ stack[2] = acc
         ELSE Over(stack, witness, 1, Used + 1) /\ stack[1] = acc
  BY DEF Later5
<1>2. t \in Instruction /\ t.op = "ADD"
  BY <1>1, LaterOps, Types
<1>3. Runs <=> LaterSigned
  BY <1>1, RunsIs, Types DEF Truth
<1>4. asked + 1 \in 1..N
  <2>1. asked \in 0..(N - 1)
    BY <1>1 DEF AskLater, Asking
  <2>2. N \in Nat
    BY Types, ConstantIs
  <2> QED BY <2>1, <2>2
<1>5. Units(asked + 1) \in Int /\ acc \in Int
  <2>1. Constant /\ acc \in Int
    BY Types
  <2>2. Units(asked + 1) \in Nat
    BY <1>4, <2>1, ConstantIs
  <2> QED BY <2>1, <2>2
<1>6. CASE LaterSigned
  <2>1. /\ Typed' /\ cond' = cond /\ asked' = asked /\ acc' = acc /\ signers' = signers
        /\ Moved(stack, stack', 2, 1) /\ stack'[1] = stack[1] + stack[2]
    BY <1>2, <1>3, <1>6, Executed DEF Flow
  <2>2. Over(stack, witness, 2, Used + 1) /\ stack[1] = Units(asked + 1) /\ stack[2] = acc
    BY <1>1, <1>6
  <2>3. Over(stack', witness, 1, Used + 1)
    BY <2>1, <2>2, Overs, Types, NextType
  <2>4. AskLater(6)' /\ Same
    BY <1>1, <2>1, AskOn, MoveIs
  <2>5. stack'[1] = acc + Units(asked + 1)
    BY <1>5, <2>1, <2>2
  <2> QED BY <1>1, <1>6, <2>1, <2>3, <2>4, <2>5 DEF Later6, SignersAre, LaterSigned, Signed, Used, Same, Units
<1>7. CASE ~LaterSigned
  <2>1. /\ Typed' /\ stack' = stack /\ cond' = cond /\ asked' = asked /\ acc' = acc /\ signers' = signers
    BY <1>2, <1>3, <1>7, Skipped DEF Flow
  <2>2. AskLater(6)' /\ Same
    BY <1>1, <2>1, AskOn, MoveIs
  <2>3. stack[1] = acc + 0
    BY <1>1, <1>5, <1>7
  <2> QED BY <1>1, <1>7, <2>1, <2>2, <2>3 DEF Later6, SignersAre, LaterSigned, Signed, Used, Same, Units
<1> QED BY <1>6, <1>7

LEMMA Later6Step ==
    ASSUME Typed, Move, Later6
    PROVE  Typed' /\ Counted'
<1>1. /\ AskLater(6) /\ Within(cond, Outer, Truth(LaterSigned)) /\ SignersAre(asked + 1)
      /\ Over(stack, witness, 1, Used + 1)
      /\ stack[1] = acc + (IF LaterSigned THEN Units(asked + 1) ELSE 0)
  BY DEF Later6
<1>2. t.op = "ENDIF"
  BY <1>1, LaterOps, Types
<1>3. Truth(LaterSigned) \in {0, 1}
  BY DEF Truth
<1>4. Len(stack) >= 1
  <2>1. Len(witness) \in Nat /\ Len(stack) \in Nat /\ Used + 1 \in Nat
    BY Types, LenProperties
  <2> QED BY <1>1, <2>1 DEF Over
<1>5. /\ Typed' /\ stack' = stack /\ signers' = signers /\ Straight(cond', Outer)
      /\ asked' = asked + 1 /\ acc' = stack[1]
  BY <1>1, <1>2, <1>3, <1>4, TookEndIfWithin
<1>6. asked \in 0..(N - 1) /\ at = Base + 7 * asked + 6 + 1 /\ acc = Tallied(asked)
  BY <1>1 DEF AskLater, Asking
<1>7. at' = at + 1 /\ Same /\ N \in Nat /\ Base \in Nat
  BY MoveIs, Types, ConstantIs
<1>8. asked' \in 1..N /\ at' = Base + 7 * asked' + 1
  BY <1>5, <1>6, <1>7
<1>9. acc' = Tallied(asked + 1)
  BY <1>1, <1>5, <1>6, TalliedIs, Types DEF LaterSigned
<1>10. Used + 1 = Outer + asked'
  BY <1>5, Types DEF Used
<1> QED BY <1>1, <1>5, <1>7, <1>8, <1>9, <1>10 DEF Counted, Tallied, SignersAre, Used, Same

--------------------------------------------------------------------------------
(* The branch that is not taken *)

One(c, x)    == Len(c) = 1 /\ c[1] = x
Two(c, x, y) == Len(c) = 2 /\ c[1] = x /\ c[2] = y

\* Before instruction d of question j.
Dead(j, d, c) ==
    /\ j = 1 /\ d <= 3 => One(c, 0)
    /\ j # 1 /\ d <= 4 => One(c, 0)
    /\ j = 1 /\ d \in 4..5 => Two(c, 0, 0)
    /\ j = 1 /\ d >= 6 => Two(c, 1, 0)
    /\ j # 1 /\ d >= 5 => Two(c, 0, 0)
Skipping(b, n) == \E j \in 1..n, d \in 1..7 : at = b + Place(j, d) /\ Dead(j, d, cond)

Quiet == Typed' /\ stack' = stack /\ asked' = asked /\ acc' = acc /\ signers' = signers

LEMMA SkipIs ==
    ASSUME Typed, Move, Outer = 1
    PROVE  /\ One(cond, 0) /\ t.op \notin Flow => Quiet /\ cond' = cond
           /\ \A x \in {0, 1} : Two(cond, x, 0) /\ t.op \notin Flow => Quiet /\ cond' = cond
           /\ One(cond, 0) /\ t.op = "IF" => Quiet /\ Two(cond', 0, 0)
           /\ Two(cond, 0, 0) /\ t.op = "ELSE" => Quiet /\ Two(cond', 1, 0)
           /\ \A x \in {0, 1} : Two(cond, x, 0) /\ t.op = "ENDIF" => Quiet /\ One(cond', 0)
           /\ \A x \in {0, 1} : One(cond, x) /\ t.op = "ELSE" => Quiet /\ One(cond', 1 - x)
           /\ \A x \in {0, 1} : One(cond, x) /\ t.op = "ENDIF" => Quiet /\ Len(cond') = 0
<1>1. DOMAIN cond = 1..Len(cond)
  BY LenProperties DEF Typed
<1>2. One(cond, 0) => ~Runs
  BY <1>1 DEF One, Runs
<1>3. \A x \in {0, 1} : Two(cond, x, 0) => ~Runs
  BY <1>1 DEF Two, Runs
<1>4. ASSUME One(cond, 0) \/ \E x \in {0, 1} : Two(cond, x, 0), t.op \notin Flow
      PROVE  Quiet /\ cond' = cond
  BY <1>2, <1>3, <1>4, Skipped DEF Quiet
<1>5. ASSUME One(cond, 0), t.op = "IF"
      PROVE  Quiet /\ Two(cond', 0, 0)
  <2>1. ~Runs /\ Truth(Runs /\ stack[1] # 0) = 0
    BY <1>2, <1>5 DEF Truth
  <2>2. Len(cond) = 1 /\ cond[1] = 0
    BY <1>5 DEF One
  <2>3. Len(cond') = Len(cond) + 1 /\ cond'[1] = 0 /\ \A j \in 2..(Len(cond) + 1) : cond'[j] = cond[j - 1]
    BY <1>5, <2>1, TookIf
  <2>4. cond'[2] = 0 /\ Len(cond') = 2
    BY <2>2, <2>3
  <2>5. Quiet
    BY <1>5, <2>1, TookIf DEF Quiet
  <2> QED BY <2>3, <2>4, <2>5 DEF Two
<1>6. ASSUME Two(cond, 0, 0), t.op = "ELSE"
      PROVE  Quiet /\ Two(cond', 1, 0)
  <2>1. Len(cond) = 2 /\ cond[1] = 0 /\ cond[2] = 0 /\ Len(cond) >= 1
    BY <1>6 DEF Two
  <2>2. /\ Quiet /\ Len(cond') = Len(cond) /\ cond'[1] = 1 - cond[1]
        /\ \A j \in 2..Len(cond) : cond'[j] = cond[j]
    BY <1>6, <2>1, TookElse DEF Quiet
  <2> QED BY <2>1, <2>2 DEF Two
<1>7. ASSUME NEW x \in {0, 1}, Two(cond, x, 0), t.op = "ENDIF"
      PROVE  Quiet /\ One(cond', 0)
  <2>1. Len(cond) = 2 /\ cond[2] = 0 /\ Len(cond) >= 1
    BY <1>7 DEF Two
  <2>2. ~Asks
    BY <2>1 DEF Asks
  <2>3. /\ Quiet /\ Len(cond') = Len(cond) - 1
        /\ \A j \in 1..(Len(cond) - 1) : cond'[j] = cond[j + 1]
    BY <1>7, <2>1, <2>2, TookEndIf DEF Quiet
  <2>4. cond'[1] = cond[1 + 1]
    BY <2>1, <2>3
  <2> QED BY <2>1, <2>3, <2>4 DEF One
<1>8. ASSUME NEW x \in {0, 1}, One(cond, x), t.op = "ELSE"
      PROVE  Quiet /\ One(cond', 1 - x)
  <2>1. Len(cond) = 1 /\ cond[1] = x /\ Len(cond) >= 1
    BY <1>8 DEF One
  <2>2. Quiet /\ Len(cond') = Len(cond) /\ cond'[1] = 1 - cond[1]
    BY <1>8, <2>1, TookElse DEF Quiet
  <2> QED BY <2>1, <2>2 DEF One
<1>9. ASSUME NEW x \in {0, 1}, One(cond, x), t.op = "ENDIF"
      PROVE  Quiet /\ Len(cond') = 0
  <2>1. Len(cond) = 1 /\ Len(cond) >= 1
    BY <1>9 DEF One
  <2>2. ~Asks
    BY <2>1 DEF Asks
  <2>3. Quiet /\ Len(cond') = Len(cond) - 1
    BY <1>9, <2>1, <2>2, TookEndIf DEF Quiet
  <2> QED BY <2>1, <2>3
<1> QED BY <1>4, <1>5, <1>6, <1>7, <1>8, <1>9

LEMMA SkipQuestion ==
    ASSUME Typed, Move, Outer = 1, NEW key \in Int, NEW power \in Int, NEW j \in Nat, NEW d \in 1..7,
           t = Instr(key, power, j, d), Dead(j, d, cond)
    PROVE  /\ Quiet
           /\ d < 7 => Dead(j, d + 1, cond')
           /\ d = 7 => One(cond', 0)
<1> DEFINE q == Question(key, power, j = 1)
<1>1. t = q[d]
  BY DEF Instr
<1>2. (j = 1) \in BOOLEAN
  OBVIOUS
<1>3. /\ j = 1 => /\ q[1] = Push(key) /\ q[2] = Op("CHECKSIG") /\ q[3] = Op("IF") /\ q[4] = Push(power)
                  /\ q[5] = Op("ELSE") /\ q[6] = Push(0) /\ q[7] = Op("ENDIF")
      /\ j # 1 => /\ q[1] = Op("SWAP") /\ q[2] = Push(key) /\ q[3] = Op("CHECKSIG") /\ q[4] = Op("IF")
                  /\ q[5] = Push(power) /\ q[6] = Op("ADD") /\ q[7] = Op("ENDIF")
  BY <1>2, QuestionIs
<1>4. /\ Push(key).op = "PUSH" /\ Push(power).op = "PUSH" /\ Push(0).op = "PUSH"
      /\ Op("CHECKSIG").op = "CHECKSIG" /\ Op("IF").op = "IF" /\ Op("ELSE").op = "ELSE"
      /\ Op("ENDIF").op = "ENDIF" /\ Op("SWAP").op = "SWAP" /\ Op("ADD").op = "ADD"
  BY DEF Push, Op
<1> HIDE DEF q
<1>5. d = 1 \/ d = 2 \/ d = 3 \/ d = 4 \/ d = 5 \/ d = 6 \/ d = 7
  OBVIOUS
<1>6. CASE j = 1
  <2>1. CASE d \in {1, 2}
    <3>1. t.op \notin Flow
      BY <1>1, <1>3, <1>4, <1>6, <2>1 DEF Flow
    <3> QED BY <1>6, <2>1, <3>1, SkipIs DEF Dead
  <2>2. CASE d = 3
    <3>1. t.op = "IF"
      BY <1>1, <1>3, <1>4, <1>6, <2>2
    <3> QED BY <1>6, <2>2, <3>1, SkipIs DEF Dead
  <2>3. CASE d = 4
    <3>1. t.op \notin Flow
      BY <1>1, <1>3, <1>4, <1>6, <2>3 DEF Flow
    <3> QED BY <1>6, <2>3, <3>1, SkipIs DEF Dead
  <2>4. CASE d = 5
    <3>1. t.op = "ELSE"
      BY <1>1, <1>3, <1>4, <1>6, <2>4
    <3> QED BY <1>6, <2>4, <3>1, SkipIs DEF Dead
  <2>5. CASE d = 6
    <3>1. t.op \notin Flow
      BY <1>1, <1>3, <1>4, <1>6, <2>5 DEF Flow
    <3> QED BY <1>6, <2>5, <3>1, SkipIs DEF Dead
  <2>6. CASE d = 7
    <3>1. t.op = "ENDIF"
      BY <1>1, <1>3, <1>4, <1>6, <2>6
    <3> QED BY <1>6, <2>6, <3>1, SkipIs DEF Dead
  <2> QED BY <1>5, <2>1, <2>2, <2>3, <2>4, <2>5, <2>6
<1>7. CASE j # 1
  <2>1. CASE d \in {1, 2, 3}
    <3>1. t.op \notin Flow
      BY <1>1, <1>3, <1>4, <1>7, <2>1 DEF Flow
    <3> QED BY <1>7, <2>1, <3>1, SkipIs DEF Dead
  <2>2. CASE d = 4
    <3>1. t.op = "IF"
      BY <1>1, <1>3, <1>4, <1>7, <2>2
    <3> QED BY <1>7, <2>2, <3>1, SkipIs DEF Dead
  <2>3. CASE d \in {5, 6}
    <3>1. t.op \notin Flow
      BY <1>1, <1>3, <1>4, <1>7, <2>3 DEF Flow
    <3> QED BY <1>7, <2>3, <3>1, SkipIs DEF Dead
  <2>4. CASE d = 7
    <3>1. t.op = "ENDIF"
      BY <1>1, <1>3, <1>4, <1>7, <2>4
    <3> QED BY <1>7, <2>4, <3>1, SkipIs DEF Dead
  <2> QED BY <1>5, <2>1, <2>2, <2>3, <2>4
<1> QED BY <1>6, <1>7

\* After b instructions come the questions to n keys.
Questions(b, n, keys, powers) ==
    \A j \in 1..n, d \in 1..7 :
        /\ keys[j] \in Int /\ powers[j] \in Int
        /\ script[b + Place(j, d)] = Instr(keys[j], powers[j], j, d)

LEMMA SkippingStep ==
    ASSUME Typed, Move, Outer = 1, NEW b \in Nat, NEW n \in Nat, NEW keys, NEW powers,
           Questions(b, n, keys, powers), Skipping(b, n)
    PROVE  /\ Quiet
           /\ \/ \E j \in 1..n, d \in 1..7 : at' = b + Place(j, d) /\ Dead(j, d, cond')
              \/ at' = b + 7 * n + 1 /\ One(cond', 0)
<1>1. PICK j \in 1..n, d \in 1..7 : at = b + Place(j, d) /\ Dead(j, d, cond)
  BY DEF Skipping
<1>2. keys[j] \in Int /\ powers[j] \in Int /\ t = Instr(keys[j], powers[j], j, d) /\ j \in Nat
  BY <1>1 DEF t, Questions
<1>3. /\ Quiet
      /\ d < 7 => Dead(j, d + 1, cond')
      /\ d = 7 => One(cond', 0)
  BY <1>1, <1>2, SkipQuestion
<1>4. at' = at + 1
  BY MoveIs
<1>5. CASE d < 7
  <2>1. d + 1 \in 1..7 /\ at' = b + Place(j, d + 1)
    BY <1>1, <1>4, <1>5 DEF Place
  <2> QED BY <1>3, <1>5, <2>1
<1>6. CASE d = 7 /\ j < n
  <2>1. j + 1 \in 1..n /\ 1 \in 1..7 /\ at' = b + Place(j + 1, 1) /\ j + 1 # 1
    BY <1>1, <1>4, <1>6 DEF Place
  <2>2. Dead(j + 1, 1, cond')
    BY <1>3, <1>6, <2>1 DEF Dead
  <2> QED BY <1>3, <2>1, <2>2
<1>7. CASE d = 7 /\ j = n
  <2>1. at' = b + 7 * n + 1
    BY <1>1, <1>4, <1>7 DEF Place
  <2> QED BY <1>3, <1>7, <2>1
<1> QED BY <1>5, <1>6, <1>7

--------------------------------------------------------------------------------
(* The branches, and the end *)

Fresh == asked = 0 /\ acc = Tallied(0) /\ SignersAre(0)

AtBranch(k) == Outer = 1 /\ at = k /\ Straight(cond, 0) /\ Fresh
Branch1 == AtBranch(1) /\ Over(stack, witness, 0, 0)
Branch2 == AtBranch(2) /\ Over(stack, witness, 1, 0) /\ stack[1] = ZeroByte
Branch3 == AtBranch(3) /\ Over(stack, witness, 1, 1) /\ stack[1] = Truth(witness[1] = ZeroByte)

SkipsSignatories ==
    /\ Foundation /\ Fresh /\ Over(stack, witness, 0, 1)
    /\ \/ Skipping(3, Len(sigset.vp))
       \/ /\ at \in 3 + 7 * Len(sigset.vp) + 1 .. 3 + 7 * Len(sigset.vp) + 5
          /\ One(cond, 0)

\* A foundation without a key.
Returns == Foundation /\ N = 0 /\ Fresh /\ at = Base + 1 /\ Straight(cond, Outer) /\ Over(stack, witness, 0, 1)

SkipsFoundation ==
    /\ ~Foundation /\ Outer = 1 /\ Decided
    /\ \/ Skipping(FoundBase(sigset), Len(sigset.foundation))
       \/ /\ at \in FoundBase(sigset) + 7 * Len(sigset.foundation) + 1 .. FoundEnd(sigset)
          /\ One(cond, 0)

End == Outer = 1 /\ Decided /\ at = Len(script) + 1 /\ Len(cond) = 0

LEMMA VpIs ==
    ASSUME Constant
    PROVE  /\ Len(sigset.vp) \in Nat /\ Len(sigset.vp) >= 1 /\ Len(sigset.foundation) \in Nat
           /\ Outer = 1 => sigset.foundation # NoFoundation /\ SigBase(sigset) = 3
           /\ Foundation => Outer = 1 /\ Base = FoundBase(sigset) /\ N = Len(sigset.foundation)
           /\ ~Foundation => N = Len(sigset.vp)
           /\ FoundBase(sigset) \in Nat /\ FoundEnd(sigset) \in Nat
           /\ Outer = 1 => FoundBase(sigset) = 3 + 7 * Len(sigset.vp) + 5
           /\ sigset.foundation = <<>> => FoundEnd(sigset) = FoundBase(sigset) + 2 /\ Len(sigset.foundation) = 0
           /\ sigset.foundation # <<>> =>
                FoundEnd(sigset) = FoundBase(sigset) + 7 * Len(sigset.foundation) + 3 /\ Len(sigset.foundation) >= 1
<1>1. Len(sigset.vp) \in Nat /\ Len(sigset.vp) >= 1 /\ Len(sigset.foundation) \in Nat
      /\ (sigset.foundation # <<>> => Len(sigset.foundation) >= 1)
      /\ (sigset.foundation = <<>> => Len(sigset.foundation) = 0)
  BY DEF Constant, IsSigset
<1>2. (Outer = 1 => sigset.foundation # NoFoundation) /\ (Foundation => Outer = 1)
  BY DEF Outer, Foundation
<1>3. SigBase(sigset) \in Nat /\ (Outer = 1 => SigBase(sigset) = 3)
  BY <1>2 DEF SigBase
<1>4. FoundBase(sigset) = SigBase(sigset) + 7 * Len(sigset.vp) + 5
  BY DEF FoundBase
<1> DEFINE m == 7 * Len(sigset.vp)  fb == FoundBase(sigset)  k == 7 * Len(sigset.foundation)
<1>5. m \in Nat /\ k \in Nat
  BY <1>1
<1>6. fb \in Nat /\ (Outer = 1 => fb = 3 + m + 5)
  <2>1. fb = SigBase(sigset) + m + 5
    BY <1>4
  <2> HIDE DEF m, fb
  <2> QED BY <1>3, <1>5, <2>1
<1>7. FoundEnd(sigset) = IF sigset.foundation = <<>> THEN fb + 2 ELSE fb + (k + 3)
  BY DEF FoundEnd
<1>8. FoundEnd(sigset) \in Nat /\ (sigset.foundation # <<>> => FoundEnd(sigset) = fb + k + 3)
  <2> HIDE DEF k, fb
  <2> QED BY <1>5, <1>6, <1>7
<1>9. (Foundation => Base = fb /\ N = Len(sigset.foundation)) /\ (~Foundation => N = Len(sigset.vp))
  BY DEF Base, N, Powers
<1> QED BY <1>1, <1>2, <1>3, <1>6, <1>7, <1>8, <1>9

LEMMA FreshStays ==
    ASSUME Typed, Move, asked' = asked, acc' = acc, signers' = signers, Fresh
    PROVE  Fresh'
BY MoveIs DEF Fresh, SignersAre, Tallied, Same

LEMMA Branch1Step ==
    ASSUME Typed, Move, Branch1
    PROVE  Typed' /\ Branch2' /\ at <= Len(script)
<1>1. Outer = 1 /\ at = 1 /\ Straight(cond, 0) /\ Fresh /\ Over(stack, witness, 0, 0)
  BY DEF Branch1, AtBranch
<1>2. script[1] = Push(ZeroByte) /\ ZeroByte \in Int
  <2>1. ZeroByte \in Int
    BY DEF ZeroByte
  <2> QED BY <1>1, <2>1, VpIs, ScriptIs, Types DEF Constant
<1>3. t \in Instruction /\ t.op = "PUSH" /\ t.n = ZeroByte /\ Runs
  <2> DEFINE n == 0
  <2>1. n \in Nat /\ Straight(cond, n)
    BY <1>1
  <2> HIDE DEF n
  <2>2. Runs
    BY <2>1, RunsIs
  <2> QED BY <1>1, <1>2, <2>2, PushIs DEF t
<1>4. /\ Typed' /\ cond' = cond /\ asked' = asked /\ acc' = acc /\ signers' = signers
      /\ Moved(stack, stack', 0, 1) /\ stack'[1] = t.n
  BY <1>3, Executed DEF Flow
<1>5. Over(stack', witness, 1, 0)
  <2> DEFINE c == 0
  <2>1. c \in Nat /\ Over(stack, witness, 0, c)
    BY <1>1
  <2>2. Over(stack', witness, 1, c)
    <3> HIDE DEF c
    <3> QED BY <1>4, <2>1, Overs, Types, NextType
  <2> QED BY <2>2
<1>6. at' = 2 /\ Same /\ at <= Len(script)
  BY <1>1, MoveIs
<1>7. Fresh'
  BY <1>1, <1>4, FreshStays
<1> QED BY <1>1, <1>3, <1>4, <1>5, <1>6, <1>7 DEF Branch2, AtBranch, Same

LEMMA Branch2Step ==
    ASSUME Typed, Move, Branch2
    PROVE  Typed' /\ Branch3' /\ at <= Len(script)
<1>1. Outer = 1 /\ at = 2 /\ Straight(cond, 0) /\ Fresh /\ Over(stack, witness, 1, 0) /\ stack[1] = ZeroByte
  BY DEF Branch2, AtBranch
<1>2. script[2] = Op("EQUAL")
  BY <1>1, VpIs, ScriptIs, Types DEF Constant
<1>3. t \in Instruction /\ t.op = "EQUAL" /\ Runs
  <2> DEFINE n == 0
  <2>1. n \in Nat /\ Straight(cond, n)
    BY <1>1
  <2> HIDE DEF n
  <2>2. Runs
    BY <2>1, RunsIs
  <2> QED BY <1>1, <1>2, <2>2, OpIs DEF t, Ops
<1>4. /\ Typed' /\ cond' = cond /\ asked' = asked /\ acc' = acc /\ signers' = signers
      /\ Moved(stack, stack', 2, 1) /\ stack'[1] = Truth(stack[1] = stack[2])
  BY <1>3, Executed DEF Flow
<1>5. Over(stack', witness, 1, 1) /\ stack[2] = witness[1]
  <2> DEFINE c == 0
  <2>1. c \in Nat /\ Over(stack, witness, 1, c) /\ c + 1 = 1
    BY <1>1
  <2>2. Over(stack', witness, 1, c + 1) /\ stack[2] = witness[c + 1]
    <3> HIDE DEF c
    <3> QED BY <1>4, <2>1, Overs, Types, NextType
  <2> QED BY <2>1, <2>2
<1>6. at' = 3 /\ Same /\ at <= Len(script)
  BY <1>1, MoveIs
<1>7. Fresh'
  BY <1>1, <1>4, FreshStays
<1>8. (stack[1] = stack[2]) = (witness[1] = ZeroByte)
  BY <1>1, <1>5
<1> QED BY <1>1, <1>4, <1>5, <1>6, <1>7, <1>8 DEF Branch3, AtBranch, Same

LEMMA FirstAsked ==
    ASSUME N' \in Nat, Base' \in Nat, Fresh', N' >= 1, at' = Base' + 1, Straight(cond', Outer'), Over(stack', witness', 0, Outer')
    PROVE  First0'
<1>2. asked' = 0 /\ acc' = Tallied(asked)' /\ SignersAre(0)'
  BY DEF Fresh, Tallied
<1>3. asked' \in 0..(N' - 1) /\ at' = Base' + 7 * asked' + 0 + 1
  <2> DEFINE n == N'  b == Base'  a == asked'
  <2>1. n \in Nat /\ b \in Nat /\ n >= 1 /\ at' = b + 1 /\ a = 0
    BY <1>2
  <2> HIDE DEF n, b, a
  <2>2. 0 \in 0..(n - 1)
    BY <2>1
  <2>3. b + 7 * 0 + 0 + 1 = b + 1
    BY <2>1
  <2> QED BY <2>1, <2>2, <2>3 DEF n, b, a
<1> QED BY <1>2, <1>3 DEF First0, AskFirst, Asking

LEMMA Branch3Step ==
    ASSUME Typed, Move, Branch3
    PROVE  Typed' /\ at <= Len(script) /\ (First0' \/ SkipsSignatories')
<1>1. Outer = 1 /\ at = 3 /\ Straight(cond, 0) /\ Fresh /\ Over(stack, witness, 1, 1)
      /\ stack[1] = Truth(witness[1] = ZeroByte)
  BY DEF Branch3, AtBranch
<1>2. script[3] = Op("IF")
  BY <1>1, VpIs, ScriptIs, Types DEF Constant
<1>3. t.op = "IF"
  BY <1>1, <1>2 DEF t, Op
<1>4. /\ Typed' /\ asked' = asked /\ acc' = acc /\ signers' = signers
      /\ Within(cond', 0, Truth(stack[1] # 0)) /\ Moved(stack, stack', 1, 0)
  <2> DEFINE n == 0
  <2>1. n \in Nat /\ Straight(cond, n)
    BY <1>1
  <2>2. /\ Typed' /\ asked' = asked /\ acc' = acc /\ signers' = signers
        /\ Within(cond', n, Truth(stack[1] # 0)) /\ Moved(stack, stack', 1, 0)
    <3> HIDE DEF n
    <3> QED BY <1>3, <2>1, TookIfStraight
  <2> QED BY <2>2
<1>5. Over(stack', witness, 0, 1)
  <2> DEFINE c == 1
  <2>1. c \in Nat /\ Over(stack, witness, 1, c)
    BY <1>1
  <2>2. Over(stack', witness, 0, c)
    <3> HIDE DEF c
    <3> QED BY <1>4, <2>1, Overs, Types, NextType
  <2> QED BY <2>2
<1>6. at' = 4 /\ Same /\ at <= Len(script) /\ Constant'
  BY <1>1, MoveIs
<1>7. Fresh'
  BY <1>1, <1>4, FreshStays
<1>8. Len(cond') = 1 /\ cond'[1] = Truth(witness[1] = ZeroByte)
  <2>1. Truth(stack[1] # 0) = Truth(witness[1] = ZeroByte)
    BY <1>1 DEF Truth
  <2> QED BY <1>4, <2>1 DEF Within
<1>9. witness # <<>>
  <2>1. Len(witness) >= 1
    BY <1>1, Types DEF Over
  <2> QED BY <2>1
<1>10. CASE witness[1] = ZeroByte
  <2>1. ~Foundation
    BY <1>9, <1>10 DEF Foundation
  <2>2. Base = 3 /\ N >= 1
    BY <1>1, <2>1, VpIs, Types DEF Base
  <2>3. Straight(cond', Outer)
    BY <1>1, <1>8, <1>10 DEF Straight, Truth
  <2>4. /\ N' >= 1 /\ at' = Base' + 1 /\ Straight(cond', Outer') /\ Over(stack', witness', 0, Outer')
        /\ N' \in Nat /\ Base' \in Nat
    <3>1. N \in Nat
      BY ConstantIs, Types
    <3> QED BY <1>1, <1>5, <1>6, <2>2, <2>3, <3>1 DEF Same
  <2> QED BY <1>4, <1>6, <1>7, <2>4, FirstAsked
<1>11. CASE witness[1] # ZeroByte
  <2>1. Foundation
    BY <1>1, <1>11, VpIs, Types DEF Foundation
  <2>2. One(cond', 0)
    BY <1>8, <1>11 DEF One, Truth
  <2>3. 1 \in 1..Len(sigset.vp) /\ 1 \in 1..7 /\ at' = 3 + Place(1, 1) /\ Dead(1, 1, cond')
    BY <1>6, <2>2, VpIs, Types DEF Place, Dead
  <2>4. Skipping(3, Len(sigset.vp))'
    BY <1>6, <2>3 DEF Skipping, Same
  <2> QED BY <1>4, <1>5, <1>6, <1>7, <2>1, <2>4 DEF SkipsSignatories, Same
<1> QED BY <1>10, <1>11

LEMMA SkipsSignatoriesStep ==
    ASSUME Typed, Move, SkipsSignatories
    PROVE  Typed' /\ (SkipsSignatories' \/ First0' \/ Returns')
<1> DEFINE n == Len(sigset.vp)
<1>1. Foundation /\ Fresh /\ Over(stack, witness, 0, 1)
  BY DEF SkipsSignatories
<1>2. /\ n \in Nat /\ n >= 1 /\ Outer = 1 /\ sigset.foundation # NoFoundation /\ SigBase(sigset) = 3
      /\ FoundBase(sigset) = 3 + 7 * n + 5 /\ Base = FoundBase(sigset)
  BY <1>1, VpIs, Types
<1>3. at' = at + 1 /\ Same /\ Constant' /\ Constant /\ IsSigset(sigset) /\ script = Script(sigset)
  BY MoveIs, Types DEF Constant
<1>4. /\ \A k \in 1..(7 * n + 4) : script[3 + k] = SignatoriesOpen(sigset)[k]
      /\ script[FoundBase(sigset)] = Op("ELSE")
  BY <1>2, <1>3, ScriptIs
<1>5. CASE Skipping(3, n)
  <2> DEFINE keys == SigKeys(sigset)  powers == [j \in DOMAIN sigset.vp |-> sigset.vp[j] \div SigUnit(sigset)]
  <2>1. \A j \in 1..n, d \in 1..7 : SignatoriesOpen(sigset)[Place(j, d)] = Instr(keys[j], sigset.vp[j] \div SigUnit(sigset), j, d)
    BY <1>3, SignatoriesOpenIs
  <2>2. \A j \in 1..n : keys[j] \in Int /\ powers[j] \in Int /\ powers[j] = sigset.vp[j] \div SigUnit(sigset)
    <3>1. DOMAIN sigset.vp = 1..n /\ \A j \in 1..n : sigset.vp[j] \in Nat
      BY <1>3, LenProperties, ElementOfSeq DEF IsSigset
    <3>2. SigUnit(sigset) \in Nat \ {0}
      BY <1>3, SigsetIs DEF SigUnit
    <3> TAKE j \in 1..n
    <3>3. keys[j] = -(j + 2)
      BY <3>1 DEF SigKeys
    <3>4. sigset.vp[j] \in Int
      BY <3>1
    <3>5. sigset.vp[j] \div SigUnit(sigset) \in Int
      BY <3>2, <3>4, Division
    <3> QED BY <3>1, <3>3, <3>5
  <2> HIDE DEF keys, powers
  <2>3. ASSUME NEW j \in 1..n, NEW d \in 1..7
        PROVE  /\ keys[j] \in Int /\ powers[j] \in Int
               /\ script[3 + Place(j, d)] = Instr(keys[j], powers[j], j, d)
    <3>1. Place(j, d) \in 1..(7 * n + 4)
      BY <1>2 DEF Place
    <3> QED BY <1>4, <2>1, <2>2, <3>1
  <2> DEFINE b == 3
  <2>4. b \in Nat /\ Skipping(b, n) /\ b = 3
    BY <1>5
  <2>5. Questions(b, n, keys, powers)
    BY <2>3 DEF Questions
  <2> HIDE DEF b
  <2>6. /\ Quiet
        /\ \/ \E j \in 1..n, d \in 1..7 : at' = b + Place(j, d) /\ Dead(j, d, cond')
           \/ at' = b + 7 * n + 1 /\ One(cond', 0)
    BY <1>2, <2>4, <2>5, SkippingStep
  <2>7. Fresh' /\ Over(stack', witness, 0, 1)
    BY <1>1, <2>6, FreshStays DEF Quiet
  <2>8. CASE \E j \in 1..n, d \in 1..7 : at' = b + Place(j, d) /\ Dead(j, d, cond')
    <3>1. Skipping(3, n)'
      BY <1>3, <2>4, <2>8 DEF Skipping, Same
    <3> QED BY <1>1, <1>3, <2>6, <2>7, <3>1 DEF SkipsSignatories, Same, Quiet
  <2>9. CASE at' = b + 7 * n + 1 /\ One(cond', 0)
    <3>1. at' \in 3 + 7 * n + 1 .. 3 + 7 * n + 5
      BY <1>2, <2>4, <2>9
    <3> QED BY <1>1, <1>3, <2>6, <2>7, <2>9, <3>1 DEF SkipsSignatories, Same, Quiet
  <2> QED BY <2>6, <2>8, <2>9
<1>6. CASE at \in 3 + 7 * n + 1 .. 3 + 7 * n + 4 /\ One(cond, 0)
  <2> DEFINE m == 7 * n  k == at - 3
  <2>1. m \in Nat /\ k \in 1..(m + 4) /\ at = 3 + k /\ (k = m + 1 \/ k = m + 2 \/ k = m + 3 \/ k = m + 4)
    BY <1>2, <1>6
  <2>2. t = SignatoriesOpen(sigset)[k]
    BY <1>4, <2>1 DEF t
  <2>3. /\ SignatoriesOpen(sigset)[m + 1] = Push(Share(sigset) \div SigUnit(sigset))
        /\ SignatoriesOpen(sigset)[m + 2] = Op("GREATERTHAN")
        /\ SignatoriesOpen(sigset)[m + 3] = Push(Dest)
        /\ SignatoriesOpen(sigset)[m + 4] = Op("DROP")
    BY <1>3, SignatoriesOpenIs
  <2>4. t.op \notin Flow
    <3> HIDE DEF m, k
    <3> QED BY <2>1, <2>2, <2>3 DEF Push, Op, Flow
  <2>5. Quiet /\ cond' = cond
    BY <1>2, <1>6, <2>4, SkipIs
  <2>6. Fresh' /\ Over(stack', witness, 0, 1)
    BY <1>1, <2>5, FreshStays DEF Quiet
  <2>7. at' \in 3 + 7 * n + 1 .. 3 + 7 * n + 5
    BY <1>2, <1>3, <1>6
  <2> QED BY <1>1, <1>3, <1>6, <2>5, <2>6, <2>7 DEF SkipsSignatories, Same, Quiet
<1>7. CASE at = 3 + 7 * n + 5 /\ One(cond, 0)
  <2>1. t.op = "ELSE"
    BY <1>2, <1>4, <1>7 DEF t, Op
  <2>2. Quiet /\ One(cond', 1)
    <3> DEFINE x == 0
    <3>1. x \in {0, 1} /\ One(cond, x) /\ 1 - x = 1
      BY <1>7
    <3> HIDE DEF x
    <3>2. Quiet /\ One(cond', 1 - x)
      BY <1>2, <2>1, <3>1, SkipIs
    <3> QED BY <3>1, <3>2
  <2>3. Fresh' /\ Over(stack', witness, 0, 1) /\ Straight(cond', Outer)
    BY <1>1, <1>2, <2>2, FreshStays DEF Quiet, One, Straight
  <2>4. at' = Base + 1
    BY <1>2, <1>3, <1>7
  <2>5. CASE N >= 1
    <3>1. /\ N' >= 1 /\ at' = Base' + 1 /\ Straight(cond', Outer') /\ Over(stack', witness', 0, Outer')
          /\ N' \in Nat /\ Base' \in Nat
      BY <1>2, <1>3, <2>3, <2>4, <2>5, ConstantIs DEF Same
    <3> QED BY <1>3, <2>2, <2>3, <3>1, FirstAsked DEF Quiet
  <2>6. CASE N = 0
    BY <1>1, <1>3, <2>2, <2>3, <2>4, <2>6 DEF Returns, Same, Quiet
  <2>7. N \in Nat
    BY <1>3, ConstantIs
  <2> QED BY <2>5, <2>6, <2>7
<1>8. SkipsSignatories => Skipping(3, n) \/ (at \in 3 + 7 * n + 1 .. 3 + 7 * n + 5 /\ One(cond, 0))
  BY DEF SkipsSignatories
<1> QED BY <1>2, <1>5, <1>6, <1>7, <1>8

LEMMA DecidedStays ==
    ASSUME Typed, Move, asked' = asked, acc' = acc, signers' = signers, stack' = stack, Decided
    PROVE  Decided'
BY MoveIs DEF Decided, AskedAll, Verdict, SignersAre, Tallied, Used, Same

LEMMA Compare1Step ==
    ASSUME Typed, Move, Compare1
    PROVE  Typed' /\ Compare2'
<1>1. /\ AskedAll /\ at = Base + 7 * N + 2 /\ Straight(cond, Outer)
      /\ Over(stack, witness, 2, Used) /\ stack[1] = Number /\ stack[2] = acc
  BY DEF Compare1
<1>2. N >= 1 /\ N \in Nat /\ Base \in Nat /\ Threshold \in Int /\ Unit \in Nat \ {0} /\ acc \in Int
  BY <1>1, ConstantIs, Types DEF AskedAll
<1>3. Runs /\ t \in Instruction /\ t.op = IF Foundation THEN "GREATERTHANOREQUAL" ELSE "GREATERTHAN"
  BY <1>1, <1>2, CompareOps, RunsIs, Types
<1>4. /\ Typed' /\ cond' = cond /\ asked' = asked /\ acc' = acc /\ signers' = signers
      /\ Moved(stack, stack', 2, 1)
      /\ stack'[1] = IF Foundation THEN Truth(stack[2] >= stack[1]) ELSE Truth(stack[2] > stack[1])
  <2>1. CASE Foundation
    BY <1>3, <2>1, Executed DEF Flow
  <2>2. CASE ~Foundation
    BY <1>3, <2>2, Executed DEF Flow
  <2> QED BY <2>1, <2>2
<1>5. Over(stack', witness, 1, Used)
  BY <1>1, <1>4, Overs, Types, NextType
<1>6. stack'[1] = Verdict
  <2>1. CASE Foundation
    <3>1. Number = Threshold + 1 /\ Unit = 1
      BY <2>1 DEF Number, Unit
    <3>2. Threshold \div Unit = Threshold
      BY <1>2, <3>1
    <3>3. (acc >= Threshold + 1) = (acc > Threshold)
      BY <1>2
    <3> QED BY <1>1, <1>4, <2>1, <3>1, <3>2, <3>3 DEF Verdict
  <2>2. CASE ~Foundation
    BY <1>1, <1>4, <2>2 DEF Verdict, Number
  <2> QED BY <2>1, <2>2
<1>7. at' = at + 1 /\ Same
  BY MoveIs
<1>8. at' = Base + 7 * N + 3
  BY <1>1, <1>2, <1>7
<1> QED BY <1>1, <1>4, <1>5, <1>6, <1>7, <1>8
    DEF Compare2, Decided, AskedAll, Verdict, SignersAre, Tallied, Used, Same

LEMMA Compare2Step ==
    ASSUME Typed, Move, Compare2
    PROVE  Typed' /\ (Compare3' \/ End')
<1>1. AskedAll /\ Decided /\ at = Base + 7 * N + 3 /\ Straight(cond, Outer)
      /\ Over(stack, witness, 1, Used) /\ stack[1] = Verdict
  BY DEF Compare2, Decided
<1>2. N >= 1 /\ N \in Nat /\ Base \in Nat /\ at' = at + 1 /\ Same
  BY <1>1, ConstantIs, Types, MoveIs DEF AskedAll
<1>3. CASE Foundation
  <2>1. t.op = "ENDIF" /\ at = Len(script) /\ Outer = 1
    BY <1>1, <1>2, <1>3, CompareOps, Types
  <2>2. Quiet /\ Len(cond') = 0
    <3> DEFINE x == 1
    <3>1. x \in {0, 1} /\ One(cond, x)
      BY <1>1, <2>1 DEF Straight, One
    <3> HIDE DEF x
    <3> QED BY <2>1, <3>1, SkipIs
  <2>3. Decided'
    BY <1>1, <2>2, DecidedStays DEF Quiet
  <2>4. at' = Len(script) + 1
    BY <1>2, <2>1
  <2> QED BY <1>2, <2>1, <2>2, <2>3, <2>4 DEF End, Quiet, Same
<1>4. CASE ~Foundation
  <2>1. Runs /\ t \in Instruction /\ t.op = "PUSH" /\ t.n = Dest
    BY <1>1, <1>2, <1>4, CompareOps, RunsIs, Types
  <2>2. /\ Typed' /\ cond' = cond /\ asked' = asked /\ acc' = acc /\ signers' = signers
        /\ Moved(stack, stack', 0, 1) /\ stack'[1] = t.n
    BY <2>1, Executed DEF Flow
  <2>3. Over(stack', witness, 2, Used) /\ stack'[2] = stack[1]
    BY <1>1, <2>2, Overs, Types, NextType
  <2>4. at' = Base + 7 * N + 4
    BY <1>1, <1>2
  <2> QED BY <1>1, <1>2, <1>4, <2>1, <2>2, <2>3, <2>4
      DEF Compare3, AskedAll, Verdict, SignersAre, Tallied, Used, Same
<1> QED BY <1>3, <1>4

LEMMA Compare3Step ==
    ASSUME Typed, Move, Compare3
    PROVE  Typed' /\ Compare4'
<1>1. /\ AskedAll /\ ~Foundation /\ at = Base + 7 * N + 4 /\ Straight(cond, Outer)
      /\ Over(stack, witness, 2, Used) /\ stack[2] = Verdict
  BY DEF Compare3
<1>2. N >= 1 /\ N \in Nat /\ Base \in Nat /\ at' = at + 1 /\ Same
  BY <1>1, ConstantIs, Types, MoveIs DEF AskedAll
<1>3. Runs /\ t \in Instruction /\ t.op = "DROP"
  BY <1>1, <1>2, CompareOps, RunsIs, Types
<1>4. /\ Typed' /\ cond' = cond /\ asked' = asked /\ acc' = acc /\ signers' = signers
      /\ Moved(stack, stack', 1, 0)
  BY <1>3, Executed DEF Flow
<1>5. Over(stack', witness, 1, Used) /\ stack'[1] = stack[2]
  BY <1>1, <1>4, Overs, Types, NextType
<1>6. at' = Base + 7 * N + 5
  BY <1>1, <1>2
<1> QED BY <1>1, <1>2, <1>4, <1>5, <1>6
    DEF Compare4, Decided, AskedAll, Verdict, SignersAre, Tallied, Used, Same

LEMMA Compare4Step ==
    ASSUME Typed, Move, Compare4
    PROVE  Typed' /\ SkipsFoundation'
<1>1. AskedAll /\ Decided /\ ~Foundation /\ at = Base + 7 * N + 5 /\ Straight(cond, Outer)
  BY DEF Compare4, Decided
<1>2. N >= 1 /\ N \in Nat /\ Base \in Nat /\ Outer \in 0..1 /\ at' = at + 1 /\ Same /\ at <= Len(script)
      /\ Len(script) \in Nat
  BY <1>1, ConstantIs, Types, MoveIs, ScriptIs, LenProperties DEF AskedAll, Constant
<1>3. Outer = 1 /\ t.op = "ELSE" /\ at = FoundBase(sigset)
  <2>1. Outer # 0
    <3>1. Outer = 0 => at = Len(script) + 1
      BY <1>1, <1>2, CompareOps, Types
    <3> QED BY <1>2, <3>1
  <2>2. Outer = 1
    BY <1>2, <2>1
  <2> QED BY <1>1, <1>2, <2>2, CompareOps, Types
<1>4. Quiet /\ One(cond', 0)
  <2> DEFINE x == 1
  <2>1. x \in {0, 1} /\ One(cond, x) /\ 1 - x = 0
    BY <1>1, <1>3 DEF Straight, One
  <2> HIDE DEF x
  <2>2. Quiet /\ One(cond', 1 - x)
    BY <1>3, <2>1, SkipIs
  <2> QED BY <2>1, <2>2
<1>5. Decided'
  BY <1>1, <1>4, DecidedStays DEF Quiet
<1> DEFINE n == Len(sigset.foundation)  b == FoundBase(sigset)
<1>6. at' = b + 1 /\ b \in Nat /\ n \in Nat
  BY <1>2, <1>3, VpIs, Types
<1>7. CASE n >= 1
  <2>1. 1 \in 1..n /\ 1 \in 1..7 /\ at' = b + Place(1, 1) /\ Dead(1, 1, cond')
    BY <1>4, <1>6, <1>7 DEF Place, Dead
  <2>2. Skipping(b, n)'
    BY <1>2, <2>1 DEF Skipping, Same
  <2> QED BY <1>1, <1>2, <1>3, <1>4, <1>5, <2>2 DEF SkipsFoundation, Same, Quiet
<1>8. CASE n = 0
  <2>1. FoundEnd(sigset) = b + 2
    BY <1>8, VpIs, Types
  <2>2. at' \in b + 7 * n + 1 .. FoundEnd(sigset)
    BY <1>6, <1>8, <2>1
  <2> QED BY <1>1, <1>2, <1>3, <1>4, <1>5, <2>2 DEF SkipsFoundation, Same, Quiet
<1> QED BY <1>6, <1>7, <1>8

LEMMA SkipsFoundationStep ==
    ASSUME Typed, Move, SkipsFoundation
    PROVE  Typed' /\ (SkipsFoundation' \/ End')
<1> DEFINE n == Len(sigset.foundation)  b == FoundBase(sigset)
<1>1. ~Foundation /\ Outer = 1 /\ Decided
  BY DEF SkipsFoundation
<1>2. /\ n \in Nat /\ b \in Nat /\ sigset.foundation # NoFoundation
      /\ sigset.foundation = <<>> => FoundEnd(sigset) = b + 2 /\ n = 0
      /\ sigset.foundation # <<>> => FoundEnd(sigset) = b + 7 * n + 3 /\ n >= 1
  BY <1>1, VpIs, Types
<1>3. at' = at + 1 /\ Same /\ Constant' /\ Constant /\ IsSigset(sigset) /\ script = Script(sigset)
  BY MoveIs, Types DEF Constant
<1>4. /\ \A k \in 1..Len(FoundationOpens(sigset)) : script[b + k] = FoundationOpens(sigset)[k]
      /\ script[FoundEnd(sigset)] = Op("ENDIF") /\ Len(script) = FoundEnd(sigset)
  BY <1>2, <1>3, ScriptIs
<1>q. ASSUME Quiet
      PROVE  Decided'
  BY <1>1, <1>q, DecidedStays DEF Quiet
<1>5. CASE Skipping(b, n)
  <2> DEFINE keys == FoundationKeys(sigset)  powers == sigset.foundation
  <2>0. sigset.foundation # <<>>
    <3>1. n >= 1
      BY <1>2, <1>5 DEF Skipping
    <3> QED BY <1>2, <3>1
  <2>1. \A j \in 1..n, d \in 1..7 : FoundationOpens(sigset)[Place(j, d)] = Instr(keys[j], powers[j], j, d)
    BY <1>3, <2>0, FoundationOpensIs
  <2>l. Len(FoundationOpens(sigset)) = 7 * n + 2
    BY <1>3, <2>0, FoundationOpensIs
  <2>2. \A j \in 1..n : keys[j] \in Int /\ powers[j] \in Int
    <3>1. DOMAIN powers = 1..n /\ \A j \in 1..n : powers[j] \in Nat
      BY <1>3, LenProperties, ElementOfSeq DEF IsSigset
    <3> TAKE j \in 1..n
    <3>2. keys[j] = -(MaxSigs + j + 2)
      BY <3>1 DEF FoundationKeys
    <3> QED BY <3>1, <3>2, SigsAssumption
  <2> HIDE DEF keys, powers
  <2>3. Questions(b, n, keys, powers)
    <3> SUFFICES ASSUME NEW j \in 1..n, NEW d \in 1..7
                 PROVE  /\ keys[j] \in Int /\ powers[j] \in Int
                        /\ script[b + Place(j, d)] = Instr(keys[j], powers[j], j, d)
      BY DEF Questions
    <3>1. Place(j, d) \in 1..Len(FoundationOpens(sigset))
      <4> DEFINE m == 7 * n  k == 7 * (j - 1)  i == Place(j, d)
      <4>1. m \in Nat /\ k \in Nat /\ k + 7 <= m /\ i = k + d /\ Len(FoundationOpens(sigset)) = m + 2
        BY <1>2, <2>l DEF Place
      <4> HIDE DEF m, k, i
      <4>2. i \in 1..(m + 2)
        BY <4>1
      <4> QED BY <4>1, <4>2 DEF i
    <3> QED BY <1>4, <2>1, <2>2, <3>1
  <2>4. /\ Quiet
        /\ \/ \E j \in 1..n, d \in 1..7 : at' = b + Place(j, d) /\ Dead(j, d, cond')
           \/ at' = b + 7 * n + 1 /\ One(cond', 0)
    BY <1>1, <1>2, <1>5, <2>3, SkippingStep
  <2>5. CASE \E j \in 1..n, d \in 1..7 : at' = b + Place(j, d) /\ Dead(j, d, cond')
    <3>1. Skipping(b, n)'
      BY <1>3, <2>5 DEF Skipping, Same
    <3> QED BY <1>1, <1>3, <1>q, <2>4, <3>1 DEF SkipsFoundation, Same, Quiet
  <2>6. CASE at' = b + 7 * n + 1 /\ One(cond', 0)
    <3>1. at' \in b + 7 * n + 1 .. FoundEnd(sigset)
      BY <1>2, <2>0, <2>6
    <3> QED BY <1>1, <1>3, <1>q, <2>4, <2>6, <3>1 DEF SkipsFoundation, Same, Quiet
  <2> QED BY <2>4, <2>5, <2>6
<1>6. CASE at \in b + 7 * n + 1 .. FoundEnd(sigset) - 1 /\ One(cond, 0)
  <2>1. t.op \notin Flow
    <3>1. CASE sigset.foundation = <<>>
      <4>1. at = b + 1 /\ 1 \in 1..Len(FoundationOpens(sigset)) /\ FoundationOpens(sigset)[1] = Op("RETURN")
        BY <1>2, <1>3, <1>6, <3>1, FoundationOpensIs
      <4>2. t = Op("RETURN")
        BY <1>4, <4>1 DEF t
      <4> QED BY <4>2 DEF Op, Flow
    <3>2. CASE sigset.foundation # <<>>
      <4> DEFINE m == 7 * n
      <4>1. /\ Len(FoundationOpens(sigset)) = m + 2
            /\ FoundationOpens(sigset)[m + 1] = Push(FoundationThreshold(sigset))
            /\ FoundationOpens(sigset)[m + 2] = Op("GREATERTHANOREQUAL")
        BY <1>3, <3>2, FoundationOpensIs
      <4>2. m \in Nat /\ (at = b + (m + 1) \/ at = b + (m + 2))
        <5>1. m \in Nat /\ b \in Nat /\ FoundEnd(sigset) = b + (m + 3)
          BY <1>2, <3>2
        <5> HIDE DEF m
        <5>2. at \in b + m + 1 .. FoundEnd(sigset) - 1
          BY <1>6 DEF m
        <5> QED BY <5>1, <5>2
      <4> HIDE DEF m
      <4>3. m + 1 \in 1..Len(FoundationOpens(sigset)) /\ m + 2 \in 1..Len(FoundationOpens(sigset))
        BY <4>1, <4>2
      <4>4. t = FoundationOpens(sigset)[m + 1] \/ t = FoundationOpens(sigset)[m + 2]
        BY <1>4, <4>2, <4>3 DEF t
      <4> QED BY <4>1, <4>4 DEF Push, Op, Flow
    <3> QED BY <3>1, <3>2
  <2>2. Quiet /\ cond' = cond
    BY <1>1, <1>6, <2>1, SkipIs
  <2>3. at' \in b + 7 * n + 1 .. FoundEnd(sigset)
    <3>1. FoundEnd(sigset) \in Nat
      BY <1>3, VpIs
    <3>2. b + 7 * n + 1 \in Nat
      BY <1>2
    <3> HIDE DEF b, n
    <3> QED BY <1>3, <1>6, <3>1, <3>2
  <2> QED BY <1>1, <1>3, <1>6, <1>q, <2>2, <2>3 DEF SkipsFoundation, Same, Quiet
<1>7. CASE at = FoundEnd(sigset) /\ One(cond, 0)
  <2>1. t.op = "ENDIF"
    BY <1>4, <1>7 DEF t, Op
  <2>2. Quiet /\ Len(cond') = 0
    <3> DEFINE x == 0
    <3>1. x \in {0, 1} /\ One(cond, x)
      BY <1>7
    <3> HIDE DEF x
    <3> QED BY <1>1, <2>1, <3>1, SkipIs
  <2>3. at' = Len(script) + 1
    BY <1>3, <1>4, <1>7
  <2> QED BY <1>1, <1>3, <1>q, <2>2, <2>3 DEF End, Same, Quiet
<1>8. Skipping(b, n) \/ (at \in b + 7 * n + 1 .. FoundEnd(sigset) /\ One(cond, 0))
  BY DEF SkipsFoundation
<1>9. at \in b + 7 * n + 1 .. FoundEnd(sigset) => at \in b + 7 * n + 1 .. FoundEnd(sigset) - 1 \/ at = FoundEnd(sigset)
  <2>1. FoundEnd(sigset) \in Nat
    BY <1>3, VpIs
  <2>2. b + 7 * n + 1 \in Nat
    BY <1>2
  <2> DEFINE m == b + 7 * n + 1
  <2>3. m \in Nat
    BY <2>2
  <2>4. at \in m .. FoundEnd(sigset) => at \in m .. FoundEnd(sigset) - 1 \/ at = FoundEnd(sigset)
    <3> HIDE DEF m
    <3> QED BY <2>1, <2>3
  <2> QED BY <2>4
<1> QED BY <1>5, <1>6, <1>7, <1>8, <1>9

LEMMA ReturnsStep ==
    ASSUME Typed, Move, Returns
    PROVE  FALSE
<1>1. Foundation /\ N = 0 /\ at = Base + 1 /\ Straight(cond, Outer)
  BY DEF Returns
<1>2. /\ Constant /\ IsSigset(sigset) /\ script = Script(sigset) /\ Base = FoundBase(sigset)
      /\ sigset.foundation = <<>> /\ sigset.foundation # NoFoundation
  BY <1>1, Types, VpIs DEF Constant
<1>3. FoundationOpens(sigset)[1] = Op("RETURN") /\ 1 \in 1..Len(FoundationOpens(sigset))
  BY <1>2, FoundationOpensIs
<1>4. t = Op("RETURN")
  BY <1>1, <1>2, <1>3, ScriptIs DEF t
<1>5. t.op = "RETURN" /\ Runs
  BY <1>1, <1>4, RunsIs, Types DEF Op
<1> QED BY <1>5 DEF Move, Skip, Execute, If, Else, EndIf, Flow, Stuck

LEMMA EndStep ==
    ASSUME Typed, Move, End
    PROVE  FALSE
<1>1. at = Len(script) + 1 /\ at <= Len(script) /\ Len(script) \in Nat
  BY MoveIs, Types, ScriptIs, LenProperties DEF End, Constant
<1> QED BY <1>1

Phase ==
    \/ Branch1 \/ Branch2 \/ Branch3 \/ SkipsSignatories \/ Returns
    \/ First0 \/ First1 \/ First2 \/ First3 \/ First4 \/ First5 \/ First6 \/ Counted
    \/ Later1 \/ Later2 \/ Later3 \/ Later4 \/ Later5 \/ Later6
    \/ Compare1 \/ Compare2 \/ Compare3 \/ Compare4 \/ SkipsFoundation \/ End

LEMMA MoveKeepsPhase ==
    ASSUME Typed, Move, Phase
    PROVE  Typed' /\ Phase'
BY Branch1Step, Branch2Step, Branch3Step, SkipsSignatoriesStep, ReturnsStep,
   First0Step, First1Step, First2Step, First3Step, First4Step, First5Step, First6Step, CountedStep,
   Later1Step, Later2Step, Later3Step, Later4Step, Later5Step, Later6Step,
   Compare1Step, Compare2Step, Compare3Step, Compare4Step, SkipsFoundationStep, EndStep
   DEF Phase

--------------------------------------------------------------------------------
(* The power that signed, and its units *)

VotedOf(powers, keys, w, o) == [j \in DOMAIN powers |-> IF w[o + j] = keys[j] THEN powers[j] ELSE 0]
Voted(n) == SumTo(VotedOf(Powers, Keys, witness, Outer), n)

LEMMA VotedIs ==
    ASSUME Constant
    PROVE  /\ Voted(0) = 0
           /\ \A n \in 0..(N - 1) : Voted(n + 1) = Voted(n) + (IF Signed(n + 1) THEN Powers[n + 1] ELSE 0)
           /\ \A n \in 0..N : Voted(n) \in Nat /\ Voted(n) <= SumOf(Powers)
           /\ SumOf(Powers) \in Nat
           /\ \A j \in 1..N : Powers[j] <= SumOf(Powers)
<1> DEFINE f == VotedOf(Powers, Keys, witness, Outer)  p == Powers
<1>1. N \in Nat /\ DOMAIN p = 1..N /\ \A j \in 1..N : p[j] \in Nat
  BY ConstantIs
<1>2. \A j \in 1..N : f[j] = IF Signed(j) THEN p[j] ELSE 0
  BY <1>1 DEF VotedOf, Signed
<1>3. \A j \in 1..N : f[j] \in Nat /\ p[j] \in Nat /\ f[j] <= p[j]
  BY <1>1, <1>2
<1>s. SumOf(p) = SumTo(p, N)
  BY DEF SumOf, N
<1>v. \A n : Voted(n) = SumTo(f, n)
  BY DEF Voted
<1> HIDE DEF f, p
<1>4. SumTo(f, 0) = 0 /\ \A n \in Nat : SumTo(f, n + 1) = SumTo(f, n) + f[n + 1]
  BY SumToIs
<1>5. \A n \in 0..N : SumTo(f, n) \in Nat /\ SumTo(p, n) \in Nat
  BY <1>1, <1>3, SumToNat
<1>6. ASSUME NEW n \in 0..(N - 1)
      PROVE  SumTo(f, n + 1) = SumTo(f, n) + (IF Signed(n + 1) THEN p[n + 1] ELSE 0)
  <2>1. n \in Nat /\ n + 1 \in 1..N
    BY <1>1
  <2> QED BY <1>2, <1>4, <2>1
<1>7. ASSUME NEW n \in 0..N
      PROVE  SumTo(f, n) <= SumTo(p, N)
  <2>1. SumTo(f, n) <= SumTo(f, N)
    BY <1>1, <1>3, SumToGrows
  <2>2. SumTo(f, N) <= SumTo(p, N)
    BY <1>1, <1>3, SumToMonotone
  <2>3. N \in 0..N
    BY <1>1
  <2> QED BY <1>5, <2>1, <2>2, <2>3
<1>8. ASSUME NEW j \in 1..N
      PROVE  p[j] <= SumTo(p, N)
  <2>1. j \in 0..N /\ j - 1 \in 0..N /\ j - 1 \in Nat /\ (j - 1) + 1 = j /\ N \in 0..N
    BY <1>1
  <2>2. SumTo(p, (j - 1) + 1) = SumTo(p, j - 1) + p[(j - 1) + 1]
    BY <2>1, SumToIs
  <2>3. SumTo(p, j) = SumTo(p, j - 1) + p[j]
    BY <2>1, <2>2
  <2>4. SumTo(p, j) <= SumTo(p, N)
    BY <1>1, <1>3, <2>1, SumToGrows
  <2>5. p[j] \in Nat /\ SumTo(p, j) \in Nat /\ SumTo(p, j - 1) \in Nat /\ SumTo(p, N) \in Nat
    BY <1>3, <1>5, <2>1
  <2> QED BY <2>3, <2>4, <2>5
<1>9. N \in 0..N
  BY <1>1
<1> QED BY <1>4, <1>5, <1>6, <1>7, <1>8, <1>9, <1>s, <1>v DEF p

\* One key's power is its units, and less than one unit more.
LEMMA UnitsAre ==
    ASSUME NEW p \in Nat, NEW u \in Nat \ {0}, NEW q, q = p \div u
    PROVE  q \in Nat /\ q * u <= p /\ p <= q * u + (u - 1)
<1>1. q \in Int /\ q * u <= p /\ p <= q * u + u - 1
  <2>1. p \in Int
    OBVIOUS
  <2> QED BY <2>1, Division
<1>2. q >= 0
  OBVIOUS
<1> DEFINE qu == q * u
<1>3. qu \in Int
  BY <1>1
<1>4. qu + u - 1 = qu + (u - 1)
  <2> HIDE DEF qu
  <2> QED BY <1>3
<1> QED BY <1>1, <1>2, <1>4

\* What is counted is the power that signed, short of less than one unit a key.
LEMMA VotedIsNear ==
    ASSUME Constant, NEW n \in 0..N
    PROVE  Tallied(n) * Unit <= Voted(n) /\ Voted(n) <= Tallied(n) * Unit + n * (Unit - 1)
<1> DEFINE Near(k) == Tallied(k) * Unit <= Voted(k) /\ Voted(k) <= Tallied(k) * Unit + k * (Unit - 1)
           T == {k \in Nat : k \in 0..N /\ ~Near(k)}
<1>0. N \in Nat /\ Unit \in Nat \ {0}
  BY ConstantIs
<1>1. T = {}
  <2> SUFFICES ASSUME T # {}
               PROVE  FALSE
    OBVIOUS
  <2>1. PICK k \in T : \A j \in T : k <= j
    <3>1. T \subseteq Nat
      OBVIOUS
    <3> HIDE DEF T
    <3> QED BY <3>1, LeastNumber
  <2>2. k # 0
    <3>1. Near(0)
      <4>1. Tallied(0) = 0 /\ Voted(0) = 0
        BY TalliedIs, VotedIs
      <4> QED BY <1>0, <4>1
    <3> QED BY <2>1, <3>1
  <2> DEFINE m == k - 1
  <2>3. m \in Nat /\ m \in 0..(N - 1) /\ m \in 0..N /\ m + 1 = k /\ k \in 0..N /\ k \in 1..N /\ ~(k <= m) /\ ~Near(k)
    BY <1>0, <2>1, <2>2
  <2> HIDE DEF Near
  <2>4. Near(m)
    <3>1. m \notin T
      BY <2>1, <2>3
    <3> QED BY <2>3, <3>1
  <2> HIDE DEF m, T
  <2>5. /\ Tallied(m + 1) = Tallied(m) + (IF Signed(m + 1) THEN Units(m + 1) ELSE 0)
        /\ Voted(m + 1) = Voted(m) + (IF Signed(m + 1) THEN Powers[m + 1] ELSE 0)
        /\ Tallied(m) \in Nat /\ Voted(m) \in Nat
    BY <2>3, TalliedIs, VotedIs
  <2> DEFINE tm == Tallied(m)  vm == Voted(m)  u == Unit
             q == IF Signed(k) THEN Units(k) ELSE 0  p == IF Signed(k) THEN Powers[k] ELSE 0
  <2>6. q \in Nat /\ p \in Nat /\ q * u <= p /\ p <= q * u + (u - 1)
    <3>1. Powers[k] \in Nat
      BY <2>3, ConstantIs
    <3>2. CASE Signed(k)
      BY <1>0, <3>1, <3>2, UnitsAre DEF Units
    <3>3. CASE ~Signed(k)
      BY <1>0, <3>3
    <3> QED BY <3>2, <3>3
  <2>7. Tallied(k) = tm + q /\ Voted(k) = vm + p
    BY <2>3, <2>5
  <2>8. tm \in Nat /\ vm \in Nat /\ u \in Nat \ {0} /\ tm * u <= vm /\ vm <= tm * u + m * (u - 1)
    BY <1>0, <2>4, <2>5 DEF Near
  <2>9. Near(k) <=> (tm + q) * u <= vm + p /\ vm + p <= (tm + q) * u + k * (u - 1)
    BY <2>7 DEF Near
  <2> HIDE DEF tm, vm, q, p, u
  <2>10. (tm + q) * u = tm * u + q * u /\ k * (u - 1) = m * (u - 1) + (u - 1)
    <3>1. (tm + q) * u = tm * u + q * u
      BY <2>6, <2>8
    <3>2. (m + 1) * (u - 1) = m * (u - 1) + (u - 1)
      BY <2>3, <2>8
    <3> QED BY <2>3, <3>1, <3>2
  <2> DEFINE tu == tm * u  qu == q * u  mu == m * (u - 1)
  <2>11. tu \in Int /\ qu \in Int /\ mu \in Int
    BY <2>3, <2>6, <2>8
  <2>12. /\ tu <= vm /\ vm <= tu + mu /\ qu <= p /\ p <= qu + (u - 1)
         /\ (tm + q) * u = tu + qu /\ k * (u - 1) = mu + (u - 1)
    BY <2>6, <2>8, <2>10
  <2> HIDE DEF tu, qu, mu
  <2>13. tu + qu <= vm + p /\ vm + p <= tu + qu + (mu + (u - 1))
    BY <2>6, <2>8, <2>11, <2>12
  <2> QED BY <2>3, <2>9, <2>12, <2>13
<1>2. n \in Nat /\ n \notin T
  BY <1>0, <1>1
<1>3. Near(n)
  BY <1>2
<1> QED BY <1>3

\* The power of the keys found to have signed, once n of them have been asked.
LEMMA PowerIsVoted ==
    ASSUME Constant, NEW m \in 0..N, SignersAre(m), NEW n \in 0..m
    PROVE  PowerOf(signers, n) = Voted(n)
<1>1. N \in Nat /\ DOMAIN Powers = 1..N
  BY ConstantIs
<1>2. ASSUME NEW j \in 1..n
      PROVE  Keys[j] \in signers <=> Signed(j)
  <2>1. j \in 1..N /\ j \in 1..m
    BY <1>1
  <2>2. signers = {Keys[k] : k \in {i \in 1..m : witness[Outer + i] = Keys[i]}}
    BY DEF SignersAre, SignersOf
  <2>3. \A k \in 1..m : Keys[k] = Keys[j] => k = j
    <3>1. \A k \in 1..m : k \in 1..N
      BY <1>1
    <3> QED BY <2>1, <3>1, KeysAre
  <2> QED BY <2>1, <2>2, <2>3 DEF Signed
<1> DEFINE f == [j \in DOMAIN Powers |-> IF Keys[j] \in signers THEN Powers[j] ELSE 0]
           g == VotedOf(Powers, Keys, witness, Outer)
<1>3. ASSUME NEW j \in 1..n
      PROVE  f[j] = g[j]
  <2>1. j \in DOMAIN Powers
    BY <1>1
  <2> QED BY <1>2, <2>1 DEF VotedOf, Signed
<1>4. n \in Nat
  BY <1>1
<1>5. PowerOf(signers, n) = SumTo(f, n) /\ Voted(n) = SumTo(g, n)
  BY DEF PowerOf, Voted
<1> HIDE DEF f, g
<1>6. SumTo(f, n) = SumTo(g, n)
  BY <1>3, <1>4, SumToAgree
<1> QED BY <1>5, <1>6

\* Every number that the script makes is one that the network can compare: of
\* the signatories' always, of the foundation's if all their power is.
Fits == Foundation => SumOf(Powers) < NumLimit

LEMMA NumbersFit ==
    ASSUME Constant, Fits
    PROVE  /\ \A n \in 0..N : Tallied(n) \in 0..(NumLimit - 1)
           /\ \A j \in 1..N : Units(j) \in 0..(NumLimit - 1)
           /\ Number \in 0..(NumLimit - 1)
<1> DEFINE lim == IF Foundation THEN NumLimit ELSE Pow2[Precision]  sum == SumOf(Powers)
<1>1. NumLimit \in Nat /\ lim \in Nat /\ lim <= NumLimit
  BY NumbersAssumption, Pow2Type
<1>2. N \in Nat /\ Unit \in Nat \ {0} /\ sum \in Nat
  BY ConstantIs, VotedIs
<1>3. sum < Unit * lim
  <2>1. CASE Foundation
    <3>1. Unit = 1 /\ lim = NumLimit
      BY <2>1 DEF Unit
    <3> QED BY <1>1, <2>1, <3>1 DEF Fits
  <2>2. CASE ~Foundation
    <3>1. Unit = Pow2[GetTruncation(sigset.vp)] /\ sum = PresentVp(sigset.vp) /\ sigset.vp \in Seq(Nat)
      BY <2>2 DEF Unit, Powers, PresentVp, Constant, IsSigset
    <3>2. PresentVp(sigset.vp) < Pow2[GetTruncation(sigset.vp)] * Pow2[Precision]
      BY <3>1, TruncationKeepsPrecision
    <3> QED BY <2>2, <3>1, <3>2
  <2> QED BY <2>1, <2>2
<1>u. NumLimit = 0 => lim = 0
  BY <1>1
<1> HIDE DEF lim, sum
<1>4. ASSUME NEW a \in Nat, a <= sum
      PROVE  a \div Unit \in 0..(NumLimit - 1)
  <2>1. a < Unit * lim
    <3> DEFINE top == Unit * lim
    <3>1. top \in Nat
      BY <1>1, <1>2
    <3> HIDE DEF top
    <3>2. sum < top
      BY <1>3 DEF top
    <3>3. a < top
      BY <1>2, <1>4, <3>1, <3>2
    <3> QED BY <3>3 DEF top
  <2>2. a \div Unit \in Nat /\ a \div Unit < lim
    BY <1>1, <1>2, <2>1, QuotientBelow
  <2> QED BY <1>1, <2>2
<1>5. ASSUME NEW n \in 0..N
      PROVE  Tallied(n) \in 0..(NumLimit - 1)
  <2> DEFINE tn == Tallied(n)  tu == tn * Unit  ul == Unit * lim
  <2>1. tn \in Nat /\ tu <= Voted(n) /\ Voted(n) <= sum /\ Voted(n) \in Nat
    BY TalliedIs, VotedIsNear, VotedIs DEF sum
  <2>2. tn < lim
    <3> SUFFICES ASSUME lim <= tn
                 PROVE  FALSE
      BY <1>1, <2>1
    <3>1. lim * Unit <= tn * Unit
      BY <1>1, <1>2, <2>1, Monotone
    <3>2. lim * Unit = ul
      BY <1>1, <1>2
    <3>3. tu \in Int /\ ul \in Int
      BY <1>1, <1>2, <2>1
    <3> HIDE DEF tn
    <3>4. ul <= tu /\ sum < ul
      BY <1>3, <3>1, <3>2
    <3> HIDE DEF tu, ul
    <3> QED BY <1>2, <2>1, <3>3, <3>4
  <2> QED BY <1>1, <2>1, <2>2
<1>6. ASSUME NEW j \in 1..N
      PROVE  Units(j) \in 0..(NumLimit - 1)
  <2>1. Powers[j] \in Nat /\ Powers[j] <= sum
    BY ConstantIs, VotedIs DEF sum
  <2> QED BY <1>4, <2>1 DEF Units
<1>7. Number \in 0..(NumLimit - 1)
  <2>1. CASE Foundation
    <3>1. Number = FoundationThreshold(sigset) /\ sum = SumOf(sigset.foundation)
      <4>1. FoundationThreshold(sigset) \in Int
        BY SigsetIs DEF Constant
      <4> QED BY <2>1, <4>1 DEF Number, Threshold, sum, Powers
    <3>2. FoundationThreshold(sigset) \in 0..SumOf(sigset.foundation)
      BY SigsetIs DEF Constant
    <3>3. sum < NumLimit
      BY <2>1 DEF Fits, sum
    <3> QED BY <1>1, <1>2, <3>1, <3>2, <3>3
  <2>2. CASE ~Foundation
    <3>1. Number = Share(sigset) \div Unit /\ sum = PresentVp(sigset.vp)
      BY <2>2 DEF Number, Threshold, sum, Powers, PresentVp
    <3>2. Share(sigset) \in 0..PresentVp(sigset.vp)
      BY SigsetIs DEF Constant
    <3>3. Share(sigset) \in Nat /\ Share(sigset) <= sum
      BY <1>2, <3>1, <3>2
    <3> QED BY <1>4, <3>1, <3>3
  <2> QED BY <2>1, <2>2
<1> QED BY <1>5, <1>6, <1>7
--------------------------------------------------------------------------------
(* What holds in every phase *)

Facts ==
    /\ at <= Len(script) + 1 /\ Len(cond) <= 2
    /\ at > Len(script) => Decided
    /\ asked \in 0..N /\ acc = Tallied(asked)
    /\ \E m \in asked..N : SignersAre(m)

LEMMA CondIs ==
    ASSUME Constant, Straight(cond, Outer) \/ \E x \in {0, 1} : Within(cond, Outer, x)
    PROVE  Len(cond) <= 2
<1>1. Outer \in 0..1
  BY ConstantIs
<1>2. CASE Straight(cond, Outer)
  BY <1>1, <1>2 DEF Straight
<1>3. CASE \E x \in {0, 1} : Within(cond, Outer, x)
  BY <1>1, <1>3 DEF Within
<1> QED BY <1>2, <1>3

LEMMA FirstFacts ==
    ASSUME Typed, First0 \/ First1 \/ First2 \/ First3 \/ First4 \/ First5 \/ First6
    PROVE  Facts
<1>1. Constant /\ N \in Nat
  BY Types, ConstantIs
<1>2. asked = 0 /\ 0 \in 0..(N - 1) /\ acc = Tallied(0)
  BY DEF First0, First1, First2, First3, First4, First5, First6, AskFirst, Asking
<1>3. at <= Len(script)
  BY <1>1, FirstOps DEF First0, First1, First2, First3, First4, First5, First6
<1>4. Straight(cond, Outer) \/ Within(cond, Outer, Truth(Signed(1))) \/ Within(cond, Outer, 1 - Truth(Signed(1)))
  BY DEF First0, First1, First2, First3, First4, First5, First6
<1>5. Truth(Signed(1)) \in {0, 1} /\ 1 - Truth(Signed(1)) \in {0, 1}
  BY DEF Truth
<1>6. Len(cond) <= 2
  BY <1>1, <1>4, <1>5, CondIs
<1>7. SignersAre(0) \/ SignersAre(1)
  BY DEF First0, First1, First2, First3, First4, First5, First6
<1>8. 0 \in 0..N /\ 1 \in 0..N
  BY <1>1, <1>2
<1>9. \E m \in asked..N : SignersAre(m)
  BY <1>2, <1>7, <1>8
<1>10. Len(script) \in Nat /\ at \in Nat
  BY <1>1, ScriptIs, LenProperties DEF Constant, Typed
<1> QED BY <1>2, <1>3, <1>6, <1>8, <1>9, <1>10 DEF Facts

LEMMA LaterFacts ==
    ASSUME Typed, Later1 \/ Later2 \/ Later3 \/ Later4 \/ Later5 \/ Later6
    PROVE  Facts
<1>1. Constant /\ N \in Nat
  BY Types, ConstantIs
<1>2. asked # 0 /\ asked \in 0..(N - 1) /\ acc = Tallied(asked)
  BY DEF Later1, Later2, Later3, Later4, Later5, Later6, AskLater, Asking
<1>3. at <= Len(script)
  BY <1>1, LaterOps DEF Later1, Later2, Later3, Later4, Later5, Later6
<1>4. Straight(cond, Outer) \/ Within(cond, Outer, Truth(LaterSigned))
  BY DEF Later1, Later2, Later3, Later4, Later5, Later6
<1>5. Truth(LaterSigned) \in {0, 1}
  BY DEF Truth
<1>6. Len(cond) <= 2
  BY <1>1, <1>4, <1>5, CondIs
<1>7. SignersAre(asked) \/ SignersAre(asked + 1)
  BY DEF Later1, Later2, Later3, Later4, Later5, Later6
<1>8. asked \in 0..N /\ asked \in asked..N /\ asked + 1 \in asked..N
  BY <1>1, <1>2
<1>9. \E m \in asked..N : SignersAre(m)
  BY <1>7, <1>8
<1>10. Len(script) \in Nat /\ at \in Nat
  BY <1>1, ScriptIs, LenProperties DEF Constant, Typed
<1> QED BY <1>2, <1>3, <1>6, <1>8, <1>9, <1>10 DEF Facts

\* Behind the question to a key, either the next one's or the comparison.
LEMMA CountedAt ==
    ASSUME Typed, Counted
    PROVE  /\ Constant /\ N \in Nat /\ N >= 1 /\ at <= Len(script) /\ t \in Instruction
           /\ asked < N => t.op = "SWAP"
           /\ asked = N => t.op = "PUSH" /\ t.n = Number
<1>1. Constant /\ N \in Nat /\ asked \in 1..N /\ at = Base + 7 * asked + 1 /\ Base \in Nat
  BY Types, ConstantIs DEF Counted
<1>2. CASE asked < N
  <2>1. AskLater(0)
    <3>1. asked \in 0..(N - 1) /\ asked # 0 /\ at = Base + 7 * asked + 0 + 1
      BY <1>1, <1>2
    <3> QED BY <3>1 DEF AskLater, Asking, Counted
  <2> QED BY <1>1, <1>2, <2>1, LaterOps
<1>3. CASE asked = N
  <2>1. at = Base + 7 * N + 1 /\ N >= 1
    BY <1>1, <1>3
  <2> QED BY <1>1, <1>3, <2>1, CompareOps
<1> QED BY <1>1, <1>2, <1>3

LEMMA CompareFacts ==
    ASSUME Typed, Counted \/ Compare1 \/ Compare2 \/ Compare3 \/ Compare4
    PROVE  Facts
<1>1. Constant /\ N \in Nat /\ Base \in Nat /\ Outer \in 0..1 /\ Len(script) \in Nat /\ at \in Nat
  BY Types, ConstantIs, ScriptIs, LenProperties DEF Constant, Typed
<1>2. asked \in 0..N /\ N >= 1 /\ acc = Tallied(asked) /\ SignersAre(asked) /\ asked \in asked..N
  BY <1>1 DEF Counted, Compare1, Compare2, Compare3, Compare4, Decided, AskedAll
<1>3. Len(cond) <= 2
  BY <1>1, CondIs DEF Counted, Compare1, Compare2, Compare3, Compare4
<1>4. Counted => at <= Len(script)
  BY CountedAt
<1>5. Compare1 => at <= Len(script)
  BY <1>1, <1>2, CompareOps DEF Compare1
<1>6. Compare2 => at <= Len(script)
  BY <1>1, <1>2, CompareOps DEF Compare2
<1>7. Compare3 => at <= Len(script)
  BY <1>1, <1>2, CompareOps DEF Compare3
<1>8. Compare4 => at <= Len(script) + 1 /\ Decided
  <2> SUFFICES ASSUME Compare4
               PROVE  at <= Len(script) + 1
    BY DEF Compare4
  <2>1. (Outer = 0 => at = Len(script) + 1) /\ (Outer = 1 => at < Len(script))
    BY <1>1, <1>2, CompareOps DEF Compare4
  <2> QED BY <1>1, <2>1
<1>9. at <= Len(script) \/ (at <= Len(script) + 1 /\ Decided)
  BY <1>4, <1>5, <1>6, <1>7, <1>8
<1> QED BY <1>1, <1>2, <1>3, <1>9 DEF Facts

LEMMA DecidedFacts ==
    ASSUME Constant, Decided
    PROVE  asked \in 0..N /\ acc = Tallied(asked) /\ \E m \in asked..N : SignersAre(m)
<1>1. N \in Nat /\ asked = N /\ acc = Tallied(N) /\ SignersAre(N)
  BY ConstantIs DEF Decided, AskedAll
<1>2. N \in N..N /\ N \in 0..N
  BY <1>1
<1> QED BY <1>1, <1>2

LEMMA FreshFacts ==
    ASSUME Constant, Fresh
    PROVE  asked \in 0..N /\ acc = Tallied(asked) /\ \E m \in asked..N : SignersAre(m)
<1>1. N \in Nat /\ asked = 0 /\ acc = Tallied(0) /\ SignersAre(0)
  BY ConstantIs DEF Fresh
<1>2. 0 \in 0..N
  BY <1>1
<1> QED BY <1>1, <1>2

LEMMA DeadIs ==
    ASSUME NEW j, NEW d \in 1..7, NEW c, Dead(j, d, c)
    PROVE  /\ Len(c) <= 2
           /\ One(c, 0) \/ \E x \in {0, 1} : Two(c, x, 0)
<1>1. One(c, 0) \/ Two(c, 0, 0) \/ Two(c, 1, 0)
  BY DEF Dead
<1>2. Len(c) <= 2
  <2> DEFINE n == Len(c)
  <2>1. n = 1 \/ n = 2
    BY <1>1 DEF One, Two
  <2> HIDE DEF n
  <2>2. n <= 2
    BY <2>1
  <2> QED BY <2>2 DEF n
<1>3. 0 \in {0, 1} /\ 1 \in {0, 1}
  OBVIOUS
<1>4. One(c, 0) \/ \E x \in {0, 1} : Two(c, x, 0)
  BY <1>1, <1>3
<1> QED BY <1>2, <1>4

\* Inside a branch that is not taken, at or before the end of its questions.
LEMMA SkippingIs ==
    ASSUME NEW b \in Nat, NEW n \in Nat, Skipping(b, n)
    PROVE  /\ at <= b + 7 * n /\ Len(cond) <= 2
           /\ One(cond, 0) \/ \E x \in {0, 1} : Two(cond, x, 0)
<1>1. PICK j \in 1..n, d \in 1..7 : at = b + Place(j, d) /\ Dead(j, d, cond)
  BY DEF Skipping
<1>2. Place(j, d) <= 7 * n /\ Place(j, d) \in Nat
  BY DEF Place
<1> DEFINE m == 7 * n  k == Place(j, d)
<1>3. m \in Nat /\ k \in Nat /\ k <= m /\ at = b + k
  BY <1>1, <1>2
<1> HIDE DEF m, k
<1>4. at <= b + m
  BY <1>3
<1> QED BY <1>1, <1>4, DeadIs DEF m

LEMMA BranchFacts ==
    ASSUME Typed, Branch1 \/ Branch2 \/ Branch3 \/ SkipsSignatories \/ Returns
    PROVE  Facts /\ at <= Len(script)
<1>1. /\ Constant /\ IsSigset(sigset) /\ script = Script(sigset) /\ Len(script) \in Nat /\ at \in Nat
      /\ FoundEnd(sigset) \in Nat
  BY Types, ScriptIs, LenProperties, VpIs DEF Constant, Typed
<1>2. Outer = 1 /\ Fresh /\ sigset.foundation # NoFoundation
  <2>1. Outer = 1 /\ Fresh
    BY <1>1, VpIs DEF Branch1, Branch2, Branch3, AtBranch, SkipsSignatories, Returns
  <2> QED BY <1>1, <2>1, VpIs
<1>3. Len(script) = FoundEnd(sigset)
  BY <1>1, <1>2, ScriptIs
<1> DEFINE m == 7 * Len(sigset.vp)  fb == FoundBase(sigset)
<1>4. m \in Nat /\ fb = 3 + m + 5 /\ fb + 2 <= FoundEnd(sigset)
  <2>1. Len(sigset.vp) \in Nat /\ fb = 3 + m + 5 /\ Len(sigset.foundation) \in Nat
    BY <1>1, <1>2, VpIs
  <2>2. FoundEnd(sigset) = fb + (IF sigset.foundation = <<>> THEN 2 ELSE 7 * Len(sigset.foundation) + 3)
    BY DEF FoundEnd
  <2>3. m \in Nat
    BY <2>1
  <2>4. fb \in Nat
    <3> HIDE DEF m, fb
    <3> QED BY <2>1, <2>3
  <2> DEFINE k == 7 * Len(sigset.foundation) + 3
  <2>5. k \in Nat /\ k >= 2 /\ FoundEnd(sigset) = fb + (IF sigset.foundation = <<>> THEN 2 ELSE k)
    BY <2>1, <2>2
  <2> HIDE DEF fb, m, k
  <2> QED BY <2>1, <2>3, <2>4, <2>5
<1> HIDE DEF m, fb
<1>5. CASE Branch1 \/ Branch2 \/ Branch3
  <2>1. at <= 3 /\ Len(cond) = 0
    BY <1>5 DEF Branch1, Branch2, Branch3, AtBranch, Straight
  <2>2. at <= Len(script)
    BY <1>1, <1>3, <1>4, <2>1
  <2> QED BY <1>1, <1>2, <2>1, <2>2, FreshFacts DEF Facts
<1>6. CASE SkipsSignatories
  <2>1. CASE Skipping(3, Len(sigset.vp))
    <3> DEFINE b == 3
    <3>1. b \in Nat /\ Len(sigset.vp) \in Nat /\ Skipping(b, Len(sigset.vp))
      BY <1>1, <2>1, VpIs
    <3>2. at <= 3 + 7 * Len(sigset.vp) /\ Len(cond) <= 2
      <4> HIDE DEF b
      <4>1. at <= b + 7 * Len(sigset.vp) /\ Len(cond) <= 2
        BY <3>1, SkippingIs
      <4> QED BY <4>1 DEF b
    <3>3. at <= Len(script)
      <4>1. at <= 3 + m
        BY <3>2 DEF m
      <4> QED BY <1>1, <1>3, <1>4, <4>1
    <3> QED BY <1>1, <1>2, <3>2, <3>3, FreshFacts DEF Facts
  <2>2. CASE at \in 3 + 7 * Len(sigset.vp) + 1 .. 3 + 7 * Len(sigset.vp) + 5 /\ One(cond, 0)
    <3>1. at <= 3 + m + 5 /\ Len(cond) = 1
      BY <2>2 DEF m, One
    <3>2. at <= Len(script)
      BY <1>1, <1>3, <1>4, <3>1
    <3> QED BY <1>1, <1>2, <3>1, <3>2, FreshFacts DEF Facts
  <2> QED BY <1>6, <2>1, <2>2 DEF SkipsSignatories
<1>7. CASE Returns
  <2>1. at = fb + 1 /\ Len(cond) = 1
    BY <1>1, <1>2, <1>7, VpIs DEF Returns, Straight, fb
  <2>2. at <= Len(script)
    BY <1>1, <1>3, <1>4, <2>1
  <2> QED BY <1>1, <1>2, <2>1, <2>2, FreshFacts DEF Facts
<1> QED BY <1>5, <1>6, <1>7

LEMMA EndFacts ==
    ASSUME Typed, SkipsFoundation \/ End
    PROVE  Facts
<1>1. /\ Constant /\ IsSigset(sigset) /\ script = Script(sigset) /\ Len(script) \in Nat /\ at \in Nat
  BY Types, ScriptIs, LenProperties DEF Constant, Typed
<1>2. Decided /\ Outer = 1
  BY DEF SkipsFoundation, End
<1>3. CASE SkipsFoundation
  <2> DEFINE n == Len(sigset.foundation)  b == FoundBase(sigset)  m == 7 * n
  <2>1. n \in Nat /\ b \in Nat /\ FoundEnd(sigset) = Len(script)
        /\ (n >= 1 => FoundEnd(sigset) = b + 7 * n + 3)
    BY <1>1, <1>2, VpIs, ScriptIs
  <2>2. CASE Skipping(b, n)
    <3>1. at <= b + 7 * n /\ Len(cond) <= 2 /\ n >= 1
      <4>1. n >= 1
        BY <2>1, <2>2 DEF Skipping
      <4> HIDE DEF b, n
      <4> QED BY <2>1, <2>2, <4>1, SkippingIs
    <3>2. at <= Len(script) + 1
      <4>1. m \in Nat /\ at <= b + m /\ Len(script) = b + m + 3
        BY <2>1, <3>1
      <4> HIDE DEF m, b
      <4> QED BY <1>1, <2>1, <4>1
    <3> QED BY <1>1, <1>2, <3>1, <3>2, DecidedFacts DEF Facts
  <2>3. CASE at \in b + 7 * n + 1 .. FoundEnd(sigset) /\ One(cond, 0)
    <3>1. at <= Len(script) /\ Len(cond) = 1
      BY <2>1, <2>3 DEF One
    <3>2. at <= Len(script) + 1
      BY <1>1, <3>1
    <3> QED BY <1>1, <1>2, <3>1, <3>2, DecidedFacts DEF Facts
  <2> QED BY <1>3, <2>2, <2>3 DEF SkipsFoundation
<1>4. CASE End
  <2>1. at = Len(script) + 1 /\ Len(cond) = 0
    BY <1>4 DEF End
  <2> QED BY <1>1, <1>2, <2>1, DecidedFacts DEF Facts
<1> QED BY <1>3, <1>4

LEMMA PhaseFacts ==
    ASSUME Typed, Phase
    PROVE  Facts
BY FirstFacts, LaterFacts, CompareFacts, BranchFacts, EndFacts DEF Phase
--------------------------------------------------------------------------------
(* No number is too large, and none too few: what may stop a run *)

Below(s, n) == \A j \in 1..Len(s) : s[j] < n

LEMMA OverBelow ==
    ASSUME NEW s \in Seq(Int), NEW w \in Seq(Int), NEW k \in Nat, NEW c \in Nat, NEW n \in Int,
           Over(s, w, k, c), Below(w, n), \A j \in 1..k : s[j] < n
    PROVE  Below(s, n)
<1>1. Len(s) \in Nat /\ Len(w) \in Nat
  OBVIOUS
<1> SUFFICES ASSUME NEW j \in 1..Len(s)
             PROVE  s[j] < n
  BY DEF Below
<1>2. CASE j \in 1..k
  BY <1>2
<1>3. CASE j > k
  <2>1. s[j] = w[c + j - k] /\ c + j - k \in 1..Len(w)
    BY <1>1, <1>3 DEF Over
  <2> QED BY <2>1 DEF Below
<1> QED BY <1>2, <1>3

\* The same for what lies on top of the witness's items.
LEMMA OversBelow ==
    ASSUME Typed, NEW c \in Nat, NEW n \in Int, Below(witness, n)
    PROVE  /\ Over(stack, witness, 0, c) => Below(stack, n)
           /\ Over(stack, witness, 1, c) /\ stack[1] < n => Below(stack, n)
           /\ Over(stack, witness, 2, c) /\ stack[1] < n /\ stack[2] < n => Below(stack, n)
           /\ Over(stack, witness, 3, c) /\ stack[1] < n /\ stack[2] < n /\ stack[3] < n => Below(stack, n)
<1> DEFINE Small(k) == \A j \in 1..k : stack[j] < n
<1>1. ASSUME NEW k \in Nat, Over(stack, witness, k, c), Small(k)
      PROVE  Below(stack, n)
  BY <1>1, OverBelow, Types
<1>2. /\ 0 \in Nat /\ 1 \in Nat /\ 2 \in Nat /\ 3 \in Nat
      /\ Small(0) /\ (stack[1] < n => Small(1)) /\ (stack[1] < n /\ stack[2] < n => Small(2))
      /\ (stack[1] < n /\ stack[2] < n /\ stack[3] < n => Small(3))
  OBVIOUS
<1> HIDE DEF Small
<1> QED BY <1>1, <1>2

LEMMA StackFits ==
    ASSUME Typed, Phase, ~Foundation, Below(witness, NumLimit)
    PROVE  Below(stack, NumLimit)
<1>0. NumLimit \in Int /\ NumLimit >= 2
  <2> DEFINE p == Pow2[Precision]
  <2>1. Precision < p /\ p \in Nat /\ p <= NumLimit /\ Precision \in Nat \ {0} /\ NumLimit \in Nat
    BY NumbersAssumption, Pow2Type
  <2> HIDE DEF p
  <2> QED BY <2>1
<1>1. /\ Constant /\ N \in Nat /\ NumLimit \in Int /\ NumLimit >= 2 /\ Outer \in Nat /\ Used \in Nat
      /\ Outer + 1 \in Nat /\ Used + 1 \in Nat /\ 0 \in Nat /\ 1 \in Nat
  BY <1>0, Types, ConstantIs
<1>2. /\ \A n \in 0..N : Tallied(n) < NumLimit
      /\ \A j \in 1..N : Units(j) < NumLimit
      /\ Number < NumLimit
  <2>1. Fits
    BY DEF Fits
  <2> QED BY <1>1, <2>1, NumbersFit
<1>3. \A b : Truth(b) < NumLimit
  BY <1>1 DEF Truth
<1>4. \A j \in 1..N : Keys[j] < NumLimit
  <2> TAKE j \in 1..N
  <2>1. Keys[j] < -2 /\ Keys[j] \in Int
    BY <1>1, KeysAre, ConstantIs
  <2> QED BY <1>1, <2>1
<1>5. ZeroByte < NumLimit /\ Dest < NumLimit /\ 0 < NumLimit
  BY <1>1 DEF ZeroByte, Dest
<1>6. \A j \in 1..Len(witness) : witness[j] < NumLimit
  BY DEF Below
<1>7. Facts
  BY PhaseFacts
<1>8. acc < NumLimit
  BY <1>2, <1>7 DEF Facts
<1> HIDE DEF Below
<1>9. CASE Branch1 \/ Branch2 \/ Branch3
  <2>1. Over(stack, witness, 0, 0) \/ (\E c \in {0, 1} : Over(stack, witness, 1, c) /\ stack[1] < NumLimit)
    BY <1>3, <1>5, <1>9 DEF Branch1, Branch2, Branch3
  <2> QED BY <1>1, <2>1, OversBelow
<1>10. CASE First0 \/ First1 \/ First2 \/ First3 \/ First4 \/ First5 \/ First6
  <2>1. 1 \in 1..N
    BY <1>1, <1>10 DEF First0, First1, First2, First3, First4, First5, First6, AskFirst, Asking
  <2>2. Keys[1] < NumLimit /\ Units(1) < NumLimit
    BY <1>2, <1>4, <2>1
  <2>3. \/ Over(stack, witness, 0, Outer) \/ Over(stack, witness, 0, Outer + 1)
        \/ Over(stack, witness, 1, Outer) /\ stack[1] < NumLimit
        \/ Over(stack, witness, 1, Outer + 1) /\ stack[1] < NumLimit
    BY <1>3, <1>5, <1>10, <2>2 DEF First0, First1, First2, First3, First4, First5, First6, PowerIfSigned
  <2> QED BY <1>1, <2>3, OversBelow
<1>11. CASE Later1 \/ Later2 \/ Later3 \/ Later4 \/ Later5 \/ Later6
  <2>1. asked \in 0..(N - 1) /\ acc = Tallied(asked)
    BY <1>11 DEF Later1, Later2, Later3, Later4, Later5, Later6, AskLater, Asking
  <2>2. asked + 1 \in 1..N /\ asked + 1 \in 0..N
    BY <1>1, <2>1
  <2>3. Keys[asked + 1] < NumLimit /\ Units(asked + 1) < NumLimit /\ Tallied(asked + 1) < NumLimit
    BY <1>2, <1>4, <2>2
  <2>4. acc + (IF LaterSigned THEN Units(asked + 1) ELSE 0) < NumLimit
    <3>1. Tallied(asked + 1) = Tallied(asked) + (IF Signed(asked + 1) THEN Units(asked + 1) ELSE 0)
      BY <1>1, <2>1, TalliedIs
    <3> QED BY <2>1, <2>3, <3>1 DEF LaterSigned
  <2>5. (\E k \in {1, 2, 3} : Over(stack, witness, k, Used + 1) /\ k # 1) => witness[Used + 1] < NumLimit
    <3>1. Constant /\ Len(witness) \in Nat
      BY <1>1, LenProperties DEF Constant
    <3>2. (\E k \in {1, 2, 3} : Over(stack, witness, k, Used + 1)) => Used + 1 \in 1..Len(witness)
      BY <1>1, <3>1 DEF Over
    <3> QED BY <1>6, <3>2
  <2>6. \/ Over(stack, witness, 1, Used + 1) /\ stack[1] < NumLimit
        \/ Over(stack, witness, 2, Used + 1) /\ stack[1] < NumLimit /\ stack[2] < NumLimit
        \/ Over(stack, witness, 3, Used + 1) /\ stack[1] < NumLimit /\ stack[2] < NumLimit /\ stack[3] < NumLimit
    <3>1. CASE Later1
      <4>1. Over(stack, witness, 2, Used + 1) /\ stack[1] = witness[Used + 1] /\ stack[2] = acc
        BY <3>1 DEF Later1
      <4> QED BY <1>8, <2>5, <4>1
    <3>2. CASE Later2
      <4>1. Over(stack, witness, 3, Used + 1) /\ stack[1] = Keys[asked + 1] /\ stack[2] = witness[Used + 1] /\ stack[3] = acc
        BY <3>2 DEF Later2
      <4> QED BY <1>8, <2>3, <2>5, <4>1
    <3>3. CASE Later3
      BY <1>3, <1>8, <3>3 DEF Later3
    <3>4. CASE Later4
      BY <1>8, <3>4 DEF Later4
    <3>5. CASE Later5
      BY <1>8, <2>3, <3>5 DEF Later5
    <3>6. CASE Later6
      BY <2>4, <3>6 DEF Later6
    <3> QED BY <1>11, <3>1, <3>2, <3>3, <3>4, <3>5, <3>6
  <2> QED BY <1>1, <2>6, OversBelow
<1>12. CASE Counted
  BY <1>1, <1>8, <1>12, OversBelow DEF Counted
<1>13. CASE Compare1
  BY <1>1, <1>2, <1>8, <1>13, OversBelow DEF Compare1
<1>14. CASE Compare3
  BY <1>1, <1>3, <1>5, <1>14, OversBelow DEF Compare3, Verdict
<1>15. CASE Decided
  BY <1>1, <1>3, <1>15, OversBelow DEF Decided, Verdict
<1>16. SkipsSignatories \/ Returns => FALSE
  BY DEF SkipsSignatories, Returns
<1>17. Compare2 \/ Compare4 \/ SkipsFoundation \/ End => Decided
  BY DEF Compare2, Compare4, SkipsFoundation, End
<1> QED BY <1>9, <1>10, <1>11, <1>12, <1>13, <1>14, <1>15, <1>16, <1>17 DEF Phase
--------------------------------------------------------------------------------
(* A wallet's witness never stops its run *)

\* What a wallet and a foundation must bring for it.
Proper == WellFormed /\ Powers # <<>> /\ Fits

LEMMA ProperIs ==
    ASSUME Constant, Proper
    PROVE  /\ N >= 1 /\ N \in Nat /\ Outer \in Nat /\ Len(witness) = Outer + N
           /\ Outer = 1 => witness # <<>>
           /\ \A j \in 1..N : Items[j] = witness[Outer + j] /\ Items[j] \in {0, Keys[j]}
           /\ ToSet(Items) = {Items[j] : j \in 1..N}
<1>1. /\ N \in Nat /\ DOMAIN Powers = 1..N /\ Outer \in 0..1 /\ Powers \in Seq(Nat)
      /\ witness \in Seq(Int) /\ WellFormed /\ Powers # <<>>
  BY ConstantIs DEF Constant, Proper
<1>2. N >= 1
  <2>1. N # 0
    BY <1>1, EmptySeq DEF N
  <2> QED BY <1>1, <2>1
<1>3. DOMAIN Keys = 1..N /\ Keys \in Seq(Int) /\ Len(Keys) = N
  <2>1. DOMAIN Keys = DOMAIN Powers /\ Keys = [j \in DOMAIN Powers |-> Keys[j]]
    BY DEF Keys, Powers, SigKeys, FoundationKeys
  <2>2. \A j \in 1..N : Keys[j] \in Int
    BY ConstantIs
  <2>3. Keys \in [1..N -> Int]
    BY <1>1, <2>1, <2>2
  <2> QED BY <1>1, <2>1, <2>3, LenProperties
<1>4. CASE Outer = 0
  <2>1. sigset.foundation = NoFoundation
    BY <1>4 DEF Outer
  <2>2. Items = witness
    BY <2>1 DEF Items
  <2>3. Len(Items) = N /\ DOMAIN Items = 1..N /\ \A j \in DOMAIN Items : Items[j] \in {0, Keys[j]}
    BY <1>1, <1>3, <2>2, LenProperties DEF WellFormed
  <2>4. \A j \in 1..N : 0 + j = j
    OBVIOUS
  <2>5. ToSet(Items) = {Items[j] : j \in 1..N}
    BY <2>3 DEF ToSet
  <2> QED BY <1>1, <1>2, <1>4, <2>2, <2>3, <2>4, <2>5
<1>5. CASE Outer = 1
  <2>1. sigset.foundation # NoFoundation
    BY <1>5 DEF Outer
  <2>2. Items = Tail(witness) /\ witness # <<>>
    BY <1>1, <2>1 DEF Items, WellFormed
  <2>3. /\ Tail(witness) \in Seq(Int) /\ Len(Tail(witness)) = Len(witness) - 1 /\ Len(witness) \in Nat
        /\ \A j \in 1..(Len(witness) - 1) : Tail(witness)[j] = witness[j + 1]
    <3>1. Len(witness) >= 1
      BY <1>1, <2>2, EmptySeq
    <3> QED BY <1>1, <3>1, TailIs
  <2>4. Len(Items) = N /\ DOMAIN Items = 1..N /\ \A j \in DOMAIN Items : Items[j] \in {0, Keys[j]}
    BY <1>1, <1>3, <2>2, <2>3, LenProperties DEF WellFormed
  <2>5. Len(witness) = 1 + N
    <3> DEFINE l == Len(witness)
    <3>1. l - 1 = N /\ l \in Nat /\ N \in Nat
      BY <1>1, <2>2, <2>3, <2>4
    <3> HIDE DEF l
    <3>2. l = 1 + N
      BY <3>1
    <3> QED BY <3>2 DEF l
  <2>6. \A j \in 1..N : Items[j] = witness[1 + j]
    <3> TAKE j \in 1..N
    <3>1. j \in 1..(Len(witness) - 1) /\ j + 1 = 1 + j
      BY <1>1, <2>5
    <3> QED BY <2>2, <2>3, <3>1
  <2>7. ToSet(Items) = {Items[j] : j \in 1..N}
    BY <2>4 DEF ToSet
  <2> QED BY <1>1, <1>2, <1>5, <2>2, <2>4, <2>5, <2>6, <2>7
<1> QED BY <1>1, <1>4, <1>5

LEMMA FirstRuns ==
    ASSUME Typed, Proper, Runs, t.op \notin {"ELSE", "ENDIF"},
           First0 \/ First1 \/ First2 \/ First3 \/ First4 \/ First5 \/ First6
    PROVE  ~Stuck
<1>1. Constant /\ N \in Nat /\ N >= 1 /\ Outer \in Nat /\ Outer + 1 \in Nat /\ Len(witness) = Outer + N
      /\ Len(stack) \in Nat
  BY ProperIs, Types, LenProperties
<1>2. First0 \/ First3 \/ First5 => t.op = "PUSH"
  BY <1>1, FirstOps DEF First0, First3, First5
<1>3. First1 => t.op = "CHECKSIG" /\ Len(stack) = 1 + N
  BY <1>1, FirstOps DEF First1, Over
<1>4. First2 => t.op = "IF" /\ Len(stack) = N
  BY <1>1, FirstOps DEF First2, Over
<1>5. ~First4 /\ ~First6
  BY <1>1, FirstOps DEF First4, First6
<1>6. CASE t.op = "PUSH"
  BY <1>1, <1>6 DEF Stuck, Arity, Arithmetic
<1>7. CASE t.op = "CHECKSIG" /\ Len(stack) = 1 + N
  BY <1>1, <1>7 DEF Stuck, Arity, Arithmetic
<1>8. CASE t.op = "IF" /\ Len(stack) = N
  BY <1>1, <1>8 DEF Stuck, Arity, Arithmetic
<1> QED BY <1>2, <1>3, <1>4, <1>5, <1>6, <1>7, <1>8

LEMMA LaterRuns ==
    ASSUME Typed, Proper, Runs, t.op \notin {"ELSE", "ENDIF"},
           Later1 \/ Later2 \/ Later3 \/ Later4 \/ Later5 \/ Later6
    PROVE  ~Stuck
<1>1. /\ Constant /\ N \in Nat /\ N >= 1 /\ Outer \in Nat /\ Used \in Nat /\ Len(witness) = Outer + N
      /\ Len(stack) \in Nat /\ asked \in 0..(N - 1) /\ asked + 1 \in 1..N /\ Used = Outer + asked
      /\ acc = Tallied(asked)
  <2>1. asked \in 0..(N - 1) /\ acc = Tallied(asked)
    BY DEF Later1, Later2, Later3, Later4, Later5, Later6, AskLater, Asking
  <2>2. N \in Nat
    BY ProperIs, Types
  <2>3. asked + 1 \in 1..N
    BY <2>1, <2>2
  <2> QED BY <2>1, <2>3, ProperIs, Types, LenProperties DEF Used
<1>2. Later1 \/ Later4 => t.op = "PUSH"
  BY <1>1, LaterOps DEF Later1, Later4
<1>3. Later2 => t.op = "CHECKSIG" /\ Len(stack) >= 3
  BY <1>1, LaterOps DEF Later2, Over
<1>4. Later3 => t.op = "IF" /\ Len(stack) >= 2
  <2> SUFFICES ASSUME Later3
               PROVE  t.op = "IF" /\ Len(stack) >= 2
    OBVIOUS
  <2>1. Len(stack) = 2 + Len(witness) - (Used + 1)
    BY DEF Later3, Over
  <2>2. Len(stack) >= 2
    BY <1>1, <2>1
  <2> QED BY <1>1, <2>2, LaterOps DEF Later3
<1>5. ~Later6
  BY <1>1, LaterOps DEF Later6
<1>6. CASE t.op = "PUSH"
  BY <1>1, <1>6 DEF Stuck, Arity, Arithmetic
<1>7. CASE t.op = "CHECKSIG" /\ Len(stack) >= 3
  BY <1>1, <1>7 DEF Stuck, Arity, Arithmetic
<1>8. CASE t.op = "IF" /\ Len(stack) >= 2
  BY <1>1, <1>8 DEF Stuck, Arity, Arithmetic
<1>9. CASE Later5
  <2>1. t.op = "ADD" /\ Within(cond, Outer, Truth(LaterSigned))
    BY <1>1, <1>9, LaterOps DEF Later5
  <2>2. LaterSigned
    <3> SUFFICES ASSUME ~LaterSigned
                 PROVE  FALSE
      OBVIOUS
    <3> DEFINE x == 0
    <3>1. x \in {0, 1} /\ Within(cond, Outer, x) /\ x # 1
      BY <2>1 DEF Truth
    <3> HIDE DEF x
    <3>2. Runs <=> x = 1
      BY <1>1, <3>1, RunsIs
    <3> QED BY <3>1, <3>2
  <2>3. Over(stack, witness, 2, Used + 1) /\ stack[1] = Units(asked + 1) /\ stack[2] = acc
    BY <1>9, <2>2 DEF Later5
  <2>4. Len(stack) >= 2
    BY <1>1, <2>3 DEF Over
  <2>5. stack[1] \in 0..(NumLimit - 1) /\ stack[2] \in 0..(NumLimit - 1)
    <3>1. asked \in 0..N /\ Fits
      BY <1>1 DEF Proper
    <3> QED BY <1>1, <2>3, <3>1, NumbersFit
  <2>6. \A j \in 1..2 : stack[j] \in 0..(NumLimit - 1)
    <3>1. \A j \in 1..2 : j = 1 \/ j = 2
      OBVIOUS
    <3> QED BY <2>5, <3>1
  <2>7. Arity(t.op) = 2 /\ t.op # "RETURN"
    BY <2>1 DEF Arity
  <2> QED BY <1>1, <2>4, <2>6, <2>7 DEF Stuck
<1> QED BY <1>2, <1>3, <1>4, <1>5, <1>6, <1>7, <1>8, <1>9

LEMMA CompareRuns ==
    ASSUME Typed, Proper, Runs, t.op \notin {"ELSE", "ENDIF"}, at <= Len(script),
           Counted \/ Compare1 \/ Compare2 \/ Compare3 \/ Compare4
    PROVE  ~Stuck
<1>1. /\ Constant /\ N \in Nat /\ N >= 1 /\ Outer \in Nat /\ Used \in Nat /\ Len(witness) = Outer + N
      /\ Len(stack) \in Nat /\ Used = Outer + asked /\ asked \in Nat /\ Base \in Nat /\ Outer \in 0..1
  BY ProperIs, Types, ConstantIs, LenProperties DEF Used
<1>2. CASE t.op = "PUSH"
  BY <1>1, <1>2 DEF Stuck, Arity, Arithmetic
<1>3. CASE Counted
  <2>1. (asked < N => t.op = "SWAP") /\ (asked = N => t.op = "PUSH") /\ asked \in 1..N
    BY <1>3, CountedAt DEF Counted
  <2>2. CASE asked < N
    <3>1. Len(stack) >= 2
      BY <1>1, <1>3, <2>2 DEF Counted, Over
    <3> QED BY <1>1, <2>1, <2>2, <3>1 DEF Stuck, Arity, Arithmetic
  <2> QED BY <1>1, <1>2, <2>1, <2>2
<1>4. CASE Compare1
  <2>1. t.op = IF Foundation THEN "GREATERTHANOREQUAL" ELSE "GREATERTHAN"
    BY <1>1, <1>4, CompareOps DEF Compare1
  <2>2. Len(stack) = 2 /\ stack[1] = Number /\ stack[2] = Tallied(N)
    BY <1>1, <1>4 DEF Compare1, AskedAll, Over
  <2>3. stack[1] \in 0..(NumLimit - 1) /\ stack[2] \in 0..(NumLimit - 1)
    <3>1. N \in 0..N /\ Fits
      BY <1>1 DEF Proper
    <3> QED BY <1>1, <2>2, <3>1, NumbersFit
  <2>4. \A j \in 1..2 : stack[j] \in 0..(NumLimit - 1)
    <3>1. \A j \in 1..2 : j = 1 \/ j = 2
      OBVIOUS
    <3> QED BY <2>3, <3>1
  <2>5. Arity(t.op) = 2 /\ t.op # "RETURN"
    BY <2>1 DEF Arity
  <2> QED BY <1>1, <2>2, <2>4, <2>5 DEF Stuck
<1>5. CASE Compare2
  <2>1. t.op = "ENDIF" \/ t.op = "PUSH"
    BY <1>1, <1>5, CompareOps DEF Compare2
  <2> QED BY <1>2, <2>1
<1>6. CASE Compare3
  <2>1. t.op = "DROP" /\ Len(stack) = 2
    BY <1>1, <1>6, CompareOps DEF Compare3, AskedAll, Over
  <2> QED BY <1>1, <2>1 DEF Stuck, Arity, Arithmetic
<1>7. ~Compare4
  <2> SUFFICES ASSUME Compare4
               PROVE  FALSE
    OBVIOUS
  <2>1. (Outer = 0 => at = Len(script) + 1) /\ (Outer = 1 => t.op = "ELSE")
    BY <1>1, CompareOps DEF Compare4
  <2>2. Len(script) \in Nat
    BY <1>1, ScriptIs, LenProperties DEF Constant
  <2> QED BY <1>1, <2>1, <2>2
<1> QED BY <1>3, <1>4, <1>5, <1>6, <1>7

LEMMA BranchRuns ==
    ASSUME Typed, Proper, Runs, t.op \notin {"ELSE", "ENDIF"}, Branch1 \/ Branch2 \/ Branch3
    PROVE  ~Stuck
<1>1. /\ Constant /\ N \in Nat /\ N >= 1 /\ Outer = 1 /\ Len(witness) = 1 + N /\ Len(stack) \in Nat
  <2>1. Outer = 1
    BY DEF Branch1, Branch2, Branch3, AtBranch
  <2> QED BY <2>1, ProperIs, Types, LenProperties
<1>2. /\ script[1] = Push(ZeroByte) /\ script[2] = Op("EQUAL") /\ script[3] = Op("IF")
  BY <1>1, ScriptIs, VpIs DEF Constant
<1>3. CASE Branch1
  <2>1. t.op = "PUSH"
    BY <1>2, <1>3 DEF Branch1, AtBranch, t, Push
  <2> QED BY <1>1, <2>1 DEF Stuck, Arity, Arithmetic
<1>4. CASE Branch2
  <2>1. t.op = "EQUAL" /\ Len(stack) = 2 + N
    BY <1>1, <1>2, <1>4 DEF Branch2, AtBranch, t, Op, Over
  <2> QED BY <1>1, <2>1 DEF Stuck, Arity, Arithmetic
<1>5. CASE Branch3
  <2>1. t.op = "IF" /\ Len(stack) = 1 + N
    BY <1>1, <1>2, <1>5 DEF Branch3, AtBranch, t, Op, Over
  <2> QED BY <1>1, <2>1 DEF Stuck, Arity, Arithmetic
<1> QED BY <1>3, <1>4, <1>5

\* In the branch that is not taken nothing runs.
LEMMA NothingRuns ==
    ASSUME Typed, SkipsSignatories \/ SkipsFoundation
    PROVE  ~Runs
<1>1. DOMAIN cond = 1..Len(cond)
  BY LenProperties DEF Typed
<1>2. One(cond, 0) \/ \E x \in {0, 1} : Two(cond, x, 0)
  <2>1. CASE One(cond, 0)
    BY <2>1
  <2>2. CASE \E b \in Nat, n \in Nat : Skipping(b, n)
    BY <2>2, SkippingIs
  <2>3. 3 \in Nat /\ Len(sigset.vp) \in Nat /\ FoundBase(sigset) \in Nat /\ Len(sigset.foundation) \in Nat
    BY Types, VpIs
  <2> QED BY <2>1, <2>2, <2>3 DEF SkipsSignatories, SkipsFoundation
<1> QED BY <1>1, <1>2 DEF One, Two, Runs

LEMMA NeverStuck ==
    ASSUME Typed, Phase, Proper, Runs, t.op \notin {"ELSE", "ENDIF"}, at <= Len(script)
    PROVE  ~Stuck
<1>1. ~Returns
  <2>1. N >= 1
    BY Types, ProperIs
  <2> QED BY <2>1 DEF Returns
<1>2. ~End
  <2>1. Len(script) \in Nat
    BY Types, ScriptIs, LenProperties DEF Constant
  <2> QED BY <2>1 DEF End
<1>3. ~SkipsSignatories /\ ~SkipsFoundation
  BY NothingRuns
<1> QED BY <1>1, <1>2, <1>3, FirstRuns, LaterRuns, CompareRuns, BranchRuns DEF Phase
--------------------------------------------------------------------------------
(* The inductive invariant *)

ResultOK ==
    /\ result \in {"none", "open", "closed", "invalid"}
    /\ result \in {"open", "closed"} => Decided /\ (result = "open" <=> stack[1] # 0)
    /\ result = "invalid" =>
         \/ Decided /\ Len(stack) # 1
         \/ at <= Len(script) /\ Runs /\ t.op \notin {"ELSE", "ENDIF"} /\ Stuck

IInv == Typed /\ Phase /\ ResultOK

\* The runs of all witnesses: whatever items, and however many.
AnyInit ==
    /\ IsSigset(sigset) /\ witness \in Seq(Int)
    /\ script = Script(sigset) /\ at = 1
    /\ stack = witness /\ cond = <<>>
    /\ signers = {} /\ asked = 0 /\ acc = 0
    /\ result = "none"
AnySpec == AnyInit /\ [][Next]_vars

LEMMA AnyInitIInv == AnyInit => IInv
<1> SUFFICES ASSUME AnyInit
             PROVE  IInv
  OBVIOUS
<1>1. /\ Constant /\ at = 1 /\ stack = witness /\ cond = <<>> /\ stack \in Seq(Int)
      /\ signers = {} /\ asked = 0 /\ acc = 0 /\ result = "none"
  BY DEF AnyInit, Constant
<1>2. Typed
  <2>1. cond \in Seq({0, 1})
    BY <1>1
  <2> QED BY <1>1, <2>1 DEF Typed
<1>3. Fresh
  <2>1. Tallied(0) = 0
    BY <1>1, TalliedIs
  <2>2. SignersAre(0)
    <3> DEFINE n == 0
    <3>1. n \in Nat /\ SignersOf(Keys, witness, Outer, 0) = {}
      <4> HIDE DEF n
      <4> QED BY SignersGrow DEF n
    <3> QED BY <1>1, <3>1 DEF SignersAre
  <2> QED BY <1>1, <2>1, <2>2 DEF Fresh
<1>4. Over(stack, witness, 0, 0) /\ Len(cond) = 0
  <2>1. Len(witness) \in Nat
    BY <1>1, LenProperties
  <2>2. 0 + Len(witness) - 0 = Len(witness) /\ \A j \in 1..Len(witness) : 0 + j - 0 = j
    BY <2>1
  <2> QED BY <1>1, <2>1, <2>2 DEF Over
<1>5. Phase
  <2>1. CASE Outer = 1
    <3>1. AtBranch(1)
      BY <1>1, <1>3, <1>4, <2>1 DEF AtBranch, Straight
    <3> QED BY <1>4, <3>1 DEF Phase, Branch1
  <2>2. CASE Outer = 0
    <3>1. ~Foundation /\ sigset.foundation = NoFoundation
      BY <2>2 DEF Outer, Foundation
    <3>2. N >= 1 /\ N \in Nat /\ Base = 0
      BY <1>1, <3>1, ConstantIs DEF Base, SigBase
    <3>3. AskFirst(0)
      <4>1. 0 \in 0..(N - 1) /\ at = Base + 7 * asked + 0 + 1
        BY <1>1, <3>2
      <4> QED BY <1>1, <1>3, <4>1 DEF AskFirst, Asking, Fresh
    <3>4. Straight(cond, Outer) /\ Over(stack, witness, 0, Outer) /\ SignersAre(0)
      BY <1>3, <1>4, <2>2 DEF Straight, Fresh
    <3> QED BY <3>3, <3>4 DEF Phase, First0
  <2>3. Outer \in 0..1
    BY <1>1, ConstantIs
  <2> QED BY <2>1, <2>2, <2>3
<1>6. ResultOK
  BY <1>1 DEF ResultOK
<1> QED BY <1>2, <1>5, <1>6 DEF IInv

\* Every instance's own initial states are among them.
LEMMA WitnessesAre ==
    ASSUME NEW s, IsSigset(s), NEW w \in Witnesses(s)
    PROVE  w \in Seq(Int) /\ \A j \in 1..Len(w) : w[j] <= 0
<1> DEFINE Items0(v) == v \in Seq(Int) /\ \A j \in 1..Len(v) : v[j] <= 0
<1>1. ASSUME NEW keys \in Seq(Int), \A j \in 1..Len(keys) : keys[j] <= 0, Len(keys) >= 1, NEW v \in Answers(keys)
      PROVE  Items0(v)
  <2>1. DOMAIN keys = 1..Len(keys) /\ Len(keys) \in Nat /\ 1 \in 1..Len(keys)
    BY <1>1, LenProperties
  <2>2. /\ v \in [1..Len(keys) -> {0, keys[1]} \cup ToSet(keys)]
        /\ \A j \in DOMAIN v : v[j] \in {0, keys[1], keys[j]}
    BY DEF Answers
  <2>3. \A j \in 1..Len(keys) : v[j] \in Int /\ v[j] <= 0
    <3> TAKE j \in 1..Len(keys)
    <3>1. v[j] \in {0, keys[1], keys[j]}
      BY <2>2
    <3>2. keys[1] \in Int /\ keys[j] \in Int /\ keys[1] <= 0 /\ keys[j] <= 0
      BY <1>1, <2>1, ElementOfSeq
    <3> QED BY <3>1, <3>2
  <2>4. v \in [1..Len(keys) -> Int]
    BY <2>2, <2>3
  <2>5. v \in Seq(Int) /\ Len(v) = Len(keys)
    <3>1. v \in Seq(Int)
      BY <2>1, <2>4
    <3>2. DOMAIN v = 1..Len(v) /\ DOMAIN v = 1..Len(keys) /\ Len(v) \in Nat
      BY <2>4, <3>1, LenProperties
    <3>3. ASSUME NEW a \in Nat, NEW b \in Nat, 1..a = 1..b PROVE a = b
      <4>1. \A i \in Nat \ {0} : i <= a <=> i <= b
        BY <3>3
      <4>2. a <= b \/ a = 0
        BY <4>1
      <4>3. b <= a \/ b = 0
        BY <4>1
      <4> QED BY <4>2, <4>3
    <3>4. Len(v) = Len(keys)
      BY <2>1, <3>2, <3>3
    <3> QED BY <3>1, <3>4
  <2> QED BY <2>3, <2>5
<1>2. /\ SigKeys(s) \in Seq(Int) /\ Len(SigKeys(s)) >= 1 /\ Len(SigKeys(s)) \in Nat
      /\ \A j \in 1..Len(SigKeys(s)) : SigKeys(s)[j] <= 0
  <2> DEFINE n == Len(s.vp)
  <2>1. DOMAIN s.vp = 1..n /\ n \in Nat /\ n >= 1
    BY LenProperties DEF IsSigset
  <2> HIDE DEF n
  <2>2. SigKeys(s) = [j \in 1..n |-> -(j + 2)]
    BY <2>1 DEF SigKeys
  <2>3. \A j \in 1..n : -(j + 2) \in Int /\ -(j + 2) <= 0
    BY <2>1
  <2>4. SigKeys(s) \in [1..n -> Int] /\ \A j \in 1..n : SigKeys(s)[j] <= 0
    BY <2>2, <2>3
  <2>5. SigKeys(s) \in Seq(Int) /\ Len(SigKeys(s)) = n
    BY <2>1, <2>4, LenProperties
  <2> QED BY <2>1, <2>4, <2>5
<1>3. s.foundation # <<>> =>
        /\ FoundationKeys(s) \in Seq(Int) /\ Len(FoundationKeys(s)) >= 1
        /\ \A j \in 1..Len(FoundationKeys(s)) : FoundationKeys(s)[j] <= 0
  <2> SUFFICES ASSUME s.foundation # <<>>
               PROVE  /\ FoundationKeys(s) \in Seq(Int) /\ Len(FoundationKeys(s)) >= 1
                      /\ \A j \in 1..Len(FoundationKeys(s)) : FoundationKeys(s)[j] <= 0
    OBVIOUS
  <2> DEFINE n == Len(s.foundation)
  <2>1. DOMAIN s.foundation = 1..n /\ n \in Nat /\ n >= 1
    BY LenProperties, EmptySeq DEF IsSigset
  <2> HIDE DEF n
  <2>2. FoundationKeys(s) = [j \in 1..n |-> -(MaxSigs + j + 2)]
    BY <2>1 DEF FoundationKeys
  <2>3. \A j \in 1..n : -(MaxSigs + j + 2) \in Int /\ -(MaxSigs + j + 2) <= 0
    BY <2>1, SigsAssumption
  <2>4. FoundationKeys(s) \in [1..n -> Int] /\ \A j \in 1..n : FoundationKeys(s)[j] <= 0
    BY <2>2, <2>3
  <2>5. FoundationKeys(s) \in Seq(Int) /\ Len(FoundationKeys(s)) = n
    BY <2>1, <2>4, LenProperties
  <2> QED BY <2>1, <2>4, <2>5
<1>4. Items0(<<>>)
  OBVIOUS
<1>5. ASSUME NEW v, Items0(v), NEW x \in Int, x <= 0
      PROVE  Items0(<<x>> \o v)
  <2> DEFINE c == <<x>> \o v
  <2>1. Len(v) \in Nat /\ Len(c) = 1 + Len(v) /\ c \in Seq(Int) /\ c[1] = x
        /\ \A j \in 2..(1 + Len(v)) : c[j] = v[j - 1] /\ j - 1 \in 1..Len(v)
    BY <1>5
  <2> HIDE DEF c
  <2> QED BY <1>5, <2>1
<1>6. Items0(SigKeys(s) \o <<0>>)
  <2> DEFINE keys == SigKeys(s)  c == keys \o <<0>>
  <2>1. keys \in Seq(Int) /\ Len(keys) \in Nat /\ \A j \in 1..Len(keys) : keys[j] <= 0
    BY <1>2
  <2> HIDE DEF keys
  <2>2. c \in Seq(Int) /\ Len(c) = Len(keys) + 1 /\ c[Len(keys) + 1] = 0
        /\ \A j \in 1..Len(keys) : c[j] = keys[j]
    BY <2>1
  <2> HIDE DEF c
  <2>3. Items0(c)
    <3> SUFFICES ASSUME NEW j \in 1..Len(c)
                 PROVE  c[j] <= 0
      BY <2>2
    <3>1. j \in 1..Len(keys) \/ j = Len(keys) + 1
      BY <2>1, <2>2
    <3> QED BY <2>1, <2>2, <3>1
  <2> QED BY <2>3 DEF c, keys
<1> HIDE DEF Items0
<1>7. \A v \in Answers(SigKeys(s)) : Items0(v)
  BY <1>1, <1>2
<1>8. s.foundation # <<>> => \A v \in Answers(FoundationKeys(s)) : Items0(v)
  BY <1>1, <1>3
<1>9. ZeroByte \in Int /\ ZeroByte <= 0 /\ 0 \in Int /\ 0 <= 0
  BY DEF ZeroByte
<1> DEFINE sig == Answers(SigKeys(s))
           found == IF s.foundation \in {NoFoundation, <<>>} THEN {<<>>} ELSE Answers(FoundationKeys(s))
<1>10. (\A v \in sig : Items0(v)) /\ (\A v \in found : Items0(v))
  BY <1>4, <1>7, <1>8
<1>11. \/ w = <<>> \/ w = SigKeys(s) \o <<0>> \/ w \in sig
       \/ \E v \in sig : w = <<ZeroByte>> \o v
       \/ \E v \in found : w = <<0>> \o v
  <2>1. w \in {<<>>, SigKeys(s) \o <<0>>} \cup
              (IF s.foundation = NoFoundation THEN sig
               ELSE {<<ZeroByte>> \o v : v \in sig} \cup {<<0>> \o v : v \in found})
    BY DEF Witnesses
  <2> HIDE DEF sig, found
  <2> QED BY <2>1
<1> HIDE DEF sig, found
<1>12. Items0(w)
  BY <1>4, <1>5, <1>6, <1>9, <1>10, <1>11
<1> QED BY <1>12 DEF Items0

LEMMA InitIsAnyInit == Init => AnyInit /\ Below(witness, NumLimit)
<1> SUFFICES ASSUME Init
             PROVE  AnyInit /\ Below(witness, NumLimit)
  OBVIOUS
<1>1. /\ sigset \in [vp : UNION {[1..n -> 0..MaxPower] : n \in 1..MaxSigs},
                     foundation : Foundations,
                     numerator : {r[1] : r \in Thresholds}, denominator : {r[2] : r \in Thresholds}]
      /\ <<sigset.numerator, sigset.denominator>> \in Thresholds
      /\ witness \in Witnesses(sigset)
  BY DEF Init
<1>2. sigset.vp \in Seq(Nat) /\ Len(sigset.vp) >= 1
  <2>1. PICK n \in 1..MaxSigs : sigset.vp \in [1..n -> 0..MaxPower]
    BY <1>1
  <2>2. n \in Nat /\ n >= 1 /\ sigset.vp \in [1..n -> Nat]
    BY <2>1, SigsAssumption
  <2> QED BY <2>2, LenProperties
<1>3. sigset.foundation \in Seq(Nat)
  BY <1>1, FoundationsAssumption
<1>4. sigset.numerator \in Nat /\ sigset.denominator \in Nat \ {0} /\ sigset.numerator <= sigset.denominator
  <2> DEFINE r == <<sigset.numerator, sigset.denominator>>
  <2>1. r \in Nat \X (Nat \ {0}) /\ r[1] <= r[2]
    <3>1. r \in Thresholds
      BY <1>1
    <3> HIDE DEF r
    <3> QED BY <3>1, ThresholdsAssumption
  <2> QED BY <2>1
<1>5. IsSigset(sigset)
  BY <1>2, <1>3, <1>4 DEF IsSigset
<1>6. witness \in Seq(Int) /\ \A j \in 1..Len(witness) : witness[j] <= 0
  BY <1>1, <1>5, WitnessesAre
<1>7. NumLimit \in Nat /\ NumLimit >= 1
  <2> DEFINE p == Pow2[Precision]
  <2>1. p \in Nat \ {0} /\ p <= NumLimit /\ NumLimit \in Nat
    BY NumbersAssumption, Pow2Type
  <2> HIDE DEF p
  <2> QED BY <2>1
<1>8. Below(witness, NumLimit)
  <2> SUFFICES ASSUME NEW j \in 1..Len(witness)
               PROVE  witness[j] < NumLimit
    BY DEF Below
  <2>1. witness[j] \in Int /\ witness[j] <= 0
    BY <1>6, ElementOfSeq, LenProperties
  <2> QED BY <1>7, <2>1
<1> QED BY <1>5, <1>6, <1>8 DEF Init, AnyInit
--------------------------------------------------------------------------------
(* The steps that end a run leave the phase as it is *)

Still == UNCHANGED <<sigset, witness, script, at, stack, cond, history>>

LEMMA StillIs ==
    ASSUME Typed, Still
    PROVE  /\ Same /\ at' = at /\ stack' = stack /\ cond' = cond
           /\ signers' = signers /\ asked' = asked /\ acc' = acc /\ Typed'
<1>1. /\ sigset' = sigset /\ witness' = witness /\ script' = script /\ at' = at
      /\ stack' = stack /\ cond' = cond /\ signers' = signers /\ asked' = asked /\ acc' = acc
  BY DEF Still, history
<1>2. Same
  BY <1>1, SameIs
<1>3. Typed'
  BY <1>1 DEF Typed, Constant
<1> QED BY <1>1, <1>2, <1>3

LEMMA StillFirst ==
    ASSUME Typed, Still, First0 \/ First1 \/ First2 \/ First3 \/ First4 \/ First5 \/ First6
    PROVE  Phase'
<1> USE StillIs
    DEF AskFirst, Asking, SignersAre, Signed, Tallied, Units, PowerIfSigned, Same
<1>1. CASE First0
  BY <1>1 DEF First0, Phase
<1>2. CASE First1
  BY <1>2 DEF First1, Phase
<1>3. CASE First2
  BY <1>3 DEF First2, Phase
<1>4. CASE First3
  BY <1>4 DEF First3, Phase
<1>5. CASE First4
  BY <1>5 DEF First4, Phase
<1>6. CASE First5
  BY <1>6 DEF First5, Phase
<1>7. CASE First6
  BY <1>7 DEF First6, Phase
<1> QED BY <1>1, <1>2, <1>3, <1>4, <1>5, <1>6, <1>7

LEMMA StillLater ==
    ASSUME Typed, Still, Later1 \/ Later2 \/ Later3 \/ Later4 \/ Later5 \/ Later6
    PROVE  Phase'
<1> USE StillIs
    DEF AskLater, Asking, SignersAre, Signed, LaterSigned, Tallied, Units, Used, Same
<1>1. CASE Later1
  BY <1>1 DEF Later1, Phase
<1>2. CASE Later2
  BY <1>2 DEF Later2, Phase
<1>3. CASE Later3
  BY <1>3 DEF Later3, Phase
<1>4. CASE Later4
  BY <1>4 DEF Later4, Phase
<1>5. CASE Later5
  BY <1>5 DEF Later5, Phase
<1>6. CASE Later6
  BY <1>6 DEF Later6, Phase
<1> QED BY <1>1, <1>2, <1>3, <1>4, <1>5, <1>6

LEMMA StillDecided ==
    ASSUME Typed, Still, Decided
    PROVE  Decided'
BY StillIs DEF Decided, AskedAll, Verdict, SignersAre, Tallied, Used, Same

LEMMA StillCompare ==
    ASSUME Typed, Still, Counted \/ Compare1 \/ Compare2 \/ Compare3 \/ Compare4
    PROVE  Phase'
<1> USE StillIs
    DEF AskedAll, Verdict, SignersAre, Tallied, Used, Same
<1>1. CASE Counted
  BY <1>1 DEF Counted, Phase
<1>2. CASE Compare1
  BY <1>2 DEF Compare1, Phase
<1>3. CASE Compare2
  BY <1>3, StillDecided DEF Compare2, Phase
<1>4. CASE Compare3
  BY <1>4 DEF Compare3, Phase
<1>5. CASE Compare4
  BY <1>5, StillDecided DEF Compare4, Phase
<1> QED BY <1>1, <1>2, <1>3, <1>4, <1>5

LEMMA StillBranch ==
    ASSUME Typed, Still,
           Branch1 \/ Branch2 \/ Branch3 \/ SkipsSignatories \/ Returns \/ SkipsFoundation \/ End
    PROVE  Phase'
<1> USE StillIs
    DEF Fresh, SignersAre, Tallied, Skipping, Same
<1>1. CASE Branch1
  BY <1>1 DEF Branch1, AtBranch, Phase
<1>2. CASE Branch2
  BY <1>2 DEF Branch2, AtBranch, Phase
<1>3. CASE Branch3
  BY <1>3 DEF Branch3, AtBranch, Phase
<1>4. CASE SkipsSignatories
  BY <1>4 DEF SkipsSignatories, Phase
<1>5. CASE Returns
  BY <1>5 DEF Returns, Phase
<1>6. CASE SkipsFoundation
  BY <1>6, StillDecided DEF SkipsFoundation, Phase
<1>7. CASE End
  BY <1>7, StillDecided DEF End, Phase
<1> QED BY <1>1, <1>2, <1>3, <1>4, <1>5, <1>6, <1>7

LEMMA StillPhase ==
    ASSUME Typed, Phase, Still
    PROVE  Typed' /\ Phase'
BY StillIs, StillFirst, StillLater, StillCompare, StillBranch DEF Phase

LEMMA NextIInv ==
    ASSUME IInv, [Next]_vars
    PROVE  IInv'
<1>1. Typed /\ Phase /\ ResultOK
  BY DEF IInv
<1>2. CASE Move
  <2>1. Typed' /\ Phase' /\ result' = "none"
    BY <1>1, <1>2, MoveKeepsPhase, MoveIs
  <2> QED BY <2>1 DEF IInv, ResultOK
<1>3. CASE Fail
  <2>1. Still /\ at <= Len(script) /\ Runs /\ t.op \notin {"ELSE", "ENDIF"} /\ Stuck /\ result' = "invalid"
    BY <1>3 DEF Fail, Still, Running
  <2>2. Typed' /\ Phase'
    BY <1>1, <2>1, StillPhase
  <2>3. at' <= Len(script') /\ Runs' /\ t'.op \notin {"ELSE", "ENDIF"} /\ Stuck'
    BY <1>1, <2>1, StillIs DEF Same, Runs, t, Stuck
  <2>4. ResultOK'
    BY <2>1, <2>3 DEF ResultOK
  <2> QED BY <2>2, <2>4 DEF IInv
<1>4. CASE Finish
  <2>1. /\ Still /\ at > Len(script)
        /\ result' = IF Len(stack) # 1 THEN "invalid" ELSE IF stack[1] # 0 THEN "open" ELSE "closed"
    BY <1>4 DEF Finish, Still
  <2>2. Typed' /\ Phase'
    BY <1>1, <2>1, StillPhase
  <2>3. Decided
    BY <1>1, <2>1, PhaseFacts DEF Facts
  <2>4. Decided' /\ stack' = stack
    BY <1>1, <2>1, <2>3, StillDecided, StillIs
  <2>5. ResultOK'
    BY <2>1, <2>4 DEF ResultOK
  <2> QED BY <2>2, <2>5 DEF IInv
<1>5. CASE UNCHANGED vars
  <2>1. Still /\ result' = result
    BY <1>5 DEF vars, Still, history
  <2>2. Typed' /\ Phase'
    BY <1>1, <2>1, StillPhase
  <2>3. /\ Decided => Decided'
        /\ stack' = stack /\ at' = at /\ Runs' = Runs /\ t' = t /\ Stuck' = Stuck /\ script' = script
    BY <1>1, <2>1, StillDecided, StillIs DEF Same, Runs, t, Stuck
  <2>4. ResultOK'
    BY <1>1, <2>1, <2>3 DEF ResultOK
  <2> QED BY <2>2, <2>4 DEF IInv
<1> QED BY <1>2, <1>3, <1>4, <1>5 DEF Next, Move

--------------------------------------------------------------------------------
(* What follows from it *)

\* The power on record is what the keys asked so far have signed for.
Counts ==
    /\ asked \in 0..N /\ acc = Tallied(asked)
    /\ PowerOf(signers, asked) = Voted(asked)

LEMMA IInvCounts == IInv => Counts
<1> SUFFICES ASSUME IInv
             PROVE  Counts
  OBVIOUS
<1>1. Typed /\ Facts /\ Constant /\ N \in Nat
  BY PhaseFacts, Types, ConstantIs DEF IInv
<1>2. PICK m \in asked..N : SignersAre(m)
  BY <1>1 DEF Facts
<1>3. m \in 0..N /\ asked \in 0..m
  BY <1>1, <1>2 DEF Facts
<1>4. PowerOf(signers, asked) = Voted(asked)
  BY <1>1, <1>2, <1>3, PowerIsVoted
<1> QED BY <1>1, <1>4 DEF Facts, Counts

LEMMA IInvTypeOK == IInv /\ Below(witness, NumLimit) => TypeOK
<1> SUFFICES ASSUME IInv, Below(witness, NumLimit)
             PROVE  TypeOK
  OBVIOUS
<1>1. Typed /\ Phase /\ ResultOK /\ Facts /\ Constant /\ N \in Nat /\ DOMAIN Powers = 1..N
  BY PhaseFacts, Types, ConstantIs DEF IInv
<1>2. \A j \in DOMAIN stack : stack[j] < NumLimit \/ Foundation
  <2>1. DOMAIN stack = 1..Len(stack)
    BY <1>1, LenProperties DEF Typed
  <2> QED BY <1>1, <2>1, StackFits DEF Below
<1>3. at \in 1..(Len(script) + 1)
  <2>1. Len(script) \in Nat
    BY <1>1, ScriptIs, LenProperties DEF Constant
  <2> QED BY <1>1, <2>1 DEF Facts, Typed
<1>4. signers \subseteq ToSet(Keys)
  <2>1. PICK m \in asked..N : SignersAre(m)
    BY <1>1 DEF Facts
  <2>2. \A j \in 1..m : j \in 1..N
    BY <1>1, <2>1 DEF Facts
  <2>3. DOMAIN Keys = 1..N
    BY <1>1 DEF Keys, Powers, SigKeys, FoundationKeys
  <2>4. \A j \in 1..N : Keys[j] \in ToSet(Keys)
    BY <2>3 DEF ToSet
  <2> QED BY <2>1, <2>2, <2>4 DEF SignersAre, SignersOf
<1>5. asked \in 0..Len(Powers) /\ Len(cond) <= 2 /\ cond \in Seq({0, 1})
  BY <1>1 DEF Facts, Typed, N
<1>6. result \in {"none", "open", "closed", "invalid"}
  BY <1>1 DEF ResultOK
<1> QED BY <1>2, <1>3, <1>4, <1>5, <1>6 DEF TypeOK

\* The verdict, in power.
LEMMA VerdictIs ==
    ASSUME Typed, Decided
    PROVE  /\ stack[1] # 0 => Voted(N) > Threshold
           /\ stack[1] = 0 => Voted(N) <= Threshold + N * (Unit - 1)
<1>1. /\ Constant /\ N \in Nat /\ Unit \in Nat \ {0} /\ Threshold \in Int /\ N \in 0..N
  BY Types, ConstantIs
<1>2. stack[1] = Truth(Tallied(N) > Threshold \div Unit)
  BY DEF Decided, AskedAll, Verdict
<1>3. /\ Tallied(N) \in Nat /\ Voted(N) \in Nat
      /\ Tallied(N) * Unit <= Voted(N) /\ Voted(N) <= Tallied(N) * Unit + N * (Unit - 1)
  BY <1>1, TalliedIs, VotedIs, VotedIsNear
<1> DEFINE q == Threshold \div Unit  a == Tallied(N)  v == Voted(N)  u == Unit
<1>4. q \in Int /\ q * u <= Threshold /\ Threshold <= q * u + u - 1
  BY <1>1, Division
<1>5. /\ a \in Nat /\ v \in Nat /\ u \in Nat \ {0} /\ a * u <= v /\ v <= a * u + N * (u - 1)
      /\ stack[1] = Truth(a > q)
  BY <1>1, <1>2, <1>3
<1> HIDE DEF q, a, v, u
<1> DEFINE qu == q * u  au == a * u  nu == N * (u - 1)
<1>6. qu \in Int /\ au \in Int /\ nu \in Int
  BY <1>1, <1>4, <1>5
<1>7. stack[1] # 0 => v > Threshold
  <2> SUFFICES ASSUME stack[1] # 0
               PROVE  v > Threshold
    OBVIOUS
  <2>1. a >= q + 1
    <3>1. a > q
      BY <1>5 DEF Truth
    <3> QED BY <1>4, <1>5, <3>1
  <2>2. (q + 1) * u <= a * u
    BY <1>4, <1>5, <2>1, Monotone
  <2>3. (q + 1) * u = qu + u
    BY <1>4, <1>5
  <2>4. au <= v /\ Threshold <= qu + u - 1 /\ qu + u <= au
    BY <1>4, <1>5, <2>2, <2>3
  <2> HIDE DEF qu, au, nu
  <2> QED BY <1>1, <1>5, <1>6, <2>4
<1>8. stack[1] = 0 => v <= Threshold + nu
  <2> SUFFICES ASSUME stack[1] = 0
               PROVE  v <= Threshold + nu
    OBVIOUS
  <2>1. a <= q
    <3>1. ~(a > q)
      BY <1>5 DEF Truth
    <3> QED BY <1>4, <1>5, <3>1
  <2>2. a * u <= q * u
    BY <1>4, <1>5, <2>1, Monotone
  <2>3. v <= au + nu /\ qu <= Threshold /\ au <= qu
    BY <1>4, <1>5, <2>2
  <2> HIDE DEF qu, au, nu
  <2> QED BY <1>1, <1>5, <1>6, <2>3
<1> QED BY <1>7, <1>8 DEF v, u

LEMMA IInvShare == IInv => OpensOnlyAboveShare
<1> SUFFICES ASSUME IInv, result = "open", ~Foundation
             PROVE  PowerOf(signers, Len(Powers)) * sigset.denominator > PresentVp(sigset.vp) * sigset.numerator
  BY DEF OpensOnlyAboveShare
<1>1. Typed /\ Constant /\ Decided /\ stack[1] # 0 /\ asked = N
  BY Types DEF IInv, ResultOK, Decided, AskedAll
<1>2. PowerOf(signers, Len(Powers)) = Voted(N)
  BY <1>1, IInvCounts DEF Counts, N
<1>3. Voted(N) > Share(sigset) /\ Voted(N) \in Nat
  <2>1. N \in 0..N
    BY <1>1, ConstantIs
  <2> QED BY <1>1, <2>1, VerdictIs, VotedIs DEF Threshold
<1> DEFINE p == PresentVp(sigset.vp) * sigset.numerator  den == sigset.denominator  s == Share(sigset)  v == Voted(N)
<1>4. p \in Nat /\ den \in Nat \ {0} /\ s = p \div den
  <2>1. PresentVp(sigset.vp) \in Nat /\ sigset.numerator \in Nat /\ den \in Nat \ {0}
    BY <1>1, TruncationKeepsPrecision DEF Constant, IsSigset
  <2> QED BY <2>1 DEF Share
<1> HIDE DEF p, den
<1>5. s \in Int /\ p <= s * den + den - 1
  BY <1>4, Division
<1>6. v >= s + 1 /\ v \in Int
  BY <1>3, <1>5
<1> HIDE DEF s, v
<1>7. (s + 1) * den <= v * den
  BY <1>4, <1>5, <1>6, Monotone
<1>8. (s + 1) * den = s * den + den
  BY <1>4, <1>5
<1> DEFINE sd == s * den  vd == v * den
<1>9. sd \in Int /\ vd \in Int /\ p <= sd + den - 1 /\ sd + den <= vd
  BY <1>4, <1>5, <1>6, <1>7, <1>8
<1> HIDE DEF sd, vd
<1>10. vd > p
  BY <1>4, <1>9
<1> QED BY <1>2, <1>10 DEF vd, v, p, den

LEMMA IInvOpens == IInv => EnoughPowerOpens
<1> SUFFICES ASSUME IInv, result \in {"closed", "invalid"}, Proper
             PROVE  PowerOf(ToSet(Items), Len(Powers)) <= Threshold + Len(Powers) * (Unit - 1)
  BY DEF EnoughPowerOpens, Proper, Fits
<1>1. Typed /\ Phase /\ ResultOK /\ Constant /\ N \in Nat /\ DOMAIN Powers = 1..N
  BY Types, ConstantIs DEF IInv
<1>2. /\ Outer \in Nat /\ Len(witness) = Outer + N
      /\ \A j \in 1..N : Items[j] = witness[Outer + j] /\ Items[j] \in {0, Keys[j]}
      /\ ToSet(Items) = {Items[j] : j \in 1..N}
  BY <1>1, ProperIs
<1>3. result = "closed"
  <2> SUFFICES ASSUME result = "invalid"
               PROVE  FALSE
    OBVIOUS
  <2>1. ~(at <= Len(script) /\ Runs /\ t.op \notin {"ELSE", "ENDIF"} /\ Stuck)
    BY <1>1, NeverStuck
  <2>2. Decided /\ Len(stack) # 1
    BY <1>1, <2>1 DEF ResultOK
  <2>3. Len(stack) = 1 + Len(witness) - (Outer + N)
    BY <2>2 DEF Decided, AskedAll, Over, Used
  <2> QED BY <1>1, <1>2, <2>2, <2>3
<1>4. Decided /\ stack[1] = 0
  BY <1>1, <1>3 DEF ResultOK
<1>5. Voted(N) <= Threshold + N * (Unit - 1)
  BY <1>1, <1>4, VerdictIs
<1>6. ASSUME NEW j \in 1..N
      PROVE  Keys[j] \in ToSet(Items) <=> Signed(j)
  <2>1. Keys[j] # 0 /\ \A k \in 1..N : Keys[k] = Keys[j] => k = j
    <3>1. Keys[j] < -2 /\ Keys[j] \in Int
      BY <1>1, KeysAre, ConstantIs
    <3>2. \A k \in 1..N : Keys[k] = Keys[j] => k = j
      BY <1>1, KeysAre
    <3> QED BY <3>1, <3>2
  <2>2. Signed(j) => Keys[j] \in ToSet(Items)
    BY <1>2 DEF Signed
  <2>3. ASSUME Keys[j] \in ToSet(Items)
        PROVE  Signed(j)
    <3>1. PICK k \in 1..N : Keys[j] = Items[k]
      BY <1>2, <2>3
    <3>2. Items[k] = Keys[k]
      BY <1>2, <2>1, <3>1
    <3>3. k = j
      BY <2>1, <3>1, <3>2
    <3> QED BY <1>2, <3>1, <3>3 DEF Signed
  <2> QED BY <2>2, <2>3
<1> DEFINE f == [j \in DOMAIN Powers |-> IF Keys[j] \in ToSet(Items) THEN Powers[j] ELSE 0]
           g == VotedOf(Powers, Keys, witness, Outer)
<1>7. ASSUME NEW j \in 1..N
      PROVE  f[j] = g[j]
  BY <1>1, <1>6 DEF VotedOf, Signed
<1>8. PowerOf(ToSet(Items), N) = SumTo(f, N) /\ Voted(N) = SumTo(g, N)
  BY DEF PowerOf, Voted
<1> HIDE DEF f, g
<1>9. PowerOf(ToSet(Items), N) = Voted(N)
  BY <1>1, <1>7, <1>8, SumToAgree
<1>10. Len(Powers) = N
  BY DEF N
<1> QED BY <1>5, <1>9, <1>10
--------------------------------------------------------------------------------
(* The run is a vote *)

LEMMA MoveVotes ==
    ASSUME Typed, Move, Counts, Counts'
    PROVE  [Vote!Next]_(Vote!vars)
<1>1. /\ Same /\ result = "none" /\ result' = "none" /\ Constant /\ N \in Nat /\ asked \in Nat /\ acc \in Int
      /\ Powers' = Powers /\ Unit' = Unit /\ Threshold' = Threshold
  BY MoveIs, Types, ConstantIs DEF Same
<1> DEFINE power == PowerOf(signers, asked)
<1>2. asked \in 0..N /\ acc = Tallied(asked) /\ power = Voted(asked)
  BY DEF Counts
<1>3. asked' \in 0..N /\ acc' = Tallied(asked') /\ power' = Voted(asked')
  <2>1. asked' \in 0..N' /\ acc' = Tallied(asked)' /\ power' = Voted(asked)'
    BY DEF Counts
  <2>2. Tallied(asked)' = Tallied(asked') /\ Voted(asked)' = Voted(asked')
    BY <1>1 DEF Tallied, Voted, Same
  <2> QED BY <1>1, <2>1, <2>2 DEF Same
<1>4. asked' = asked \/ asked' = asked + 1
  BY DEF Move, Skip, Execute, If, Else, EndIf, history
<1> HIDE DEF power
<1>5. CASE asked' = asked
  <2>1. acc' = acc /\ power' = power /\ (asked + 1)' = asked + 1
    BY <1>2, <1>3, <1>5
  <2> QED BY <1>1, <2>1 DEF Vote!vars, power
<1>6. CASE asked' = asked + 1
  <2> DEFINE signs == Signed(asked + 1)
  <2>1. asked \in 0..(N - 1) /\ asked + 1 \in 1..N
    BY <1>1, <1>2, <1>3, <1>6
  <2>2. acc' = IF signs THEN acc + (Powers[asked + 1] \div Unit) ELSE acc
    <3>1. Tallied(asked + 1) = Tallied(asked) + (IF signs THEN Units(asked + 1) ELSE 0)
      BY <1>1, <2>1, TalliedIs
    <3> QED BY <1>1, <1>2, <1>3, <1>6, <3>1 DEF Units
  <2>3. power' = IF signs THEN power + Powers[asked + 1] ELSE power
    <3>1. /\ Voted(asked + 1) = Voted(asked) + (IF signs THEN Powers[asked + 1] ELSE 0)
          /\ Voted(asked) \in Nat
      BY <1>1, <1>2, <2>1, VotedIs
    <3> QED BY <1>2, <1>3, <1>6, <3>1
  <2>4. asked + 1 <= Len(Powers) /\ (asked + 1)' = (asked + 1) + 1
    BY <1>6, <2>1 DEF N
  <2> HIDE DEF signs
  <2>5. CASE signs
    <3>1. Vote!Ask(TRUE)
      BY <1>1, <2>2, <2>3, <2>4, <2>5 DEF Vote!Ask, power
    <3> QED BY <3>1 DEF Vote!Next
  <2>6. CASE ~signs
    <3>1. Vote!Ask(FALSE)
      BY <1>1, <2>2, <2>3, <2>4, <2>6 DEF Vote!Ask, power
    <3> QED BY <3>1 DEF Vote!Next
  <2> QED BY <2>5, <2>6
<1> QED BY <1>4, <1>5, <1>6

LEMMA StillPower ==
    ASSUME Typed, Still
    PROVE  UNCHANGED <<Powers, Unit, Threshold, asked + 1, acc, PowerOf(signers, asked)>>
<1>1. Same /\ signers' = signers /\ asked' = asked /\ acc' = acc
  BY StillIs
<1>2. PowerOf(signers, asked)' = PowerOf(signers, asked)
  BY <1>1 DEF PowerOf, Same
<1> QED BY <1>1, <1>2 DEF Same

LEMMA NextVotes ==
    ASSUME IInv, Counts, Counts', [Next]_vars
    PROVE  [Vote!Next]_(Vote!vars)
<1>1. Typed /\ Phase
  BY DEF IInv
<1>2. CASE Move
  BY <1>1, <1>2, MoveVotes
<1>3. CASE Fail
  <2>1. Still /\ result = "none" /\ result' = "invalid"
    BY <1>3 DEF Fail, Still, Running
  <2>2. Vote!Invalidate
    BY <1>1, <2>1, StillPower DEF Vote!Invalidate
  <2> QED BY <2>2 DEF Vote!Next
<1>4. CASE Finish
  <2>1. /\ Still /\ result = "none" /\ at > Len(script)
        /\ result' = IF Len(stack) # 1 THEN "invalid" ELSE IF stack[1] # 0 THEN "open" ELSE "closed"
    BY <1>4 DEF Finish, Still
  <2>2. UNCHANGED <<Powers, Unit, Threshold, asked + 1, acc, PowerOf(signers, asked)>>
    BY <1>1, <2>1, StillPower
  <2>3. asked = N /\ N \in Nat /\ stack[1] = Truth(acc > Threshold \div Unit)
    BY <1>1, <2>1, PhaseFacts, Types, ConstantIs DEF Facts, Decided, AskedAll, Verdict
  <2>4. asked + 1 > Len(Powers)
    BY <2>3 DEF N
  <2>5. CASE Len(stack) # 1
    <3>1. Vote!Invalidate
      BY <2>1, <2>2, <2>5 DEF Vote!Invalidate
    <3> QED BY <3>1 DEF Vote!Next
  <2>6. CASE Len(stack) = 1
    <3>1. result' = IF acc > Threshold \div Unit THEN "open" ELSE "closed"
      BY <2>1, <2>3, <2>6 DEF Truth
    <3>2. Vote!Decide
      BY <2>1, <2>2, <2>4, <3>1 DEF Vote!Decide
    <3> QED BY <3>2 DEF Vote!Next
  <2> QED BY <2>5, <2>6
<1>5. CASE UNCHANGED vars
  <2>1. Still /\ result' = result
    BY <1>5 DEF vars, Still, history
  <2> QED BY <1>1, <2>1, StillPower DEF Vote!vars
<1> QED BY <1>2, <1>3, <1>4, <1>5 DEF Next, Move

LEMMA InitVotes ==
    ASSUME AnyInit
    PROVE  Vote!Init
<1>1. Constant /\ asked = 0 /\ acc = 0 /\ result = "none"
  BY DEF AnyInit, Constant
<1>2. Powers \in Seq(Nat) /\ Unit \in Nat \ {0} /\ Threshold \in Int
  BY <1>1, ConstantIs
<1>3. PowerOf(signers, asked) = 0
  BY <1>1, SumToIs DEF PowerOf
<1> QED BY <1>1, <1>2, <1>3 DEF Vote!Init

--------------------------------------------------------------------------------
(* The theorems *)

\* In every run, on every witness, the interpreter is in one of the phases: at
\* its instruction, with what is left of the witness on the stack, and with the
\* units of those who signed counted.
THEOREM Invariance == AnySpec => []IInv
<1> QED BY AnyInitIInv, NextIInv, PTL DEF AnySpec

\* The runs that are checked are among them.
THEOREM SpecIsAny == Spec => AnySpec
<1>1. Init => AnyInit
  BY InitIsAnyInit
<1> QED BY <1>1, PTL DEF Spec, AnySpec

\* Nobody, with whatever witness, opens a deposit's script without the
\* signatures of more than the threshold's share of the voting power (lib-js
\* 142-222): for all signatories, powers and shares.
THEOREM AnyWitnessNeedsShare == AnySpec => []OpensOnlyAboveShare
<1> QED BY Invariance, IInvShare, PTL

\* No deposit is lost to the form of its script: the witness of a wallet never
\* stops a run, and opens it once those who signed have more than the threshold
\* and what truncation can take from them.
THEOREM EnoughPowerIsEnough == AnySpec => []EnoughPowerOpens
<1> QED BY Invariance, IInvOpens, PTL

\* Every run is a vote: its loops of instructions ask each key once, in order,
\* and the comparison behind them decides.
THEOREM RunIsVote == AnySpec => ImplementsVote
<1>1. AnyInit => Vote!Init
  BY InitVotes
<1>2. IInv /\ Counts /\ Counts' /\ [Next]_vars => [Vote!Next]_(Vote!vars)
  BY NextVotes
<1> QED BY <1>1, <1>2, Invariance, IInvCounts, PTL DEF AnySpec, ImplementsVote, Vote!Spec

\* The interpreter's stack, its branches and its history keep their form, and
\* no number of the signatories' script is one the network cannot compare.
THEOREM TypeCorrectness == Spec => []TypeOK
<1>1. Init => Below(witness, NumLimit)
  BY InitIsAnyInit
<1>2. Below(witness, NumLimit) /\ [Next]_vars => Below(witness, NumLimit)'
  <2> SUFFICES ASSUME Below(witness, NumLimit), [Next]_vars
               PROVE  Below(witness, NumLimit)'
    OBVIOUS
  <2>1. witness' = witness
    BY DEF Next, Skip, Execute, If, Else, EndIf, Fail, Finish, Continue, vars
  <2> QED BY <2>1 DEF Below
<1>3. Spec => []Below(witness, NumLimit)
  BY <1>1, <1>2, PTL DEF Spec
<1> QED BY <1>3, SpecIsAny, Invariance, IInvTypeOK, PTL

\* All of it, of the runs that are checked.
THEOREM Safety == Spec => [](OpensOnlyAboveShare /\ EnoughPowerOpens) /\ ImplementsVote
<1> QED BY SpecIsAny, AnyWitnessNeedsShare, EnoughPowerIsEnough, RunIsVote, PTL
--------------------------------------------------------------------------------
(* The vote that every run is: of any voters, units and thresholds *)

VARIABLES weights, step, bar, turn, sum, gained, verdict

AnyVote == INSTANCE ThresholdVote WITH
    vp <- weights, unit <- step, threshold <- bar,
    i <- turn, acc <- sum, power <- gained, verdict <- verdict

\* The sum, in power, is below what signed by less than one unit per key asked.
SumIsNear ==
    /\ sum * step <= gained
    /\ gained <= sum * step + (turn - 1) * (step - 1)

VerdictIsSum ==
    /\ verdict = "open" => sum > bar \div step
    /\ verdict = "closed" => turn = Len(weights) + 1 /\ sum <= bar \div step

VoteInv == AnyVote!TypeOK /\ SumIsNear /\ VerdictIsSum

LEMMA VoteInitInv == AnyVote!Init => VoteInv
BY DEF AnyVote!Init, VoteInv, AnyVote!TypeOK, SumIsNear, VerdictIsSum

LEMMA VoteAskInv ==
    ASSUME VoteInv, NEW signs \in BOOLEAN, AnyVote!Ask(signs)
    PROVE  VoteInv'
<1>1. AnyVote!TypeOK /\ SumIsNear /\ VerdictIsSum
  BY DEF VoteInv
<1>2. weights[turn] \in Nat /\ turn \in Nat \ {0} /\ step \in Nat \ {0}
  BY <1>1 DEF AnyVote!TypeOK, AnyVote!Ask
<1> DEFINE q == weights[turn] \div step
<1>3. q \in Nat /\ q * step <= weights[turn] /\ weights[turn] <= q * step + step - 1
  <2>1. q \in Int /\ q * step <= weights[turn] /\ weights[turn] <= q * step + step - 1
    <3>1. weights[turn] \in Int
      BY <1>2
    <3> QED BY <1>2, <3>1, Division
  <2>2. q >= 0
    BY <1>2
  <2> QED BY <2>1, <2>2
<1> HIDE DEF q
<1>4. AnyVote!TypeOK'
  <2>1. sum \in Nat /\ gained \in Nat /\ Len(weights) \in Nat
    BY <1>1 DEF AnyVote!TypeOK
  <2>2. sum' = (IF signs THEN sum + q ELSE sum) /\ gained' = (IF signs THEN gained + weights[turn] ELSE gained)
    BY DEF AnyVote!Ask, q
  <2>3. sum' \in Nat /\ gained' \in Nat
    BY <1>2, <1>3, <2>1, <2>2
  <2>4. turn' \in 1..(Len(weights') + 1)
    BY <1>2, <2>1 DEF AnyVote!Ask
  <2> QED BY <1>1, <2>3, <2>4 DEF AnyVote!TypeOK, AnyVote!Ask
<1>5. SumIsNear'
  <2>1. (turn' - 1) * (step' - 1) = (turn - 1) * (step - 1) + (step - 1)
    BY <1>1, <1>2 DEF AnyVote!TypeOK, AnyVote!Ask
  <2>2. CASE signs
    <3>1. sum' = sum + q /\ gained' = gained + weights[turn] /\ step' = step
      BY <2>2 DEF AnyVote!Ask, q
    <3>2. sum' * step' = sum * step + q * step
      BY <3>1, <1>1, <1>2, <1>3 DEF AnyVote!TypeOK
    <3> DEFINE au == sum * step  qu == q * step  iu == (turn - 1) * (step - 1)
    <3>3. au \in Int /\ qu \in Int /\ iu \in Int /\ gained \in Int
      BY <1>1, <1>2, <1>3 DEF AnyVote!TypeOK
    <3>4. au <= gained /\ gained <= au + iu
      BY <1>1 DEF SumIsNear
    <3>5. qu <= weights[turn] /\ weights[turn] <= qu + step - 1
      BY <1>3
    <3>6. sum' * step' = au + qu /\ (turn' - 1) * (step' - 1) = iu + (step - 1)
      BY <3>2, <2>1
    <3> HIDE DEF au, qu, iu
    <3> QED BY <3>1, <3>3, <3>4, <3>5, <3>6, <1>2 DEF SumIsNear
  <2>3. CASE ~signs
    <3>1. sum' = sum /\ gained' = gained /\ step' = step
      BY <2>3 DEF AnyVote!Ask
    <3> DEFINE au == sum * step  iu == (turn - 1) * (step - 1)
    <3>2. au \in Int /\ iu \in Int /\ gained \in Int
      BY <1>1, <1>2 DEF AnyVote!TypeOK
    <3>3. au <= gained /\ gained <= au + iu
      BY <1>1 DEF SumIsNear
    <3>4. sum' * step' = au /\ (turn' - 1) * (step' - 1) = iu + (step - 1)
      BY <3>1, <2>1
    <3> HIDE DEF au, iu
    <3> QED BY <3>1, <3>2, <3>3, <3>4, <1>2 DEF SumIsNear
  <2> QED BY <2>2, <2>3
<1>6. VerdictIsSum'
  BY DEF VerdictIsSum, AnyVote!Ask
<1> QED BY <1>4, <1>5, <1>6 DEF VoteInv

LEMMA VoteDecideInv ==
    ASSUME VoteInv, AnyVote!Decide
    PROVE  VoteInv'
<1>1. AnyVote!TypeOK /\ SumIsNear /\ VerdictIsSum
  BY DEF VoteInv
<1>2. AnyVote!TypeOK'
  BY <1>1 DEF AnyVote!TypeOK, AnyVote!Decide
<1>3. SumIsNear'
  BY <1>1 DEF SumIsNear, AnyVote!Decide
<1>4. VerdictIsSum'
  <2>1. bar \div step \in Int
    BY <1>1, Division DEF AnyVote!TypeOK
  <2>2. turn = Len(weights) + 1
    BY <1>1 DEF AnyVote!TypeOK, AnyVote!Decide
  <2> QED BY <1>1, <2>1, <2>2 DEF VerdictIsSum, AnyVote!Decide, AnyVote!TypeOK
<1> QED BY <1>2, <1>3, <1>4 DEF VoteInv

LEMMA VoteNextInv ==
    ASSUME VoteInv, [AnyVote!Next]_(AnyVote!vars)
    PROVE  VoteInv'
<1>1. CASE \E signs \in BOOLEAN : AnyVote!Ask(signs)
  BY <1>1, VoteAskInv
<1>2. CASE AnyVote!Decide
  BY <1>2, VoteDecideInv
<1>3. CASE AnyVote!Invalidate
  BY <1>3 DEF AnyVote!Invalidate, VoteInv, AnyVote!TypeOK, SumIsNear, VerdictIsSum
<1>4. CASE UNCHANGED AnyVote!vars
  BY <1>4 DEF AnyVote!vars, VoteInv, AnyVote!TypeOK, SumIsNear, VerdictIsSum
<1>5. \/ AnyVote!Ask(TRUE) \/ AnyVote!Ask(FALSE) \/ AnyVote!Decide \/ AnyVote!Invalidate
      \/ UNCHANGED AnyVote!vars
  BY DEF AnyVote!Next
<1> QED BY <1>1, <1>2, <1>3, <1>4, <1>5

THEOREM VoteInvariance == AnyVote!Spec => []VoteInv
<1>1. AnyVote!Init => VoteInv
  BY VoteInitInv
<1>2. VoteInv /\ [AnyVote!Next]_(AnyVote!vars) => VoteInv'
  BY VoteNextInv
<1> QED BY <1>1, <1>2, PTL DEF AnyVote!Spec

\* Rounding never helps the signers: a spend is open only with more power than
\* the threshold.  What redeemScript (lib-js 142-185) rests on.
THEOREM RoundingIsSafe == AnyVote!Spec => []AnyVote!OpenIsAboveThreshold
<1>1. VoteInv => AnyVote!OpenIsAboveThreshold
  <2> SUFFICES ASSUME VoteInv, verdict = "open"
               PROVE  gained > bar
    BY DEF AnyVote!OpenIsAboveThreshold
  <2> DEFINE q == bar \div step
  <2>1. sum > q /\ sum * step <= gained
    BY DEF VoteInv, VerdictIsSum, SumIsNear
  <2>2. sum \in Nat /\ gained \in Nat /\ bar \in Int /\ step \in Nat \ {0}
    BY DEF VoteInv, AnyVote!TypeOK
  <2>3. q \in Int /\ bar <= q * step + step - 1
    BY <2>2, Division
  <2> HIDE DEF q
  <2>4. (q + 1) * step <= sum * step
    BY <2>1, <2>2, <2>3, Monotone
  <2>5. (q + 1) * step = q * step + step
    BY <2>2, <2>3
  <2> DEFINE qu == q * step  au == sum * step
  <2>6. qu \in Int /\ au \in Int
    BY <2>2, <2>3
  <2>7. qu + step <= au /\ au <= gained /\ bar <= qu + step - 1
    BY <2>1, <2>3, <2>4, <2>5
  <2> HIDE DEF qu, au
  <2> QED BY <2>2, <2>6, <2>7
<1> QED BY <1>1, VoteInvariance, PTL

\* And costs them little: whoever is refused had no more than the threshold
\* and less than one unit for each key.
THEOREM RoundingIsCheap == AnyVote!Spec => []AnyVote!ClosedIsNearThreshold
<1>1. VoteInv => AnyVote!ClosedIsNearThreshold
  <2> SUFFICES ASSUME VoteInv, verdict = "closed"
               PROVE  gained <= bar + Len(weights) * (step - 1)
    BY DEF AnyVote!ClosedIsNearThreshold
  <2> DEFINE q == bar \div step
  <2>1. sum <= q /\ turn = Len(weights) + 1 /\ gained <= sum * step + (turn - 1) * (step - 1)
    BY DEF VoteInv, VerdictIsSum, SumIsNear
  <2>2. sum \in Nat /\ gained \in Nat /\ bar \in Int /\ step \in Nat \ {0} /\ Len(weights) \in Nat
    BY DEF VoteInv, AnyVote!TypeOK
  <2>3. q \in Int /\ q * step <= bar
    BY <2>2, Division
  <2> HIDE DEF q
  <2>4. sum * step <= q * step
    BY <2>1, <2>2, <2>3, Monotone
  <2>5. (turn - 1) * (step - 1) = Len(weights) * (step - 1)
    BY <2>1, <2>2
  <2> DEFINE qu == q * step  au == sum * step  lu == Len(weights) * (step - 1)
  <2>6. qu \in Int /\ au \in Int /\ lu \in Int
    BY <2>2, <2>3
  <2>7. au <= qu /\ gained <= au + lu /\ qu <= bar
    BY <2>1, <2>3, <2>4, <2>5
  <2> HIDE DEF qu, au, lu
  <2>8. gained <= bar + lu
    BY <2>2, <2>6, <2>7
  <2> QED BY <2>8 DEF lu
<1> QED BY <1>1, VoteInvariance, PTL
================================================================================
