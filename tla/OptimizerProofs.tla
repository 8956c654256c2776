-------------------------- MODULE OptimizerProofs --------------------------
(***************************************************************************)
(* For every set of cycles, reserves, limits, fees, prices and gas costs,  *)
(* over cycles of any number of hops:                                      *)
(*                                                                         *)
(*   - what a simulator accepts repays its flash loan with the fee,        *)
(*     rounded up by the lender, and pays for gas and the minimum profit;  *)
(*   - a path given up at min_input would earn nothing but roundings;      *)
(*   - the answer of the search earns half of what any amount in reach of  *)
(*     its probes would;                                                   *)
(*   - the bracket never loses the amount of maximal profit.               *)
(*                                                                         *)
(* The last three are up to roundings and rest on the shape of a quote: by *)
(* induction over its hops it runs at most Losses below a concave curve    *)
(* N x / (B + C x), so that profits are nearly concave up to the limit     *)
(* from which the path reverts.                                            *)
(***************************************************************************)
EXTENDS Optimizer, WellFoundedInduction, TLAPS

\* Probing from min_input on passes no amount between two and four times it,
\* so that a quarter of a probe beyond the first two is not below min_input.
WideRange == MaxInput <= 2 * MinInput \/ 4 * MinInput <= MaxInput

-----------------------------------------------------------------------------
(* Arithmetic *)

LEMMA LeastNatural ==
    ASSUME NEW T, T \subseteq Nat, T # {}
    PROVE  \E x \in T : \A y \in T : x <= y
  <1>1. PICK x \in T : \A y \in T : ~(<<y, x>> \in OpToRel(<, Nat))
    BY NatLessThanWellFounded, WFMin, Zenon
  <1>2. \A y \in T : ~(y < x)
    BY <1>1 DEF OpToRel
  <1> QED
    BY <1>2

\* Induction up to n, for a set instead of a predicate.
LEMMA UpTo ==
    ASSUME NEW n \in Nat, NEW S, 0 \in S, \A i \in 0 .. n - 1 : i \in S => i + 1 \in S
    PROVE  0 .. n \subseteq S
  <1>1. SUFFICES ASSUME (0 .. n) \ S # {} PROVE FALSE
    OBVIOUS
  <1> DEFINE T == (0 .. n) \ S
  <1>2. PICK x \in T : \A y \in T : x <= y
    <2>1. T \subseteq Nat /\ T # {}
      BY <1>1
    <2> HIDE DEF T
    <2> QED
      BY <2>1, LeastNatural
  <1>3. x - 1 \in 0 .. n - 1
    BY <1>2
  <1>4. x - 1 \in S
    BY <1>2, <1>3
  <1>5. (x - 1) + 1 = x
    BY <1>2
  <1> QED
    BY <1>2, <1>3, <1>4, <1>5

LEMMA DivBounds ==
    ASSUME NEW a \in Nat, NEW b \in Nat \ {0}
    PROVE  /\ a \div b \in Nat
           /\ b * (a \div b) <= a
           /\ a < b * (a \div b) + b
  OBVIOUS

\* A quotient is the only number that a remainder less than b fits.
LEMMA DivUnique ==
    ASSUME NEW a \in Nat, NEW b \in Nat \ {0}, NEW k \in Nat
    PROVE  /\ b * k <= a => k <= a \div b
           /\ a < b * k => a \div b < k
  <1> DEFINE m == a \div b
  <1>1. m \in Nat /\ b * m <= a /\ a < b * m + b
    BY DivBounds
  <1> HIDE DEF m
  <1>2. ASSUME b * k <= a, m < k PROVE FALSE
    <2>1. b * (m + 1) <= b * k
      BY <1>1, <1>2
    <2>2. b * (m + 1) = b * m + b
      BY <1>1
    <2> QED
      BY <1>1, <1>2, <2>1, <2>2
  <1>3. ASSUME a < b * k, k <= m PROVE FALSE
    <2>1. b * k <= b * m
      BY <1>1, <1>3
    <2> QED
      BY <1>1, <1>3, <2>1
  <1>4. (b * k <= a => k <= m) /\ (a < b * k => m < k)
    BY <1>1, <1>2, <1>3
  <1> QED
    BY <1>4 DEF m

LEMMA DivMonotone ==
    ASSUME NEW a \in Nat, NEW c \in Nat, a <= c, NEW b \in Nat \ {0}
    PROVE  a \div b <= c \div b
  <1> DEFINE m == a \div b
  <1>1. m \in Nat /\ b * m <= a
    BY DivBounds
  <1> HIDE DEF m
  <1>2. b * m <= c
    BY <1>1
  <1>3. m <= c \div b
    BY <1>1, <1>2, DivUnique
  <1> QED
    BY <1>3 DEF m

\* Rounding up exceeds rounding down by at most one.
LEMMA CeilFloor ==
    ASSUME NEW a \in Nat, NEW b \in Nat \ {0}
    PROVE  (a + b - 1) \div b <= (a \div b) + 1
  <1> DEFINE m == a \div b
  <1>1. m \in Nat /\ a < b * m + b
    BY DivBounds
  <1> HIDE DEF m
  <1>2. b * (m + 2) = b * m + b + b
    BY <1>1
  <1>3. a + b - 1 \in Nat /\ b * (m + 2) \in Nat /\ b * m \in Nat
    BY <1>1
  <1>4. a + b - 1 < b * (m + 2)
    BY <1>1, <1>2, <1>3
  <1>5. (a + b - 1) \div b < m + 2
    BY <1>1, <1>3, <1>4, DivUnique
  <1>6. (a + b - 1) \div b \in Nat
    BY <1>3, DivBounds
  <1>7. (a + b - 1) \div b <= m + 1
    BY <1>1, <1>5, <1>6
  <1> QED
    BY <1>7 DEF m

LEMMA MinOfTwo ==
    ASSUME NEW a \in Nat, NEW b \in Nat
    PROVE  Min({a, b}) = IF a <= b THEN a ELSE b
  BY DEF Min

LEMMA MaxOfTwo ==
    ASSUME NEW a \in Int, NEW b \in Int
    PROVE  Max({a, b}) = IF a >= b THEN a ELSE b
  BY DEF Max

-----------------------------------------------------------------------------
(* Quotes *)

LEMMA AmountOutType ==
    ASSUME NEW in \in Nat, NEW hop \in (Nat \ {0}) \X (Nat \ {0})
    PROVE  AmountOut(in, hop) \in Nat
  <1>1. FeeFactor \in Nat /\ FeeScale \in Nat \ {0}
    BY OptimizerAssumption
  <1>2. hop[1] \in Nat \ {0} /\ hop[2] \in Nat
    OBVIOUS
  <1>3. in * FeeFactor \in Nat
    BY <1>1
  <1>4. in * FeeFactor * hop[2] \in Nat
    BY <1>2, <1>3
  <1>5. hop[1] * FeeScale \in Nat \ {0}
    BY <1>1, <1>2
  <1>6. hop[1] * FeeScale + in * FeeFactor \in Nat \ {0}
    BY <1>3, <1>5
  <1> HIDE DEF AmountOut
  <1> QED
    BY <1>4, <1>6, DivBounds DEF AmountOut

\* Naturals that obey a recursion exist, by induction over its length.
LEMMA RecursionExists ==
    ASSUME NEW n \in Nat, NEW start \in Nat, NEW next \in [(1 .. n) \X Nat -> Nat]
    PROVE  \E g \in [0 .. n -> Nat] :
             /\ g[0] = start
             /\ \A i \in 1 .. n : g[i] = next[<<i, g[i - 1]>>]
  <1> DEFINE Obeys(g, k) == /\ g \in [0 .. k -> Nat]
                            /\ g[0] = start
                            /\ \A i \in 1 .. k : g[i] = next[<<i, g[i - 1]>>]
             Reached(k) == \E g : Obeys(g, k)
             S == {k \in 0 .. n : Reached(k)}
  <1>1. Reached(0)
    <2>1. Obeys([i \in 0 .. 0 |-> start], 0)
      OBVIOUS
    <2> HIDE DEF Obeys
    <2> QED
      BY <2>1
  <1>2. ASSUME NEW k \in 0 .. n - 1, Reached(k) PROVE Reached(k + 1)
    <2>1. PICK g : Obeys(g, k)
      BY <1>2
    <2> DEFINE h == [i \in 0 .. k + 1 |-> IF i = k + 1 THEN next[<<k + 1, g[k]>>] ELSE g[i]]
    <2>2. k \in Nat /\ k + 1 \in 1 .. n /\ g[k] \in Nat
      BY <2>1
    <2>3. next[<<k + 1, g[k]>>] \in Nat
      BY <2>2
    <2>4. h \in [0 .. k + 1 -> Nat] /\ h[0] = start
      BY <2>1, <2>2, <2>3
    <2>5. ASSUME NEW i \in 1 .. k + 1 PROVE h[i] = next[<<i, h[i - 1]>>]
      <3>1. CASE i = k + 1
        <4>1. i - 1 = k /\ k \in 0 .. k + 1 /\ k + 1 \in 0 .. k + 1 /\ k # k + 1
          BY <2>2, <3>1
        <4>2. h[k] = g[k] /\ h[k + 1] = next[<<k + 1, g[k]>>]
          BY <4>1
        <4> HIDE DEF h
        <4> QED
          BY <3>1, <4>1, <4>2
      <3>2. CASE i # k + 1
        <4>1. i \in 1 .. k /\ i - 1 \in 0 .. k + 1 /\ i - 1 # k + 1
          BY <2>2, <3>2
        <4> QED
          BY <2>1, <2>2, <3>2, <4>1
      <3> QED
        BY <3>1, <3>2
    <2>6. Obeys(h, k + 1)
      BY <2>4, <2>5
    <2> HIDE DEF Obeys, h
    <2> QED
      BY <2>6
  <1> HIDE DEF Reached
  <1>3. 0 \in S /\ \A k \in 0 .. n - 1 : k \in S => k + 1 \in S
    BY <1>1, <1>2
  <1> HIDE DEF S
  <1>4. 0 .. n \subseteq S
    BY <1>3, UpTo
  <1>5. Reached(n)
    BY <1>4 DEF S
  <1> QED
    BY <1>5 DEF Reached

LEMMA HopsType ==
    ASSUME NEW hops \in Cycles
    PROVE  Len(hops) \in Nat /\ \A i \in 1 .. Len(hops) : hops[i] \in (Nat \ {0}) \X (Nat \ {0})
  BY OptimizerAssumption

\* After every hop there is some amount, by induction over the hops: amounts
\* that obey the recursion exist, so that Amounts is such a function.
LEMMA AmountsType ==
    ASSUME NEW hops \in Cycles, NEW in \in Nat
    PROVE  /\ Amounts(hops, in) \in [0 .. Len(hops) -> Nat]
           /\ Amounts(hops, in)[0] = in
           /\ \A i \in 1 .. Len(hops) :
                Amounts(hops, in)[i] = AmountOut(Amounts(hops, in)[i - 1], hops[i])
  <1> DEFINE n == Len(hops)
             Step(g) == [i \in 0 .. n |-> IF i = 0 THEN in ELSE AmountOut(g[i - 1], hops[i])]
             next == [h \in (1 .. n) \X Nat |-> AmountOut(h[2], hops[h[1]])]
  <1>1. n \in Nat /\ \A i \in 1 .. n : hops[i] \in (Nat \ {0}) \X (Nat \ {0})
    BY HopsType
  <1> HIDE DEF n
  <1>2. \E g : g = Step(g)
    <2>1. next \in [(1 .. n) \X Nat -> Nat]
      BY <1>1, AmountOutType
    <2>2. PICK g \in [0 .. n -> Nat] : g[0] = in /\ \A i \in 1 .. n : g[i] = next[<<i, g[i - 1]>>]
      <3>1. n \in Nat /\ in \in Nat
        BY <1>1
      <3> HIDE DEF next
      <3> QED
        BY <2>1, <3>1, RecursionExists, ZenonT(30)
    <2>3. \A i \in 1 .. n : g[i - 1] \in Nat
      BY <1>1
    <2>4. \A i \in 1 .. n : g[i] = AmountOut(g[i - 1], hops[i])
      BY <2>2, <2>3
    <2>5. \A i \in 0 .. n : i # 0 => i \in 1 .. n
      BY <1>1
    <2>6. \A i \in 0 .. n : g[i] = IF i = 0 THEN in ELSE AmountOut(g[i - 1], hops[i])
      BY <2>2, <2>4, <2>5
    <2>7. g = Step(g)
      BY <2>6
    <2> QED
      BY <2>7
  <1> DEFINE f == Amounts(hops, in)
  <1>3. f = Step(f)
    BY <1>2 DEF Amounts, n
  <1> HIDE DEF f
  <1>4. /\ DOMAIN f = 0 .. n
        /\ f[0] = in
        /\ \A i \in 1 .. n : f[i] = AmountOut(f[i - 1], hops[i])
    BY <1>1, <1>3
  <1>5. \A i \in 0 .. n : f[i] \in Nat
    <2> DEFINE S == {k \in 0 .. n : f[k] \in Nat}
    <2>1. 0 \in S
      BY <1>1, <1>4
    <2>2. ASSUME NEW k \in 0 .. n - 1, k \in S PROVE k + 1 \in S
      <3>1. k + 1 \in 1 .. n /\ (k + 1) - 1 = k /\ f[k] \in Nat
        BY <1>1, <2>2
      <3>2. f[k + 1] = AmountOut(f[k], hops[k + 1])
        BY <1>4, <3>1
      <3> QED
        BY <1>1, <3>1, <3>2, AmountOutType
    <2> HIDE DEF S
    <2>3. 0 .. n \subseteq S
      BY <1>1, <2>1, <2>2, UpTo
    <2> QED
      BY <2>3 DEF S
  <1>6. f = [i \in 0 .. n |-> f[i]]
    BY <1>3
  <1> QED
    BY <1>4, <1>5, <1>6 DEF f, n

LEMMA LossType ==
    ASSUME NEW e \in Nat, NEW hop \in (Nat \ {0}) \X (Nat \ {0})
    PROVE  /\ Loss(e, hop) \in Nat \ {0}
           /\ e * FeeFactor * hop[2] <= (Loss(e, hop) - 1) * (hop[1] * FeeScale)
  <1> DEFINE r == hop[1] * FeeScale
             a == e * FeeFactor * hop[2]
             m == (a + r - 1) \div r
  <1>1. FeeFactor \in Nat /\ FeeScale \in Nat \ {0} /\ hop[1] \in Nat \ {0} /\ hop[2] \in Nat
    BY OptimizerAssumption
  <1>2. r \in Nat \ {0}
    BY <1>1
  <1>3. a \in Nat
    <2>1. e * FeeFactor \in Nat
      BY <1>1
    <2> QED
      BY <1>1, <2>1
  <1>4. Loss(e, hop) = 1 + m
    BY DEF Loss
  <1> HIDE DEF r, a, Loss
  <1>5. m \in Nat /\ a + r - 1 < r * m + r
    <2>1. a + r - 1 \in Nat
      BY <1>2, <1>3
    <2> QED
      BY <1>2, <2>1, DivBounds
  <1> HIDE DEF m
  <1>6. Loss(e, hop) - 1 = m /\ r * m = m * r /\ r * m \in Nat
    BY <1>2, <1>4, <1>5
  <1>7. a <= m * r
    BY <1>2, <1>3, <1>5, <1>6
  <1> QED
    BY <1>4, <1>5, <1>6, <1>7 DEF r, a

LEMMA LossesType ==
    ASSUME NEW hops \in Cycles
    PROVE  /\ Losses(hops) \in [0 .. Len(hops) -> Nat]
           /\ Losses(hops)[0] = 0
           /\ \A i \in 1 .. Len(hops) : Losses(hops)[i] = Loss(Losses(hops)[i - 1], hops[i])
  <1> DEFINE n == Len(hops)
             Step(g) == [i \in 0 .. n |-> IF i = 0 THEN 0 ELSE Loss(g[i - 1], hops[i])]
             next == [h \in (1 .. n) \X Nat |-> Loss(h[2], hops[h[1]])]
  <1>1. n \in Nat /\ \A i \in 1 .. n : hops[i] \in (Nat \ {0}) \X (Nat \ {0})
    BY HopsType
  <1> HIDE DEF n
  <1>2. \E g : g = Step(g)
    <2>1. next \in [(1 .. n) \X Nat -> Nat]
      BY <1>1, LossType
    <2>2. PICK g \in [0 .. n -> Nat] : g[0] = 0 /\ \A i \in 1 .. n : g[i] = next[<<i, g[i - 1]>>]
      <3>1. n \in Nat /\ 0 \in Nat
        BY <1>1
      <3> HIDE DEF next
      <3> QED
        BY <2>1, <3>1, RecursionExists, ZenonT(30)
    <2>3. \A i \in 1 .. n : g[i - 1] \in Nat
      BY <1>1
    <2>4. \A i \in 1 .. n : g[i] = Loss(g[i - 1], hops[i])
      BY <2>2, <2>3
    <2>5. \A i \in 0 .. n : i # 0 => i \in 1 .. n
      BY <1>1
    <2>6. \A i \in 0 .. n : g[i] = IF i = 0 THEN 0 ELSE Loss(g[i - 1], hops[i])
      BY <2>2, <2>4, <2>5
    <2>7. g = Step(g)
      BY <2>6
    <2> QED
      BY <2>7
  <1> DEFINE f == Losses(hops)
  <1>3. f = Step(f)
    BY <1>2 DEF Losses, n
  <1> HIDE DEF f
  <1>4. /\ DOMAIN f = 0 .. n
        /\ f[0] = 0
        /\ \A i \in 1 .. n : f[i] = Loss(f[i - 1], hops[i])
    BY <1>1, <1>3
  <1>5. \A i \in 0 .. n : f[i] \in Nat
    <2> DEFINE S == {k \in 0 .. n : f[k] \in Nat}
    <2>1. 0 \in S
      BY <1>1, <1>4
    <2>2. ASSUME NEW k \in 0 .. n - 1, k \in S PROVE k + 1 \in S
      <3>1. k + 1 \in 1 .. n /\ (k + 1) - 1 = k /\ f[k] \in Nat
        BY <1>1, <2>2
      <3>2. f[k + 1] = Loss(f[k], hops[k + 1])
        BY <1>4, <3>1
      <3> QED
        BY <1>1, <3>1, <3>2, LossType
    <2> HIDE DEF S
    <2>3. 0 .. n \subseteq S
      BY <1>1, <2>1, <2>2, UpTo
    <2> QED
      BY <2>3 DEF S
  <1>6. f = [i \in 0 .. n |-> f[i]]
    BY <1>3
  <1> QED
    BY <1>4, <1>5, <1>6 DEF f, n

\* One more hop on amounts between two curves N x / (B + C x): the exact swap
\* of such a curve is one, and the floored swap stays within Loss below it.
LEMMA SwapOfCurve ==
    ASSUME NEW a \in Nat, NEW e \in Nat, NEW hop \in (Nat \ {0}) \X (Nat \ {0}),
           NEW M \in Nat, NEW D \in Nat \ {0},
           a * D <= M, M <= (a + e) * D
    PROVE  LET p == FeeFactor
               q == hop[2]
               r == hop[1] * FeeScale
               b == AmountOut(a, hop)
           IN  /\ b * (r * D + p * M) <= p * q * M
               /\ p * q * M <= (b + Loss(e, hop)) * (r * D + p * M)
  <1> DEFINE p == FeeFactor
             q == hop[2]
             r == hop[1] * FeeScale
             b == AmountOut(a, hop)
             l == Loss(e, hop) - 1
             s == b + Loss(e, hop)
             u == a + e
  <1>1. p \in Nat /\ q \in Nat \ {0} /\ r \in Nat \ {0}
    <2>1. FeeFactor \in Nat /\ FeeScale \in Nat \ {0}
      BY OptimizerAssumption
    <2>2. hop[1] \in Nat \ {0} /\ hop[2] \in Nat \ {0}
      OBVIOUS
    <2> QED
      BY <2>1, <2>2
  <1>2. b \in Nat /\ b * (r + a * p) <= a * p * q /\ a * p * q < (b + 1) * (r + a * p)
    <2>1. a * p \in Nat /\ a * p * q \in Nat /\ r + a * p \in Nat \ {0}
      BY <1>1
    <2>2. b = (a * p * q) \div (r + a * p)
      BY DEF AmountOut
    <2> DEFINE w == r + a * p
               v == a * p * q
    <2>3. w \in Nat \ {0} /\ v \in Nat /\ b = v \div w
      BY <2>1, <2>2
    <2> HIDE DEF w, v, b, p, q, r
    <2>4. b \in Nat /\ w * b <= v /\ v < w * b + w
      BY <2>3, DivBounds
    <2>5. w * b = b * w /\ (b + 1) * w = b * w + w
      BY <2>3, <2>4
    <2>6. b \in Nat /\ b * w <= v /\ v < (b + 1) * w
      BY <2>4, <2>5
    <2> QED
      BY <2>6 DEF w, v
  <1>3. l \in Nat /\ e * p * q <= l * r /\ s = b + 1 + l /\ s \in Nat \ {0} /\ u \in Nat
    <2>1. Loss(e, hop) \in Nat \ {0} /\ e * FeeFactor * hop[2] <= (Loss(e, hop) - 1) * (hop[1] * FeeScale)
      BY LossType
    <2>2. l \in Nat /\ Loss(e, hop) = l + 1
      BY <2>1
    <2> HIDE DEF l, b
    <2> QED
      BY <1>2, <2>1, <2>2 DEF l
  <1>4. a * D <= M /\ M <= u * D
    OBVIOUS
  <1> HIDE DEF p, q, r, b, l, s, u
  <1>5. b <= q
    <2>1. SUFFICES ASSUME b > q PROVE FALSE
      BY <1>1, <1>2
    <2>2. b * r + b * (a * p) <= (a * p) * q
      BY <1>1, <1>2
    <2>3. a * p \in Nat
      BY <1>1
    <2>4. (a * p) * q <= b * (a * p)
      BY <1>1, <1>2, <2>1, <2>3
    <2>5. b * r > 0
      BY <1>1, <1>2, <2>1
    <2> QED
      BY <1>1, <1>2, <2>2, <2>3, <2>4, <2>5
  <1>6. b * (r * D + p * M) <= p * q * M
    <2> DEFINE k == q - b
    <2>1. k \in Nat /\ q = b + k
      BY <1>1, <1>2, <1>5
    <2> HIDE DEF k
    <2>2. b * r <= a * p * k
      BY <1>1, <1>2, <2>1
    <2>3. b * r * D <= a * p * k * D
      <3>1. b * r \in Nat /\ a * p * k \in Nat
        BY <1>1, <1>2, <2>1
      <3> QED
        BY <2>2, <3>1
    <2>4. a * D * (p * k) <= M * (p * k)
      <3>1. p * k \in Nat /\ a * D \in Nat
        BY <1>1, <2>1
      <3> QED
        BY <1>4, <3>1
    <2>5. a * p * k * D = a * D * (p * k)
      BY <1>1, <2>1
    <2>6. b * (r * D + p * M) = b * r * D + b * p * M
      BY <1>1, <1>2
    <2>7. p * q * M = b * p * M + M * (p * k)
      BY <1>1, <1>2, <2>1
    <2> QED
      BY <1>1, <1>2, <2>1, <2>3, <2>4, <2>5, <2>6, <2>7
  <1>7. u * p * q <= s * (r + u * p)
    <2>1. u * p * q = a * p * q + e * p * q
      BY <1>1 DEF u
    <2>2. s * (r + u * p) = (b + 1) * (r + a * p) + l * r + l * (a * p) + s * (e * p)
      BY <1>1, <1>2, <1>3 DEF u
    <2>3. l * (a * p) \in Nat /\ s * (e * p) \in Nat
      BY <1>1, <1>2, <1>3
    <2> QED
      BY <1>1, <1>2, <1>3, <2>1, <2>2, <2>3
  <1>8. p * q * M <= s * (r * D + p * M)
    <2>1. CASE s >= q
      <3>1. p * M \in Nat /\ s * (r * D) \in Nat
        BY <1>1, <1>3
      <3>2. q * (p * M) <= s * (p * M)
        BY <1>1, <1>3, <2>1, <3>1
      <3>3. s * (r * D + p * M) = s * (r * D) + s * (p * M) /\ p * q * M = q * (p * M)
        BY <1>1, <1>3
      <3> QED
        BY <1>1, <1>3, <3>1, <3>2, <3>3
    <2>2. CASE s < q
      <3> DEFINE k == q - s
      <3>1. k \in Nat /\ q = s + k
        BY <1>1, <1>3, <2>2
      <3> HIDE DEF k
      <3>2. u * p * k <= s * r
        BY <1>1, <1>3, <1>7, <3>1
      <3>3. u * p * k * D <= s * r * D
        <4>1. u * p * k \in Nat /\ s * r \in Nat
          BY <1>1, <1>3, <3>1
        <4> QED
          BY <3>2, <4>1
      <3>4. M * (p * k) <= u * D * (p * k)
        <4>1. p * k \in Nat /\ u * D \in Nat
          BY <1>1, <1>3, <3>1
        <4> QED
          BY <1>4, <4>1
      <3>5. u * p * k * D = u * D * (p * k)
        BY <1>1, <1>3, <3>1
      <3>6. s * (r * D + p * M) = s * r * D + s * p * M
        BY <1>1, <1>3
      <3>7. p * q * M = s * p * M + M * (p * k)
        BY <1>1, <1>3, <3>1
      <3> QED
        BY <1>1, <1>3, <3>1, <3>3, <3>4, <3>5, <3>6, <3>7
    <2> QED
      BY <1>1, <1>3, <2>1, <2>2
  <1> QED
    BY <1>6, <1>8 DEF p, q, r, b, s

\* What an amount is quoted with is a natural number, and the quote itself
\* unless that is zero.
LEMMA OutputType ==
    ASSUME path \in [hops : Cycles, limit : Limits], NEW in \in Nat
    PROVE  /\ Output(in) \in Nat
           /\ Output(in) # 0 => Output(in) = Quote(in)
           /\ Profit(in) \in Nat
           /\ Profit(in) > 0 => Output(in) > in
  <1>1. CASE in > path.limit
    <2>1. Quote(in) = None
      BY <1>1 DEF Quote
    <2>2. Output(in) = 0
      BY <2>1 DEF Output
    <2> QED
      BY <2>2 DEF Profit
  <1>2. CASE ~(in > path.limit)
    <2>1. path.hops \in Cycles /\ Len(path.hops) \in Nat
      BY OptimizerAssumption
    <2>2. Amounts(path.hops, in)[Len(path.hops)] \in Nat
      <3>1. Amounts(path.hops, in) \in [0 .. Len(path.hops) -> Nat]
        BY <2>1, AmountsType
      <3>2. Len(path.hops) \in 0 .. Len(path.hops)
        BY <2>1
      <3> HIDE DEF Amounts
      <3> QED
        BY <3>1, <3>2
    <2>3. Quote(in) \in Nat /\ Quote(in) # None
      BY <1>2, <2>2 DEF Quote, None
    <2>4. Output(in) = Quote(in)
      BY <2>3 DEF Output
    <2> QED
      BY <2>3, <2>4 DEF Profit
  <1> QED
    BY <1>1, <1>2

\* The selected provider is one whose fee is known.
LEMMA SelectedKnown ==
    ASSUME NEW r \in Routings PROVE Selected(r) = "none" \/ Known(Selected(r))
  <1> DEFINE C == Candidates(r)
             fee(i) == ProviderFees[Listed(r)[i]]
  <1>1. r \in RoutingRecords /\ Known("AaveV3")
    BY OptimizerAssumption DEF Known
  <1>2. C \subseteq Nat /\ (\A i \in C : Known(Listed(r)[i]) /\ fee(i) \in Nat)
    <2>1. Listed(r) \in Seq(STRING)
      BY <1>1 DEF RoutingRecords, Listed
    <2>2. DOMAIN Listed(r) \subseteq Nat
      BY <2>1
    <2> QED
      BY <2>2, OptimizerAssumption DEF Candidates, Known
  <1>3. ASSUME C # {} PROVE Min(C) \in C
    <2> HIDE DEF C
    <2> QED
      BY <1>2, <1>3, LeastNatural DEF Min
  <1>4. ASSUME C # {} PROVE Min(Cheapest(r)) \in C
    <2>1. PICK low \in {fee(i) : i \in C} : \A x \in {fee(i) : i \in C} : low <= x
      <3> HIDE DEF fee, C
      <3>1. {fee(i) : i \in C} # {} /\ {fee(i) : i \in C} \subseteq Nat
        BY <1>2, <1>4
      <3> QED
        BY <3>1, LeastNatural
    <2>2. Cheapest(r) = {i \in C : \A j \in C : fee(i) <= fee(j)}
      BY DEF Cheapest
    <2> HIDE DEF fee, C
    <2>3. Cheapest(r) # {} /\ Cheapest(r) \subseteq C
      BY <2>1, <2>2
    <2>4. Min(Cheapest(r)) \in Cheapest(r)
      BY <1>2, <2>3, LeastNatural DEF Min
    <2> QED
      BY <2>3, <2>4
  <1>5. CASE ~r.use
    BY <1>5 DEF Selected
  <1>6. CASE r.use /\ C = {}
    BY <1>1, <1>6 DEF Selected
  <1>7. CASE r.use /\ C # {} /\ r.dynamic
    BY <1>2, <1>4, <1>7 DEF Selected
  <1>8. CASE r.use /\ C # {} /\ ~r.dynamic
    BY <1>2, <1>3, <1>8 DEF Selected
  <1>9. r.use \in BOOLEAN /\ r.dynamic \in BOOLEAN
    BY <1>1 DEF RoutingRecords
  <1> QED
    BY <1>5, <1>6, <1>7, <1>8, <1>9

\* Every possible lender has a fee.
LEMMA FeeType ==
    ASSUME NEW r \in Routings, NEW lender \in Lenders(r) \cup {Selected(r)}
    PROVE  FeeBps(lender) \in Nat
  <1>1. lender = "none" \/ Known(lender)
    BY SelectedKnown, OptimizerAssumption DEF Lenders, Known
  <1> QED
    BY <1>1, OptimizerAssumption DEF FeeBps, Known

-----------------------------------------------------------------------------
(* The shape of a quote *)

\* The quotes of a path run along a curve N x / (B + C x), up to Losses below
\* it, after each of its hops.
Along(hops, i, N, B, C) ==
    \A x \in Nat :
        /\ Amounts(hops, x)[i] * (B + C * x) <= N * x
        /\ N * x <= (Amounts(hops, x)[i] + Losses(hops)[i]) * (B + C * x)

LEMMA SwapAlong ==
    ASSUME NEW hops \in Cycles, NEW i \in 0 .. Len(hops) - 1,
           NEW N \in Nat, NEW B \in Nat \ {0}, NEW C \in Nat, Along(hops, i, N, B, C)
    PROVE  \E n \in Nat, b \in Nat \ {0}, c \in Nat : Along(hops, i + 1, n, b, c)
  <1> DEFINE hop == hops[i + 1]
             p == FeeFactor
             q == hop[2]
             r == hop[1] * FeeScale
             n == p * q * N
             b == r * B
             c == r * C + p * N
  <1>1. Len(hops) \in Nat /\ i + 1 \in 1 .. Len(hops) /\ i \in 0 .. Len(hops) /\ (i + 1) - 1 = i
    BY HopsType
  <1>2. hop \in (Nat \ {0}) \X (Nat \ {0})
    BY <1>1, HopsType
  <1>3. p \in Nat /\ q \in Nat /\ r \in Nat \ {0}
    <2>1. FeeFactor \in Nat /\ FeeScale \in Nat \ {0}
      BY OptimizerAssumption
    <2>2. hop[1] \in Nat \ {0} /\ hop[2] \in Nat \ {0}
      BY <1>2
    <2> HIDE DEF hop
    <2> QED
      BY <2>1, <2>2
  <1>4. Losses(hops)[i] \in Nat /\ Losses(hops)[i + 1] = Loss(Losses(hops)[i], hop)
    BY <1>1, LossesType
  <1>5. n \in Nat /\ b \in Nat \ {0} /\ c \in Nat
    <2> HIDE DEF p, q, r
    <2>1. p * q \in Nat /\ r * B \in Nat \ {0} /\ r * C \in Nat /\ p * N \in Nat
      BY <1>3
    <2> QED
      BY <2>1
  <1>6. ASSUME NEW x \in Nat
        PROVE  /\ Amounts(hops, x)[i + 1] * (b + c * x) <= n * x
               /\ n * x <= (Amounts(hops, x)[i + 1] + Losses(hops)[i + 1]) * (b + c * x)
    <2> DEFINE a == Amounts(hops, x)[i]
               e == Losses(hops)[i]
               M == N * x
               D == B + C * x
    <2>1. a \in Nat /\ Amounts(hops, x)[i + 1] = AmountOut(a, hop)
      <3> DEFINE f == Amounts(hops, x)
      <3>1. /\ f \in [0 .. Len(hops) -> Nat]
            /\ \A j \in 1 .. Len(hops) : f[j] = AmountOut(f[j - 1], hops[j])
        BY AmountsType
      <3> HIDE DEF f
      <3>2. f[i] \in Nat /\ f[i + 1] = AmountOut(f[i], hops[i + 1])
        BY <1>1, <3>1
      <3> QED
        BY <3>2 DEF f
    <2>2. M \in Nat /\ C * x \in Nat /\ D \in Nat \ {0}
      BY <1>3
    <2>3. a * D <= M /\ M <= (a + e) * D
      BY DEF Along
    <2> HIDE DEF a, e, hop
    <2>4. /\ AmountOut(a, hop) * (r * D + p * M) <= p * q * M
          /\ p * q * M <= (AmountOut(a, hop) + Loss(e, hop)) * (r * D + p * M)
      <3> HIDE DEF M, D
      <3> QED
        BY <1>2, <1>4, <2>1, <2>2, <2>3, SwapOfCurve DEF e
    <2> HIDE DEF p, q, r
    <2>5. r * D + p * M = b + c * x /\ p * q * M = n * x
      BY <1>3
    <2> QED
      BY <1>4, <2>1, <2>4, <2>5 DEF e
  <1>7. Along(hops, i + 1, n, b, c)
    BY <1>6 DEF Along
  <1> HIDE DEF n, b, c
  <1> QED
    BY <1>5, <1>7

LEMMA QuotesAlong ==
    ASSUME NEW hops \in Cycles
    PROVE  \E N \in Nat, B \in Nat \ {0}, C \in Nat : Along(hops, Len(hops), N, B, C)
  <1> DEFINE Shaped(i) == \E N \in Nat, B \in Nat \ {0}, C \in Nat : Along(hops, i, N, B, C)
             S == {i \in 0 .. Len(hops) : Shaped(i)}
  <1>1. Len(hops) \in Nat
    BY HopsType
  <1>2. Along(hops, 0, 1, 1, 0)
    <2>1. ASSUME NEW x \in Nat PROVE Amounts(hops, x)[0] = x /\ Losses(hops)[0] = 0
      BY AmountsType, LossesType
    <2>2. ASSUME NEW x \in Nat PROVE x * (1 + 0 * x) <= 1 * x /\ 1 * x <= (x + 0) * (1 + 0 * x)
      OBVIOUS
    <2> QED
      BY <2>1, <2>2 DEF Along
  <1>3. Shaped(0)
    BY <1>2
  <1>4. ASSUME NEW i \in 0 .. Len(hops) - 1, Shaped(i) PROVE Shaped(i + 1)
    BY <1>4, SwapAlong
  <1> HIDE DEF Shaped
  <1>5. 0 \in S /\ \A i \in 0 .. Len(hops) - 1 : i \in S => i + 1 \in S
    BY <1>1, <1>3, <1>4
  <1> HIDE DEF S
  <1>6. 0 .. Len(hops) \subseteq S
    BY <1>1, <1>5, UpTo
  <1>7. Shaped(Len(hops))
    BY <1>1, <1>6 DEF S
  <1> QED
    BY <1>7 DEF Shaped

\* Such a curve is concave.
LEMMA CurveConcave ==
    ASSUME NEW N \in Nat, NEW B \in Nat \ {0}, NEW C \in Nat,
           NEW x \in Nat, NEW s \in Nat \ {0}, NEW t \in Nat \ {0},
           NEW fx \in Nat, NEW fy \in Nat, NEW fz \in Nat,
           fx * (B + C * x) <= N * x,
           N * (x + s) <= fy * (B + C * (x + s)),
           fz * (B + C * (x + s + t)) <= N * (x + s + t)
    PROVE  fx * t + fz * s <= fy * (s + t)
  <1> DEFINE y == x + s
             z == x + s + t
             X == B + C * x
             Y == B + C * y
             Z == B + C * z
  <1>1. y \in Nat /\ z \in Nat
    OBVIOUS
  <1>2. X \in Nat \ {0} /\ Y \in Nat \ {0} /\ Z \in Nat \ {0}
    <2>1. C * x \in Nat /\ C * y \in Nat /\ C * z \in Nat
      BY <1>1
    <2> HIDE DEF y, z
    <2> QED
      BY <2>1
  <1>3. fx * X <= N * x /\ N * y <= fy * Y /\ fz * Z <= N * z
    OBVIOUS
  <1>4. N * y * (s + t) * X * Z
          = N * x * t * Y * Z + N * z * s * X * Y + N * B * C * s * t * (s + t)
    OBVIOUS
  <1> HIDE DEF X, Y, Z, y, z
  <1> DEFINE K == X * Y * Z
  <1>5. K \in Nat \ {0}
    <2>1. X * Y \in Nat \ {0}
      BY <1>2
    <2> QED
      BY <1>2, <2>1
  <1>6. fx * t * K <= N * x * t * Y * Z
    <2>1. t * Y * Z \in Nat /\ fx * X \in Nat /\ N * x \in Nat
      <3>1. t * Y \in Nat
        BY <1>2
      <3> QED
        BY <1>2, <3>1
    <2>2. (fx * X) * (t * Y * Z) <= (N * x) * (t * Y * Z)
      BY <1>3, <2>1
    <2>3. (fx * X) * (t * Y * Z) = fx * t * K /\ (N * x) * (t * Y * Z) = N * x * t * Y * Z
      BY <1>2
    <2> QED
      BY <2>2, <2>3
  <1>7. fz * s * K <= N * z * s * X * Y
    <2>1. s * X * Y \in Nat /\ fz * Z \in Nat /\ N * z \in Nat
      <3>1. s * X \in Nat
        BY <1>2
      <3> QED
        BY <1>1, <1>2, <3>1
    <2>2. (fz * Z) * (s * X * Y) <= (N * z) * (s * X * Y)
      BY <1>3, <2>1
    <2>3. (fz * Z) * (s * X * Y) = fz * s * K /\ (N * z) * (s * X * Y) = N * z * s * X * Y
      BY <1>1, <1>2
    <2> QED
      BY <2>2, <2>3
  <1>8. N * y * (s + t) * X * Z <= fy * (s + t) * K
    <2>1. (s + t) * X * Z \in Nat /\ fy * Y \in Nat /\ N * y \in Nat
      <3>1. (s + t) * X \in Nat
        BY <1>2
      <3> QED
        BY <1>1, <1>2, <3>1
    <2>2. (N * y) * ((s + t) * X * Z) <= (fy * Y) * ((s + t) * X * Z)
      BY <1>3, <2>1
    <2>3. (fy * Y) * ((s + t) * X * Z) = fy * (s + t) * K
          /\ (N * y) * ((s + t) * X * Z) = N * y * (s + t) * X * Z
      BY <1>1, <1>2
    <2> QED
      BY <2>2, <2>3
  <1>9. N * B * C * s * t * (s + t) \in Nat
    <2>1. N * B \in Nat
      OBVIOUS
    <2>2. N * B * C \in Nat
      BY <2>1
    <2>3. N * B * C * s \in Nat
      BY <2>2
    <2>4. N * B * C * s * t \in Nat
      BY <2>3
    <2> QED
      BY <2>4
  <1> DEFINE l == fx * t + fz * s
             h == fy * (s + t)
  <1>10. l \in Nat /\ h \in Nat
    OBVIOUS
  <1>11. l * K <= h * K
    <2>1. l * K = fx * t * K + fz * s * K
      BY <1>5
    <2> DEFINE v1 == fx * t * K
               v2 == fz * s * K
               v3 == N * x * t * Y * Z
               v4 == N * z * s * X * Y
               v5 == N * B * C * s * t * (s + t)
               v6 == N * y * (s + t) * X * Z
               v7 == fy * (s + t) * K
    <2>2. v1 <= v3 /\ v2 <= v4 /\ v6 = v3 + v4 + v5 /\ v6 <= v7 /\ v5 >= 0
      BY <1>4, <1>6, <1>7, <1>8, <1>9
    <2>3. v1 \in Int /\ v2 \in Int /\ v3 \in Int /\ v4 \in Int /\ v5 \in Int /\ v6 \in Int /\ v7 \in Int
      BY <1>1, <1>2, <1>5
    <2> HIDE DEF v1, v2, v3, v4, v5, v6, v7, K
    <2>4. v1 + v2 <= v7
      BY <2>2, <2>3
    <2> QED
      BY <2>1, <2>4 DEF v1, v2, v7
  <1> HIDE DEF l, h, K
  <1>12. l <= h
    <2>1. SUFFICES ASSUME h + 1 <= l PROVE FALSE
      BY <1>10
    <2>2. (h + 1) * K <= l * K
      BY <1>5, <1>10, <2>1
    <2>3. (h + 1) * K = h * K + K /\ h * K \in Nat /\ l * K \in Nat
      BY <1>5, <1>10
    <2> QED
      BY <1>5, <1>11, <2>2, <2>3
  <1> QED
    BY <1>12 DEF l, h

\* The profits of a path, by amount, and what it is about their shape that the
\* search relies on: up to e the profit at y is not below the straight line
\* between those at x and z, where these are real (or x is zero).
Gain == [in \in Nat |-> Profit(in)]

NearConcave(P, e) ==
    /\ P \in [Nat -> Nat] /\ e \in Nat /\ P[0] = 0
    /\ \A x, y, z \in Nat :
         x < y /\ y < z /\ P[z] > 0 /\ (x = 0 \/ P[x] > 0) =>
             P[x] * (z - y) + P[z] * (y - x) <= (P[y] + e) * (z - x)

LEMMA GainNearConcave ==
    ASSUME path \in [hops : Cycles, limit : Limits]
    PROVE  NearConcave(Gain, Rounding)
  <1> DEFINE hops == path.hops
             last == Len(hops)
             e == Losses(hops)[last]
             A == [x \in Nat |-> Amounts(hops, x)[last]]
             P == Gain
  <1>1. hops \in Cycles /\ last \in Nat /\ last \in 0 .. last /\ path.limit \in Nat
    BY HopsType, OptimizerAssumption
  <1>2. PICK N \in Nat, B \in Nat \ {0}, C \in Nat : Along(hops, last, N, B, C)
    BY <1>1, QuotesAlong
  <1>3. A \in [Nat -> Nat]
    BY <1>1, AmountsType
  <1>4. e \in Nat /\ e = Rounding
    BY <1>1, LossesType DEF Rounding
  <1>5. ASSUME NEW x \in Nat
        PROVE  A[x] * (B + C * x) <= N * x /\ N * x <= (A[x] + e) * (B + C * x)
    BY <1>2 DEF Along
  <1>6. ASSUME NEW x \in Nat
        PROVE  /\ P[x] = Profit(x) /\ P[x] \in Nat
               /\ P[x] > 0 => x <= path.limit /\ A[x] = x + P[x]
               /\ x <= path.limit => A[x] <= x + P[x]
    <2>1. A[x] \in Nat /\ A[x] = Amounts(path.hops, x)[Len(path.hops)]
      BY <1>3
    <2>2. P[x] = Profit(x)
      BY DEF Gain
    <2> HIDE DEF A, P
    <2>3. CASE x > path.limit
      <3>1. Output(x) = 0
        BY <2>3 DEF Output, Quote
      <3>2. Profit(x) = 0
        BY <3>1 DEF Profit
      <3> QED
        BY <1>1, <2>2, <2>3, <3>2
    <2>4. CASE x <= path.limit
      <3>1. Quote(x) = A[x]
        BY <1>1, <2>1, <2>4 DEF Quote
      <3>2. Output(x) = A[x]
        BY <2>1, <3>1 DEF Output, None
      <3> QED
        BY <2>1, <2>2, <2>4, <3>2 DEF Profit
    <2> QED
      BY <1>1, <2>3, <2>4
  <1>7. A[0] = 0 /\ P[0] = 0
    <2>1. A[0] \in Nat /\ A[0] * (B + C * 0) <= N * 0
      BY <1>3, <1>5
    <2>2. A[0] = 0
      <3> HIDE DEF A
      <3> QED
        BY <2>1
    <2>3. P[0] \in Nat /\ (P[0] > 0 => A[0] = 0 + P[0])
      BY <1>6
    <2> HIDE DEF A, P
    <2> QED
      BY <2>2, <2>3
  <1> HIDE DEF hops, last, e, A, P
  <1>8. ASSUME NEW x \in Nat, NEW y \in Nat, NEW z \in Nat,
               x < y, y < z, P[z] > 0, x = 0 \/ P[x] > 0
        PROVE  P[x] * (z - y) + P[z] * (y - x) <= (P[y] + e) * (z - x)
    <2> DEFINE s == y - x
               t == z - y
               fx == x + P[x]
               fy == y + P[y] + e
               fz == z + P[z]
    <2>1. s \in Nat \ {0} /\ t \in Nat \ {0} /\ y = x + s /\ z = x + s + t /\ z - x = s + t
      BY <1>8
    <2>2. P[x] \in Nat /\ P[y] \in Nat /\ P[z] \in Nat
      BY <1>6
    <2>3. fx * (B + C * x) <= N * x
      <3>1. A[x] = fx
        BY <1>6, <1>7, <1>8
      <3> QED
        BY <1>5, <3>1
    <2>4. fz * (B + C * z) <= N * z
      <3>1. A[z] = fz
        BY <1>6, <1>8
      <3> QED
        BY <1>5, <3>1
    <2>5. N * y <= fy * (B + C * y)
      <3>1. z <= path.limit
        BY <1>6, <1>8
      <3>2. A[y] <= y + P[y]
        BY <1>1, <1>6, <1>8, <3>1
      <3>3. A[y] \in Nat
        BY <1>3
      <3> DEFINE D == B + C * y
                 g == A[y] + e
      <3>4. D \in Nat /\ g \in Nat /\ fy \in Nat /\ g <= fy
        BY <1>4, <2>2, <3>2, <3>3
      <3>5. N * y <= g * D
        BY <1>5
      <3> HIDE DEF D, g, fy
      <3>6. g * D <= fy * D
        BY <3>4
      <3>7. N * y \in Nat /\ g * D \in Nat /\ fy * D \in Nat
        BY <3>4
      <3> QED
        BY <3>5, <3>6, <3>7 DEF D
    <2>6. fx \in Nat /\ fy \in Nat /\ fz \in Nat
      BY <1>4, <2>2
    <2>7. fx * t + fz * s <= fy * (s + t)
      <3> HIDE DEF s, t, fx, fy, fz
      <3> QED
        BY <2>1, <2>3, <2>4, <2>5, <2>6, CurveConcave
    <2> DEFINE px == P[x]
               py == P[y]
               pz == P[z]
    <2>8. fx = x + px /\ fy = x + s + py + e /\ fz = x + s + t + pz
      BY <2>1
    <2>9. px \in Nat /\ py \in Nat /\ pz \in Nat
      BY <2>2
    <2> HIDE DEF s, t, fx, fy, fz, px, py, pz
    <2>10. fx * t + fz * s = px * t + pz * s + (x + s) * (s + t)
      BY <2>1, <2>8, <2>9
    <2>11. fy * (s + t) = (py + e) * (s + t) + (x + s) * (s + t)
      BY <1>4, <2>1, <2>8, <2>9
    <2>12. px * t + pz * s <= (py + e) * (s + t)
      <3> DEFINE v1 == px * t + pz * s
                 v2 == (py + e) * (s + t)
                 v3 == (x + s) * (s + t)
      <3>1. v1 \in Int /\ v2 \in Int /\ v3 \in Int /\ v1 + v3 <= v2 + v3
        BY <1>4, <2>1, <2>7, <2>9, <2>10, <2>11
      <3> HIDE DEF v1, v2, v3
      <3>2. v1 <= v2
        BY <3>1
      <3> QED
        BY <3>2 DEF v1, v2
    <2> QED
      BY <2>1, <2>12 DEF s, t, px, py, pz
  <1>9. P \in [Nat -> Nat]
    BY <1>6 DEF P, Gain
  <1>10. NearConcave(P, e)
    BY <1>4, <1>7, <1>8, <1>9 DEF NearConcave
  <1> QED
    BY <1>4, <1>10 DEF P

LEMMA Cancel ==
    ASSUME NEW a \in Nat, NEW b \in Nat, NEW e \in Nat, NEW w \in Nat, NEW k \in Nat,
           NEW m \in Nat \ {0}, a * m <= b * m + e * w, w <= k * m
    PROVE  a <= b + e * k
  <1>1. SUFFICES ASSUME a >= b + e * k + 1 PROVE FALSE
    <2>1. e * k \in Nat
      OBVIOUS
    <2> QED
      BY <2>1
  <1>2. e * w <= e * (k * m)
    OBVIOUS
  <1> DEFINE c == b + e * k + 1
  <1>3. c \in Nat /\ c * m = b * m + e * (k * m) + m
    <2>1. e * k \in Nat
      OBVIOUS
    <2> QED
      BY <2>1
  <1>4. c * m <= a * m
    <2> HIDE DEF c
    <2> QED
      BY <1>1, <1>3 DEF c
  <1>5. a * m \in Nat /\ b * m \in Nat /\ e * w \in Nat /\ e * (k * m) \in Nat /\ c * m \in Nat
    BY <1>3
  <1> HIDE DEF c
  <1> QED
    BY <1>2, <1>3, <1>4, <1>5

\* From no amount, no profit: profits grow at most as the amounts do.
LEMMA FromZero ==
    ASSUME NEW P, NEW e, NearConcave(P, e), NEW y \in Nat \ {0}, NEW z \in Nat, y <= z
    PROVE  P[z] * y <= (P[y] + e) * z
  <1>1. P[y] \in Nat /\ P[z] \in Nat /\ e \in Nat /\ P[0] = 0
    BY DEF NearConcave
  <1>2. CASE P[z] = 0 \/ y = z
    <2>1. (P[y] + e) * z = P[y] * z + e * z /\ P[y] * z \in Nat /\ e * z \in Nat
      BY <1>1
    <2>2. P[z] * y = 0 \/ P[z] * y = P[y] * z
      BY <1>1, <1>2
    <2> QED
      BY <2>1, <2>2
  <1>3. CASE P[z] > 0 /\ y < z
    <2>1. P[0] * (z - y) + P[z] * (y - 0) <= (P[y] + e) * (z - 0)
      BY <1>3 DEF NearConcave
    <2> QED
      BY <1>1, <2>1
  <1> QED
    BY <1>1, <1>2, <1>3

\* Beyond an amount that earns no more than a smaller one, none earns more.
LEMMA Beyond ==
    ASSUME NEW P, NEW e, NearConcave(P, e), NEW x \in Nat, NEW y \in Nat, NEW z \in Nat,
           x < y, y <= z, P[y] <= P[x], P[x] > 0,
           NEW k \in Nat, z - x <= k * (y - x)
    PROVE  P[z] <= P[x] + e * k
  <1>1. P[x] \in Nat /\ P[y] \in Nat /\ P[z] \in Nat /\ e \in Nat
    BY DEF NearConcave
  <1>2. CASE P[z] = 0 \/ y = z
    <2>1. e * k \in Nat /\ P[z] <= P[x]
      BY <1>1, <1>2
    <2> QED
      BY <1>1, <2>1
  <1>3. CASE P[z] > 0 /\ y < z
    <2>1. P[x] * (z - y) + P[z] * (y - x) <= (P[y] + e) * (z - x)
      BY <1>3 DEF NearConcave
    <2> DEFINE px == P[x]
               py == P[y]
               pz == P[z]
               s == y - x
               t == z - y
    <2>2. /\ px \in Nat /\ py \in Nat /\ pz \in Nat /\ py <= px
          /\ s \in Nat \ {0} /\ t \in Nat /\ y - x = s /\ z - y = t /\ z - x = s + t
      BY <1>1, <1>3
    <2>3. px * t + pz * s <= (py + e) * (s + t) /\ s + t <= k * s
      BY <2>1, <2>2
    <2> HIDE DEF px, py, pz, s, t
    <2>4. (py + e) * (s + t) <= (px + e) * (s + t)
      BY <1>1, <2>2
    <2>5. (px + e) * (s + t) = px * t + px * s + e * (s + t)
      BY <1>1, <2>2
    <2>6. pz * s <= px * s + e * (s + t)
      BY <1>1, <2>2, <2>3, <2>4, <2>5
    <2>7. pz <= px + e * k
      <3>1. s + t \in Nat
        BY <2>2
      <3> QED
        BY <1>1, <2>2, <2>3, <2>6, <3>1, Cancel
    <2> QED
      BY <2>7 DEF px, pz
  <1> QED
    BY <1>1, <1>2, <1>3

\* Before an amount that earns no more than a larger one, none earns more.
LEMMA Before ==
    ASSUME NEW P, NEW e, NearConcave(P, e), NEW x \in Nat, NEW y \in Nat, NEW z \in Nat,
           x <= y, y < z, P[y] <= P[z], P[z] > 0,
           NEW k \in Nat, z - x <= k * (z - y)
    PROVE  P[x] <= P[z] + e * k
  <1>1. P[x] \in Nat /\ P[y] \in Nat /\ P[z] \in Nat /\ e \in Nat
    BY DEF NearConcave
  <1>2. CASE P[x] = 0 \/ x = y
    <2>1. e * k \in Nat /\ P[x] <= P[z]
      BY <1>1, <1>2
    <2> QED
      BY <1>1, <2>1
  <1>3. CASE P[x] > 0 /\ x < y
    <2>1. P[x] * (z - y) + P[z] * (y - x) <= (P[y] + e) * (z - x)
      BY <1>3 DEF NearConcave
    <2> DEFINE px == P[x]
               py == P[y]
               pz == P[z]
               s == y - x
               t == z - y
    <2>2. /\ px \in Nat /\ py \in Nat /\ pz \in Nat /\ py <= pz
          /\ s \in Nat /\ t \in Nat \ {0} /\ y - x = s /\ z - y = t /\ z - x = s + t
      BY <1>1, <1>3
    <2>3. px * t + pz * s <= (py + e) * (s + t) /\ s + t <= k * t
      BY <2>1, <2>2
    <2> HIDE DEF px, py, pz, s, t
    <2>4. (py + e) * (s + t) <= (pz + e) * (s + t)
      BY <1>1, <2>2
    <2>5. (pz + e) * (s + t) = pz * t + pz * s + e * (s + t)
      BY <1>1, <2>2
    <2>6. px * t <= pz * t + e * (s + t)
      BY <1>1, <2>2, <2>3, <2>4, <2>5
    <2>7. px <= pz + e * k
      <3>1. s + t \in Nat
        BY <2>2
      <3> QED
        BY <1>1, <2>2, <2>3, <2>6, <3>1, Cancel
    <2> QED
      BY <2>7 DEF px, pz
  <1> QED
    BY <1>1, <1>2, <1>3

\* Before an amount without profit that a profitable one follows, there is none
\* but by rounding.
LEMMA BeforeDip ==
    ASSUME NEW P, NEW e, NearConcave(P, e), NEW x \in Nat, NEW y \in Nat, NEW z \in Nat,
           x <= y, y < z, P[y] = 0, P[z] > 0,
           NEW k \in Nat, z - x <= k * (z - y)
    PROVE  P[x] <= e * k
  <1>1. P[x] \in Nat /\ P[y] \in Nat /\ P[z] \in Nat /\ e \in Nat
    BY DEF NearConcave
  <1>2. CASE P[x] = 0 \/ x = y
    <2>1. e * k \in Nat /\ P[x] = 0
      BY <1>1, <1>2
    <2> QED
      BY <2>1
  <1>3. CASE P[x] > 0 /\ x < y
    <2>1. P[x] * (z - y) + P[z] * (y - x) <= (0 + e) * (z - x)
      BY <1>3 DEF NearConcave
    <2> DEFINE px == P[x]
               m == z - y
               w == z - x
    <2>2. P[z] * (y - x) \in Nat
      BY <1>1, <1>3
    <2>3. px \in Nat /\ m \in Nat \ {0} /\ w \in Nat /\ w <= k * m
      BY <1>1, <1>3
    <2>4. px * m <= 0 * m + e * w
      BY <1>1, <2>1, <2>2, <2>3
    <2> HIDE DEF px, m, w
    <2>5. px <= 0 + e * k
      BY <1>1, <2>3, <2>4, Cancel
    <2>6. e * k \in Nat
      BY <1>1
    <2> QED
      BY <2>5, <2>6 DEF px
  <1> QED
    BY <1>1, <1>2, <1>3

-----------------------------------------------------------------------------
(* The bracket *)

\* Nothing earns more than m, but for the rounding allowed after k refinements
\* of the bracket that the probe q closed.
Allowance(e, q, k, x) == e * (2 + 2 * k + 2 * (x \div q))
Covers(P, e, q, k, m) == \A x \in Inputs : P[x] <= m + Allowance(e, q, k, x)

\* The bracket l..h holds an amount that nothing beats, or none is worth more
\* than some roundings.
HoldsPeak(P, e, l, h, q, k) ==
    \/ Covers(P, e, q, k, 6 * e)
    \/ \E y \in l .. h : Covers(P, e, q, k, P[y])

\* Where the left of the two inner points earns nothing, neither does, but for
\* rounding, what lies left of it.
InnerLeft(l, h) == l + ((h - l) \div 3)
DipIsSmall(P, e, l, h) ==
    P[InnerLeft(l, h)] = 0 => \A y \in l .. InnerLeft(l, h) : P[y] <= 6 * e

LEMMA InputsType ==
    /\ MinInput \in Nat \ {0} /\ MaxInput \in Nat /\ MinInput <= MaxInput
    /\ MinInput \in Inputs /\ MaxInput \in Inputs /\ Inputs \subseteq Nat
  BY OptimizerAssumption DEF Inputs

LEMMA AllowanceGrows ==
    ASSUME NEW e \in Nat, NEW q \in Nat \ {0}, NEW k \in Nat, NEW x \in Nat
    PROVE  /\ Allowance(e, q, k, x) \in Nat
           /\ Allowance(e, q, k + 1, x) = Allowance(e, q, k, x) + 2 * e
           /\ Allowance(e, q, k, x) >= 2 * e
  <1> DEFINE d == x \div q
  <1>1. d \in Nat
    BY DivBounds
  <1> HIDE DEF d
  <1>2. e * (2 + 2 * k + 2 * d) = 2 * e + e * (2 * k + 2 * d) /\ e * (2 * k + 2 * d) \in Nat
    BY <1>1
  <1>3. e * (2 + 2 * (k + 1) + 2 * d) = 4 * e + e * (2 * k + 2 * d)
    BY <1>1
  <1> QED
    BY <1>2, <1>3 DEF Allowance, d

LEMMA CoversMore ==
    ASSUME NEW P, NEW e, NearConcave(P, e), NEW q \in Nat \ {0}, NEW k \in Nat,
           NEW m \in Nat, NEW n \in Nat, m <= n + 2 * e, Covers(P, e, q, k, m)
    PROVE  Covers(P, e, q, k + 1, n)
  <1>1. SUFFICES ASSUME NEW x \in Inputs PROVE P[x] <= n + Allowance(e, q, k + 1, x)
    BY DEF Covers
  <1>2. P[x] \in Nat /\ e \in Nat /\ x \in Nat
    BY InputsType DEF NearConcave
  <1>3. /\ Allowance(e, q, k, x) \in Nat
        /\ Allowance(e, q, k + 1, x) = Allowance(e, q, k, x) + 2 * e
    BY <1>2, AllowanceGrows
  <1>4. P[x] <= m + Allowance(e, q, k, x)
    BY DEF Covers
  <1> QED
    BY <1>2, <1>3, <1>4

\* The refinement of l..h, of which a third is at least one: the two inner
\* points, and how the thirds compare.
LEMMA Thirds ==
    ASSUME NEW l \in Nat, NEW h \in Nat, l <= h, NEW t, t = (h - l) \div 3, t > 0
    PROVE  /\ t \in Nat \ {0} /\ InnerLeft(l, h) = l + t
           /\ l + t \in Nat /\ h - t \in Nat
           /\ l < l + t /\ l + t < h - t /\ h - t < h
           /\ 3 * t <= h - l /\ h - l <= 3 * t + 2
           /\ h <= 5 * (l + t)
  <1>1. h - l \in Nat
    OBVIOUS
  <1>2. t \in Nat /\ 3 * t <= h - l /\ h - l <= 3 * t + 2
    BY <1>1
  <1>3. InnerLeft(l, h) = l + t
    BY DEF InnerLeft
  <1> QED
    BY <1>2, <1>3

LEMMA InnerLeftType ==
    ASSUME NEW l \in Nat, NEW h \in Nat, l <= h
    PROVE  /\ InnerLeft(l, h) \in Nat /\ l <= InnerLeft(l, h) /\ InnerLeft(l, h) <= h
           /\ 3 * (InnerLeft(l, h) - l) <= h - l
           /\ h - l <= 3 * (InnerLeft(l, h) - l) + 2
  BY DEF InnerLeft

\* What a better left point z leaves: its profit bounds that of what precedes
\* the next left point.
LEMMA DipBefore ==
    ASSUME NEW P, NEW e, NearConcave(P, e), NEW l \in Nat, NEW h \in Nat, l <= h,
           NEW z \in Nat, P[z] > 0, InnerLeft(l, h) <= z,
           InnerLeft(l, h) < z => z - l <= 6 * (z - InnerLeft(l, h))
    PROVE  DipIsSmall(P, e, l, h)
  <1> DEFINE t == InnerLeft(l, h)
  <1>1. t \in Nat /\ l <= t /\ t <= z
    BY InnerLeftType
  <1>2. SUFFICES ASSUME P[t] = 0, NEW y \in l .. t PROVE P[y] <= 6 * e
    BY DEF DipIsSmall
  <1>3. t < z /\ z - l <= 6 * (z - t)
    BY <1>1, <1>2
  <1>4. y \in Nat /\ y <= t /\ l <= y
    BY <1>1
  <1> HIDE DEF t
  <1>5. z - y <= 6 * (z - t)
    BY <1>1, <1>3, <1>4
  <1>6. P[y] <= e * 6
    BY <1>1, <1>2, <1>3, <1>4, <1>5, BeforeDip
  <1> QED
    BY <1>6 DEF NearConcave

\* Refine keeps the peak in the bracket when the left point is the better one,
LEMMA DropRightThird ==
    ASSUME NEW P, NEW e, NearConcave(P, e), NEW l \in Nat, NEW h \in Nat, l <= h,
           NEW q \in Nat \ {0}, NEW k \in Nat, HoldsPeak(P, e, l, h, q, k),
           NEW t, t = (h - l) \div 3, t > 0, P[l + t] > P[h - t]
    PROVE  /\ HoldsPeak(P, e, l, h - t, q, k + 1)
           /\ DipIsSmall(P, e, l, h - t)
  <1>1. /\ t \in Nat \ {0} /\ l + t \in Nat /\ h - t \in Nat
        /\ l + t < h - t /\ h - t < h /\ 3 * t <= h - l /\ h - l <= 3 * t + 2
    BY Thirds
  <1>2. e \in Nat /\ P \in [Nat -> Nat]
    BY DEF NearConcave
  <1>3. P[l + t] \in Nat /\ P[h - t] \in Nat /\ P[l + t] > 0
    BY <1>1, <1>2
  <1>4. HoldsPeak(P, e, l, h - t, q, k + 1)
    <2>1. CASE Covers(P, e, q, k, 6 * e)
      <3>1. Covers(P, e, q, k + 1, 6 * e)
        BY <1>2, <2>1, CoversMore
      <3> QED
        BY <3>1 DEF HoldsPeak
    <2>2. ASSUME NEW y \in l .. h, Covers(P, e, q, k, P[y])
          PROVE  \E w \in l .. h - t : Covers(P, e, q, k + 1, P[w])
      <3>1. y \in Nat /\ P[y] \in Nat
        BY <1>2
      <3>2. CASE y <= h - t
        <4>1. y \in l .. h - t
          BY <1>1, <3>1, <3>2
        <4>2. Covers(P, e, q, k + 1, P[y])
          BY <1>2, <2>2, <3>1, CoversMore
        <4> QED
          BY <4>1, <4>2
      <3>3. CASE y > h - t
        <4>1. y - (l + t) <= 2 * ((h - t) - (l + t))
          BY <1>1, <3>1
        <4>2. P[y] <= P[l + t] + e * 2
          <5> DEFINE c == l + t
                     d == h - t
          <5>1. /\ c \in Nat /\ d \in Nat /\ c < d /\ d <= y
                /\ P[d] <= P[c] /\ P[c] > 0 /\ y - c <= 2 * (d - c)
            BY <1>1, <1>3, <3>1, <3>3, <4>1
          <5> HIDE DEF c, d
          <5>2. P[y] <= P[c] + e * 2
            BY <3>1, <5>1, Beyond
          <5> QED
            BY <5>2 DEF c
        <4>3. Covers(P, e, q, k + 1, P[l + t])
          BY <1>2, <1>3, <2>2, <3>1, <4>2, CoversMore
        <4>4. l + t \in l .. h - t
          BY <1>1
        <4> QED
          BY <4>3, <4>4
      <3> QED
        BY <1>1, <3>1, <3>2, <3>3
    <2> QED
      BY <2>1, <2>2 DEF HoldsPeak
  <1>5. DipIsSmall(P, e, l, h - t)
    <2> DEFINE u == InnerLeft(l, h - t)
    <2>1. u \in Nat /\ l <= u /\ 3 * (u - l) <= (h - t) - l
      <3>1. h - t \in Nat /\ l <= h - t
        BY <1>1
      <3> QED
        BY <3>1, InnerLeftType
    <2> HIDE DEF u
    <2>2. u <= l + t /\ (u < l + t => (l + t) - l <= 6 * ((l + t) - u))
      BY <1>1, <2>1
    <2> QED
      BY <1>1, <1>3, <2>2, DipBefore DEF u
  <1> QED
    BY <1>4, <1>5

\* when the right point is at least as good and earns something,
LEMMA DropLeftThird ==
    ASSUME NEW P, NEW e, NearConcave(P, e), NEW l \in Nat, NEW h \in Nat, l <= h,
           NEW q \in Nat \ {0}, NEW k \in Nat, HoldsPeak(P, e, l, h, q, k),
           NEW t, t = (h - l) \div 3, t > 0, P[l + t] <= P[h - t], P[h - t] > 0
    PROVE  /\ HoldsPeak(P, e, l + t, h, q, k + 1)
           /\ DipIsSmall(P, e, l + t, h)
  <1>1. /\ t \in Nat \ {0} /\ l + t \in Nat /\ h - t \in Nat
        /\ l + t < h - t /\ h - t < h /\ 3 * t <= h - l /\ h - l <= 3 * t + 2
    BY Thirds
  <1>2. e \in Nat /\ P \in [Nat -> Nat]
    BY DEF NearConcave
  <1>3. P[l + t] \in Nat /\ P[h - t] \in Nat
    BY <1>1, <1>2
  <1>4. HoldsPeak(P, e, l + t, h, q, k + 1)
    <2>1. CASE Covers(P, e, q, k, 6 * e)
      <3>1. Covers(P, e, q, k + 1, 6 * e)
        BY <1>2, <2>1, CoversMore
      <3> QED
        BY <3>1 DEF HoldsPeak
    <2>2. ASSUME NEW y \in l .. h, Covers(P, e, q, k, P[y])
          PROVE  \E w \in l + t .. h : Covers(P, e, q, k + 1, P[w])
      <3>1. y \in Nat /\ P[y] \in Nat
        BY <1>2
      <3>2. CASE y >= l + t
        <4>1. y \in l + t .. h
          BY <1>1, <3>1, <3>2
        <4>2. Covers(P, e, q, k + 1, P[y])
          BY <1>2, <2>2, <3>1, CoversMore
        <4> QED
          BY <4>1, <4>2
      <3>3. CASE y < l + t
        <4>1. (h - t) - y <= 2 * ((h - t) - (l + t))
          BY <1>1, <3>1
        <4>2. P[y] <= P[h - t] + e * 2
          <5> DEFINE c == l + t
                     d == h - t
          <5>1. /\ c \in Nat /\ d \in Nat /\ y <= c /\ c < d
                /\ P[c] <= P[d] /\ P[d] > 0 /\ d - y <= 2 * (d - c)
            BY <1>1, <1>3, <3>1, <3>3, <4>1
          <5> HIDE DEF c, d
          <5>2. P[y] <= P[d] + e * 2
            BY <3>1, <5>1, Before
          <5> QED
            BY <5>2 DEF d
        <4>3. Covers(P, e, q, k + 1, P[h - t])
          BY <1>2, <1>3, <2>2, <3>1, <4>2, CoversMore
        <4>4. h - t \in l + t .. h
          BY <1>1
        <4> QED
          BY <4>3, <4>4
      <3> QED
        BY <1>1, <3>1, <3>2, <3>3
    <2> QED
      BY <2>1, <2>2 DEF HoldsPeak
  <1>5. DipIsSmall(P, e, l + t, h)
    <2> DEFINE u == InnerLeft(l + t, h)
    <2>1. u \in Nat /\ l + t <= u /\ 3 * (u - (l + t)) <= h - (l + t)
      <3>1. l + t \in Nat /\ l + t <= h
        BY <1>1
      <3> QED
        BY <3>1, InnerLeftType
    <2> HIDE DEF u
    <2>2. u <= h - t /\ (u < h - t => (h - t) - (l + t) <= 6 * ((h - t) - u))
      BY <1>1, <2>1
    <2>3. l + t <= h
      BY <1>1
    <2> QED
      BY <1>1, <1>3, <2>2, <2>3, DipBefore DEF u
  <1> QED
    BY <1>4, <1>5

\* and when neither earns anything: then nothing in the bracket does.
LEMMA DropAtTie ==
    ASSUME NEW P, NEW e, NearConcave(P, e), NEW l \in Nat, NEW h \in Nat, l <= h,
           NEW q \in Nat \ {0}, NEW k \in Nat, HoldsPeak(P, e, l, h, q, k),
           NEW t, t = (h - l) \div 3, t > 0, P[l + t] = 0, DipIsSmall(P, e, l, h)
    PROVE  /\ HoldsPeak(P, e, l + t, h, q, k + 1)
           /\ DipIsSmall(P, e, l + t, h)
  <1>1. /\ t \in Nat \ {0} /\ l + t \in Nat \ {0} /\ l + t < h /\ h <= 5 * (l + t)
        /\ InnerLeft(l, h) = l + t
    <2>1. /\ t \in Nat \ {0} /\ InnerLeft(l, h) = l + t /\ h - t < h
          /\ l + t < h - t /\ h <= 5 * (l + t)
      BY Thirds
    <2> QED
      BY <2>1
  <1>2. e \in Nat /\ P \in [Nat -> Nat]
    BY DEF NearConcave
  <1>3. ASSUME NEW y \in l .. h PROVE P[y] <= 6 * e
    <2>1. CASE y <= l + t
      BY <1>1, <2>1 DEF DipIsSmall
    <2>2. CASE y > l + t
      <3> DEFINE z == l + t
                 p == P[y]
      <3>1. y \in Nat /\ P[y] \in Nat /\ z \in Nat \ {0} /\ z <= y /\ y <= 5 * z
        BY <1>1, <1>2, <2>2
      <3>2. p * z <= (P[z] + e) * y
        BY <3>1, FromZero
      <3>3. p * z <= 0 * z + e * y
        BY <1>2, <3>1, <3>2
      <3>4. p <= 0 + e * 5
        <4> HIDE DEF z
        <4> QED
          BY <1>2, <3>1, <3>3, Cancel
      <3> QED
        BY <1>2, <3>1, <3>4
    <2> QED
      BY <1>1, <2>1, <2>2
  <1>4. Covers(P, e, q, k + 1, 6 * e)
    <2>1. CASE Covers(P, e, q, k, 6 * e)
      BY <1>2, <2>1, CoversMore
    <2>2. ASSUME NEW y \in l .. h, Covers(P, e, q, k, P[y]) PROVE Covers(P, e, q, k + 1, 6 * e)
      <3>1. P[y] \in Nat /\ 6 * e \in Nat /\ P[y] <= 6 * e
        BY <1>2, <1>3
      <3>2. P[y] <= 6 * e + 2 * e
        BY <1>2, <3>1
      <3> QED
        BY <1>2, <2>2, <3>1, <3>2, CoversMore
    <2> QED
      BY <2>1, <2>2 DEF HoldsPeak
  <1>5. \A y \in l + t .. InnerLeft(l + t, h) : y \in l .. h
    <2>1. InnerLeft(l + t, h) \in Nat /\ InnerLeft(l + t, h) <= h
      BY <1>1, InnerLeftType
    <2> QED
      BY <1>1, <2>1
  <1> QED
    BY <1>3, <1>4, <1>5 DEF HoldsPeak, DipIsSmall

\* Among finitely many amounts one earns most.
LEMMA BestBetween ==
    ASSUME NEW P \in [Nat -> Nat], NEW l \in Nat, NEW h \in Nat, l <= h
    PROVE  \E y \in l .. h : \A x \in l .. h : P[x] <= P[y]
  <1> DEFINE Has(i) == \E y \in l .. l + i : \A x \in l .. l + i : P[x] <= P[y]
             S == {i \in 0 .. h - l : Has(i)}
  <1>1. Has(0)
    BY DEF Has
  <1>2. ASSUME NEW i \in 0 .. (h - l) - 1, Has(i) PROVE Has(i + 1)
    <2>1. PICK y \in l .. l + i : \A x \in l .. l + i : P[x] <= P[y]
      BY <1>2
    <2>2. i \in Nat /\ y \in Nat
      OBVIOUS
    <2> DEFINE n == l + (i + 1)
    <2>3. n \in Nat /\ n \in l .. n /\ y \in l .. n /\ \A x \in l .. n : x = n \/ x \in l .. l + i
      BY <2>2
    <2>4. P[n] \in Nat /\ P[y] \in Nat /\ \A x \in l .. n : P[x] \in Nat
      BY <2>2, <2>3
    <2> HIDE DEF n
    <2>5. CASE P[n] <= P[y]
      <3>1. \A x \in l .. n : P[x] <= P[y]
        BY <2>1, <2>3, <2>5
      <3> QED
        BY <2>3, <3>1 DEF n
    <2>6. CASE P[y] <= P[n]
      <3>1. \A x \in l .. n : P[x] <= P[n]
        BY <2>1, <2>3, <2>4, <2>6
      <3> QED
        BY <2>3, <3>1 DEF n
    <2> QED
      BY <2>4, <2>5, <2>6
  <1> HIDE DEF Has
  <1>3. h - l \in Nat /\ 0 \in S /\ \A i \in 0 .. (h - l) - 1 : i \in S => i + 1 \in S
    BY <1>1, <1>2
  <1> HIDE DEF S
  <1>4. 0 .. h - l \subseteq S
    BY <1>3, UpTo
  <1>5. Has(h - l)
    BY <1>3, <1>4 DEF S
  <1>6. l + (h - l) = h
    OBVIOUS
  <1> QED
    BY <1>5, <1>6 DEF Has

\* Up to twice an amount that earns b, nothing earns more than twice b, if
\* nothing does up to that amount.
LEMMA DoublingSeen ==
    ASSUME NEW P, NEW e, NearConcave(P, e), NEW p \in Nat \ {0},
           \A x \in MinInput .. p : P[x] <= 2 * P[p] + 2 * e,
           NEW x \in Inputs, x <= 2 * p
    PROVE  P[x] <= 2 * P[p] + 2 * e
  <1>1. P[p] \in Nat /\ P[x] \in Nat /\ e \in Nat /\ x \in Nat /\ MinInput \in Nat /\ MinInput <= x
    BY InputsType DEF NearConcave, Inputs
  <1>2. CASE x <= p
    <2>1. x \in MinInput .. p
      BY <1>1, <1>2
    <2> QED
      BY <2>1
  <1>3. CASE x > p
    <2>1. P[x] * p <= (P[p] + e) * x
      BY <1>1, <1>3, FromZero
    <2> DEFINE u == P[x]
               v == P[p] + e
    <2>2. u \in Nat /\ v \in Nat /\ u * p <= 0 * p + v * x
      BY <1>1, <2>1
    <2> HIDE DEF u, v
    <2>3. u <= 0 + v * 2
      BY <1>1, <2>2, Cancel
    <2> QED
      BY <1>1, <2>2, <2>3 DEF u, v
  <1> QED
    BY <1>1, <1>2, <1>3

\* Beyond a doubled amount that earns less, nothing earns more.
LEMMA BeyondClosing ==
    ASSUME NEW P, NEW e, NearConcave(P, e), NEW p \in Nat \ {0}, NEW q, q = 2 * p,
           P[q] < P[p], NEW x \in Nat, x >= q
    PROVE  P[x] <= P[p] + Allowance(e, q, 0, x)
  <1> DEFINE d == x \div q
  <1>1. q \in Nat \ {0} /\ P[p] \in Nat /\ P[q] \in Nat /\ P[x] \in Nat /\ e \in Nat
    BY DEF NearConcave
  <1>2. d \in Nat /\ x < q * d + q
    BY <1>1, DivBounds
  <1> HIDE DEF d
  <1> DEFINE k == 2 * d + 1
  <1>3. k \in Nat /\ x - p <= k * (q - p) /\ p < q
    <2>1. q * d = (2 * d) * p /\ q - p = p /\ k * p = (2 * d) * p + p
      BY <1>2
    <2>2. (2 * d) * p \in Nat
      BY <1>2
    <2> QED
      BY <1>2, <2>1, <2>2
  <1>4. P[x] <= P[p] + e * k
    <2> HIDE DEF k
    <2>1. q \in Nat /\ q <= x /\ P[q] <= P[p] /\ P[p] > 0
      BY <1>1
    <2> QED
      BY <1>3, <2>1, Beyond
  <1>5. e * (2 + 2 * 0 + 2 * d) = e * k + e
    BY <1>1, <1>2
  <1>6. e * k \in Nat
    BY <1>1, <1>3
  <1> QED
    BY <1>1, <1>4, <1>5, <1>6 DEF Allowance, d

\* The bracket that a worse probe closes: from a quarter of it, which the two
\* probes before it enclose, to itself.
LEMMA ClosingHoldsPeak ==
    ASSUME NEW P, NEW e, NearConcave(P, e), NEW r \in Nat \ {0}, NEW p, p = 2 * r,
           NEW q \in Nat, p < q, q <= 2 * p, q = 2 * p \/ q = MaxInput,
           P[q] < P[p], P[r] <= P[p]
    PROVE  HoldsPeak(P, e, q \div 4, q, q, 0)
  <1> DEFINE l == q \div 4
  <1>1. p \in Nat \ {0} /\ l \in Nat /\ l <= r /\ l <= q /\ q \in Nat \ {0}
    OBVIOUS
  <1>2. P \in [Nat -> Nat] /\ e \in Nat /\ P[p] \in Nat /\ P[q] \in Nat /\ P[p] > 0
    BY <1>1 DEF NearConcave
  <1> HIDE DEF l
  <1>3. PICK y \in l .. q : \A x \in l .. q : P[x] <= P[y]
    BY <1>1, <1>2, BestBetween
  <1>4. P[p] <= P[y]
    <2>1. p \in l .. q
      BY <1>1
    <2> QED
      BY <1>3, <2>1
  <1>5. P[y] \in Nat
    BY <1>1, <1>2
  <1>6. ASSUME NEW x \in Inputs PROVE P[x] <= P[y] + Allowance(e, q, 0, x)
    <2>1. x \in Nat /\ P[x] \in Nat /\ MaxInput \in Nat /\ x <= MaxInput
      BY <1>2, InputsType DEF Inputs
    <2>2. Allowance(e, q, 0, x) \in Nat /\ Allowance(e, q, 0, x) >= 2 * e
      BY <1>1, <1>2, <2>1, AllowanceGrows
    <2>3. CASE x \in l .. q
      BY <1>3, <1>5, <2>1, <2>2, <2>3
    <2>4. CASE x > q
      <3>1. q = 2 * p
        BY <2>1, <2>4
      <3>2. P[x] <= P[p] + Allowance(e, q, 0, x)
        BY <1>1, <2>1, <2>4, <3>1, BeyondClosing
      <3> QED
        BY <1>2, <1>4, <1>5, <2>1, <2>2, <3>2
    <2>5. CASE x < l
      <3>1. x <= r /\ r < p /\ p - x <= 2 * (p - r)
        BY <1>1, <2>1, <2>5
      <3>2. P[x] <= P[p] + e * 2
        BY <1>1, <1>2, <2>1, <3>1, Before
      <3> QED
        BY <1>2, <1>4, <1>5, <2>1, <2>2, <3>2
    <2> QED
      BY <1>1, <2>1, <2>3, <2>4, <2>5
  <1>7. Covers(P, e, q, 0, P[y])
    BY <1>6 DEF Covers
  <1> QED
    BY <1>7 DEF HoldsPeak, l

LEMMA ClosingDipIsSmall ==
    ASSUME NEW P, NEW e, NearConcave(P, e), NEW r \in Nat \ {0}, NEW p, p = 2 * r,
           NEW q \in Nat, p < q, q <= 2 * p, P[p] > 0,
           \A x \in MinInput .. p : P[x] <= 2 * P[p] + 2 * e, MinInput <= r, P[r] <= P[p]
    PROVE  DipIsSmall(P, e, q \div 4, q)
  <1> DEFINE l == q \div 4
             t == InnerLeft(l, q)
  <1>1. p \in Nat \ {0} /\ l \in Nat /\ l <= q /\ 4 * l <= q /\ q <= 4 * l + 3
    OBVIOUS
  <1>2. P \in [Nat -> Nat] /\ e \in Nat /\ P[p] \in Nat
    BY <1>1 DEF NearConcave
  <1> HIDE DEF l
  <1>3. t \in Nat /\ 3 * (t - l) <= q - l /\ q - l <= 3 * (t - l) + 2 /\ l <= t
    BY <1>1, InnerLeftType
  <1> HIDE DEF t
  <1>4. r <= t /\ t <= p
    BY <1>1, <1>3
  <1>5. SUFFICES ASSUME P[t] = 0, NEW y \in l .. t PROVE P[y] <= 6 * e
    BY DEF DipIsSmall, t, l
  <1>6. P[p] <= 2 * e
    <2>1. P[p] * t <= (P[t] + e) * p
      <3>1. t \in Nat \ {0}
        BY <1>3, <1>4
      <3> QED
        BY <1>1, <1>4, <3>1, FromZero
    <2> DEFINE u == P[p]
    <2>2. u \in Nat /\ u * t <= 0 * t + e * p /\ p <= 2 * t /\ t \in Nat \ {0}
      BY <1>2, <1>3, <1>4, <1>5, <2>1
    <2> HIDE DEF u
    <2>3. u <= 0 + e * 2
      BY <1>1, <1>2, <2>2, Cancel
    <2> QED
      BY <1>2, <2>2, <2>3 DEF u
  <1>7. y \in Nat /\ P[y] \in Nat
    BY <1>1, <1>2, <1>3
  <1>8. CASE y > r
    <2>1. y \in MinInput .. p
      BY <1>3, <1>4, <1>7, <1>8, InputsType
    <2>2. P[y] <= 2 * P[p] + 2 * e
      BY <2>1
    <2> QED
      BY <1>2, <1>6, <1>7, <2>2
  <1>9. CASE y <= r
    <2>1. r < p /\ p - y <= 2 * (p - r)
      BY <1>7
    <2>2. P[y] <= P[p] + e * 2
      BY <1>1, <1>7, <1>9, <2>1, Before
    <2> QED
      BY <1>2, <1>6, <1>7, <2>2
  <1> QED
    BY <1>7, <1>8, <1>9

\* The whole range, when no probe was worse.
LEMMA RangeHoldsPeak ==
    ASSUME NEW P, NEW e, NearConcave(P, e), NEW q \in Nat \ {0}
    PROVE  /\ HoldsPeak(P, e, MinInput, MaxInput, q, 0)
           /\ P[MaxInput] > 0 => DipIsSmall(P, e, MinInput, MaxInput)
  <1>1. P \in [Nat -> Nat] /\ e \in Nat
    BY DEF NearConcave
  <1>2. MinInput \in Nat /\ MaxInput \in Nat /\ MinInput <= MaxInput
    BY InputsType
  <1>3. PICK y \in MinInput .. MaxInput : \A x \in MinInput .. MaxInput : P[x] <= P[y]
    BY <1>1, <1>2, BestBetween
  <1>4. ASSUME NEW x \in Inputs PROVE P[x] <= P[y] + Allowance(e, q, 0, x)
    <2>1. x \in MinInput .. MaxInput /\ x \in Nat /\ y \in Nat
      BY <1>2 DEF Inputs
    <2>2. Allowance(e, q, 0, x) \in Nat
      BY <1>1, <2>1, AllowanceGrows
    <2>3. P[x] <= P[y] /\ P[x] \in Nat /\ P[y] \in Nat
      BY <1>1, <1>3, <2>1
    <2> QED
      BY <2>2, <2>3
  <1>5. HoldsPeak(P, e, MinInput, MaxInput, q, 0)
    BY <1>4 DEF HoldsPeak, Covers
  <1>6. ASSUME P[MaxInput] > 0 PROVE DipIsSmall(P, e, MinInput, MaxInput)
    <2> DEFINE t == InnerLeft(MinInput, MaxInput)
    <2>1. t \in Nat /\ MinInput <= t /\ t <= MaxInput /\ 3 * (t - MinInput) <= MaxInput - MinInput
      BY <1>2, InnerLeftType
    <2> HIDE DEF t
    <2>2. t < MaxInput => MaxInput - MinInput <= 6 * (MaxInput - t)
      BY <1>2, <2>1
    <2> QED
      BY <1>2, <1>6, <2>1, <2>2, DipBefore DEF t
  <1> QED
    BY <1>5, <1>6

-----------------------------------------------------------------------------
(* The search *)

\* The best amount is min_input, without an output, or was quoted with its
\* output and profit.
BestIsQuoted ==
    /\ best \in [in : Inputs, out : Nat, profit : Nat]
    /\ best.out > 0 => best.out = Output(best.in)

\* Everything that is tried lies between min_input and max_input, and probes
\* double up to there.
WithinInputs ==
    /\ {probe, lo, hi} \subseteq Inputs
    /\ probe \in {MinInput, 2 * MinInput, MaxInput} \/ probe >= 4 * MinInput

SearchInv ==
    /\ path \in [hops : Cycles, limit : Limits]
    /\ BestIsQuoted
    /\ WithinInputs
    /\ AcceptedPays

LEMMA InitSearch == Init => SearchInv
  BY InputsType DEF Init, SearchInv, BestIsQuoted, WithinInputs, AcceptedPays

\* A trial of an amount between the inputs, and the better of two.
LEMMA BetterIsQuoted ==
    ASSUME path \in [hops : Cycles, limit : Limits], NEW in \in Inputs,
           NEW b \in [in : Inputs, out : Nat, profit : Nat],
           b.out > 0 => b.out = Output(b.in)
    PROVE  /\ Better(Trial(in), b) \in [in : Inputs, out : Nat, profit : Nat]
           /\ Better(Trial(in), b).out > 0
                => Better(Trial(in), b).out = Output(Better(Trial(in), b).in)
  <1>1. Output(in) \in Nat /\ Profit(in) \in Nat
    BY InputsType, OutputType
  <1>2. /\ Trial(in) \in [in : Inputs, out : Nat, profit : Nat]
        /\ Trial(in).out = Output(Trial(in).in)
    BY <1>1 DEF Trial
  <1> QED
    BY <1>2 DEF Better

\* What is sent stays what it is, as the path does.
LEMMA AcceptedFrame ==
    ASSUME AcceptedPays, UNCHANGED <<path, valid>>
    PROVE  AcceptedPays'
  BY DEF AcceptedPays, Quote

LEMMA OutputFrame ==
    ASSUME UNCHANGED path
    PROVE  \A in : Output(in)' = Output(in)
  BY DEF Output, Quote

LEMMA ProbeKeeps ==
    ASSUME WideRange, SearchInv, Probe
    PROVE  SearchInv'
  <1>1. /\ path' = path /\ valid' = valid /\ path \in [hops : Cycles, limit : Limits]
        /\ best' = Better(Trial(probe), best)
        /\ lo' \in {lo, probe \div 4} /\ (probe <= 2 * MinInput => lo' = lo)
        /\ hi' \in {hi, probe}
        /\ probe' \in {probe, Min({2 * probe, MaxInput})}
    <2>1. path' = path /\ valid' = valid /\ path \in [hops : Cycles, limit : Limits]
      BY DEF Probe, SearchInv
    <2>2. PICK worse \in BOOLEAN :
            /\ best' = Better(Trial(probe), best)
            /\ lo' = IF worse /\ probe > 2 * MinInput THEN probe \div 4 ELSE lo
            /\ hi' = IF worse THEN probe ELSE hi
            /\ probe' = IF pc' = "probed" THEN probe ELSE Min({2 * probe, MaxInput})
      BY DEF Probe
    <2>3. probe \in Nat
      BY InputsType DEF SearchInv, WithinInputs
    <2>4. probe <= 2 * MinInput => lo' = lo
      BY <2>2, <2>3, InputsType
    <2>5. lo' \in {lo, probe \div 4} /\ hi' \in {hi, probe}
      BY <2>2
    <2> QED
      BY <2>1, <2>2, <2>4, <2>5
  <1>2. probe \in Inputs /\ probe \in Nat /\ lo \in Inputs /\ hi \in Inputs
    BY InputsType DEF SearchInv, WithinInputs
  <1>3. BestIsQuoted'
    <2>1. \A in : Output(in)' = Output(in)
      BY <1>1, OutputFrame
    <2>2. /\ best' \in [in : Inputs, out : Nat, profit : Nat]
          /\ best'.out > 0 => best'.out = Output(best'.in)
      BY <1>1, <1>2, BetterIsQuoted DEF SearchInv, BestIsQuoted
    <2>3. ASSUME NEW in PROVE in = best'.in => Output(best.in)' = Output(in)'
      BY DEF Output, Quote
    <2> QED
      BY <2>1, <2>2, <2>3 DEF BestIsQuoted, Inputs
  <1>4. WithinInputs'
    <2>1. lo' \in Inputs
      <3>1. CASE probe > 2 * MinInput
        <4>1. probe >= 4 * MinInput
          BY <1>2, <3>1, InputsType DEF SearchInv, WithinInputs, WideRange
        <4>2. probe \div 4 >= MinInput /\ probe \div 4 <= probe /\ probe \div 4 \in Nat
          BY <1>2, <4>1, InputsType
        <4> QED
          BY <1>1, <1>2, <4>2, InputsType DEF Inputs
      <3>2. CASE ~(probe > 2 * MinInput)
        BY <1>1, <1>2, <3>2, InputsType
      <3> QED
        BY <3>1, <3>2
    <2>2. 2 * probe \in Nat /\ Min({2 * probe, MaxInput}) = IF 2 * probe <= MaxInput THEN 2 * probe
                                                                                   ELSE MaxInput
      BY <1>2, InputsType, MinOfTwo
    <2>3. probe' \in Inputs
      BY <1>1, <1>2, <2>2, InputsType DEF Inputs
    <2>4. probe' \in {MinInput, 2 * MinInput, MaxInput} \/ probe' >= 4 * MinInput
      <3>1. CASE probe' \in {probe, MaxInput}
        BY <3>1 DEF SearchInv, WithinInputs
      <3>2. CASE probe' = 2 * probe /\ 2 * probe <= MaxInput
        BY <1>2, <3>2, InputsType DEF SearchInv, WithinInputs
      <3> QED
        BY <1>1, <2>2, <3>1, <3>2
    <2>5. Inputs' = Inputs
      BY DEF Inputs
    <2>6. hi' \in Inputs
      BY <1>1, <1>2
    <2> QED
      BY <2>1, <2>3, <2>4, <2>5, <2>6 DEF WithinInputs
  <1>5. AcceptedPays'
    BY <1>1, AcceptedFrame DEF SearchInv
  <1> QED
    BY <1>1, <1>3, <1>4, <1>5 DEF SearchInv

\* A step that keeps the best amount.
LEMMA BestFrame ==
    ASSUME BestIsQuoted, UNCHANGED <<path, best>>
    PROVE  BestIsQuoted'
  BY DEF BestIsQuoted, Inputs, Output, Quote

LEMMA RefineKeeps ==
    ASSUME SearchInv, Refine
    PROVE  SearchInv'
  <1> DEFINE third == (hi - lo) \div 3
             t1 == Trial(lo + third)
             t2 == Trial(hi - third)
  <1>1. /\ UNCHANGED <<path, probe, probes, valid>> /\ path \in [hops : Cycles, limit : Limits]
        /\ hi > lo + Tolerance
        /\ best' = Better(t2, Better(t1, best))
        /\ hi' \in {hi, t2.in} /\ lo' \in {lo, t1.in}
    BY DEF Refine, SearchInv
  <1>2. lo \in Inputs /\ hi \in Inputs /\ lo \in Nat /\ hi \in Nat /\ hi > lo
    <2>1. lo \in Inputs /\ hi \in Inputs /\ lo \in Nat /\ hi \in Nat
      BY InputsType DEF SearchInv, WithinInputs
    <2>2. Tolerance \in Nat
      BY OptimizerAssumption
    <2> QED
      BY <1>1, <2>1, <2>2
  <1>3. third \in Nat /\ 3 * third <= hi - lo
    BY <1>2
  <1>4. lo + third \in Inputs /\ hi - third \in Inputs /\ lo + third \in Nat /\ hi - third \in Nat
    <2> HIDE DEF third
    <2>1. /\ MinInput \in Nat /\ MaxInput \in Nat
          /\ MinInput <= lo /\ hi <= MaxInput
      BY <1>2, InputsType DEF Inputs
    <2> QED
      BY <1>2, <1>3, <2>1 DEF Inputs
  <1>5. BestIsQuoted'
    <2> DEFINE b1 == Better(t1, best)
               b2 == Better(t2, b1)
    <2>1. /\ b1 \in [in : Inputs, out : Nat, profit : Nat]
          /\ b1.out > 0 => b1.out = Output(b1.in)
      <3> HIDE DEF third
      <3> QED
        BY <1>1, <1>4, BetterIsQuoted DEF SearchInv, BestIsQuoted
    <2>2. /\ b2 \in [in : Inputs, out : Nat, profit : Nat]
          /\ b2.out > 0 => b2.out = Output(b2.in)
      <3> HIDE DEF third, b1
      <3> QED
        BY <1>1, <1>4, <2>1, BetterIsQuoted
    <2>3. best' = b2
      BY <1>1
    <2> HIDE DEF b2
    <2>4. \A in : in = best'.in => Output(best.in)' = Output(in)
      BY <1>1 DEF Output, Quote
    <2> QED
      BY <2>2, <2>3, <2>4 DEF BestIsQuoted, Inputs
  <1>6. WithinInputs'
    <2>1. t1.in = lo + third /\ t2.in = hi - third
      BY DEF Trial
    <2>2. lo' \in Inputs /\ hi' \in Inputs
      BY <1>1, <1>2, <1>4, <2>1
    <2> QED
      BY <1>1, <2>2 DEF SearchInv, WithinInputs, Inputs
  <1>7. AcceptedPays'
    BY <1>1, AcceptedFrame DEF SearchInv
  <1> QED
    BY <1>1, <1>5, <1>6, <1>7 DEF SearchInv

LEMMA StartRefiningKeeps ==
    ASSUME SearchInv, StartRefining
    PROVE  SearchInv'
  <1>1. /\ UNCHANGED <<path, best, probe, probes, lo, valid>>
        /\ hi' = Min({hi, MaxInput})
    BY DEF StartRefining
  <1>2. hi' \in Inputs
    <2>1. hi \in Inputs /\ hi \in Nat
      BY InputsType DEF SearchInv, WithinInputs
    <2> QED
      BY <1>1, <2>1, InputsType, MinOfTwo
  <1> QED
    BY <1>1, <1>2, AcceptedFrame, BestFrame DEF SearchInv, WithinInputs, Inputs

-----------------------------------------------------------------------------
(* The decision *)

\* A step of a V3 price keeps the order of two amounts.
LEMMA RescaledMonotone ==
    ASSUME NEW a \in Nat, NEW c \in Nat, a <= c, NEW price \in PriceStates,
           price.kind = "v3", price.sqrt # 0
    PROVE  /\ Rescaled(a, price) \in Nat /\ Rescaled(c, price) \in Nat
           /\ Rescaled(a, price) <= Rescaled(c, price)
  <1>1. price.sqrt \in Nat \ {0} /\ price.isToken0 \in BOOLEAN /\ PriceOne \in Nat \ {0}
    BY OptimizerAssumption DEF PriceStates
  <1>2. ASSUME NEW n \in Nat, NEW d \in Nat \ {0}
        PROVE  /\ (a * n) \div d <= (c * n) \div d
               /\ (a * n) \div d \in Nat /\ (c * n) \div d \in Nat
    <2>1. a * n \in Nat /\ c * n \in Nat /\ a * n <= c * n
      BY <1>2
    <2> QED
      BY <1>2, <2>1, DivMonotone, DivBounds
  <1> QED
    BY <1>1, <1>2 DEF Rescaled

LEMMA InNativeMonotone ==
    ASSUME NEW a \in Nat, NEW c \in Nat, a <= c, NEW price \in Prices,
           Convertible(a, price)
    PROVE  /\ InNative(a, price) \in Nat /\ InNative(c, price) \in Nat
           /\ InNative(a, price) <= InNative(c, price)
  <1>1. price \in PriceStates
    BY OptimizerAssumption
  <1>2. CASE price.kind = "raw"
    BY <1>2 DEF InNative
  <1>3. CASE price.kind = "v2"
    <2>1. price.token \in Nat \ {0} /\ price.native \in Nat
      BY <1>1, <1>3 DEF PriceStates, Convertible
    <2>2. /\ a * price.native \in Nat /\ c * price.native \in Nat
          /\ a * price.native <= c * price.native
      BY <2>1
    <2>3. /\ (a * price.native) \div price.token <= (c * price.native) \div price.token
          /\ (a * price.native) \div price.token \in Nat
          /\ (c * price.native) \div price.token \in Nat
      BY <2>1, <2>2, DivMonotone, DivBounds
    <2> QED
      BY <1>3, <2>3 DEF InNative
  <1>4. CASE price.kind = "v3" /\ price.sqrt = 0
    BY <1>4 DEF InNative
  <1>5. CASE price.kind = "v3" /\ price.sqrt # 0
    <2>1. /\ Rescaled(a, price) \in Nat /\ Rescaled(c, price) \in Nat
          /\ Rescaled(a, price) <= Rescaled(c, price)
      BY <1>1, <1>5, RescaledMonotone
    <2>2. /\ Rescaled(Rescaled(a, price), price) \in Nat
          /\ Rescaled(Rescaled(c, price), price) \in Nat
          /\ Rescaled(Rescaled(a, price), price) <= Rescaled(Rescaled(c, price), price)
      BY <1>1, <1>5, <2>1, RescaledMonotone
    <2> QED
      BY <1>5, <2>2 DEF InNative
  <1>6. price.kind \in {"raw", "v2", "v3"}
    BY <1>1 DEF PriceStates
  <1> QED
    BY <1>2, <1>3, <1>4, <1>5, <1>6

\* A lender no dearer than the selected provider asks for at most one unit more
\* than the bot reckons with.
LEMMA FeeRounding ==
    ASSUME NEW in \in Nat, NEW r \in Routings, NEW lender \in Lenders(r) \cup {Selected(r)},
           FeeBps(lender) <= FeeBps(Selected(r))
    PROVE  /\ FlashFee(in, r) \in Nat /\ Owed(in, lender) \in Nat
           /\ Owed(in, lender) <= FlashFee(in, r) + 1
  <1> DEFINE f == FeeBps(lender)
             g == FeeBps(Selected(r))
  <1>1. f \in Nat /\ g \in Nat /\ f <= g /\ FeeBase \in Nat \ {0}
    BY FeeType, OptimizerAssumption
  <1> HIDE DEF f, g
  <1>2. in * f \in Nat /\ in * g \in Nat /\ in * f <= in * g
    BY <1>1
  <1>3. in * f + FeeBase - 1 \in Nat /\ in * g + FeeBase - 1 \in Nat
    BY <1>1, <1>2
  <1>4. (in * f + FeeBase - 1) \div FeeBase <= (in * g + FeeBase - 1) \div FeeBase
    BY <1>1, <1>2, <1>3, DivMonotone
  <1>5. /\ (in * g) \div FeeBase \in Nat
        /\ (in * g + FeeBase - 1) \div FeeBase \in Nat
        /\ (in * g + FeeBase - 1) \div FeeBase <= (in * g) \div FeeBase + 1
    BY <1>1, <1>2, <1>3, CeilFloor, DivBounds
  <1>6. (in * f + FeeBase - 1) \div FeeBase \in Nat
    BY <1>1, <1>3, DivBounds
  <1> QED
    BY <1>4, <1>5, <1>6 DEF FlashFee, Owed, f, g

LEMMA AcceptKeeps ==
    ASSUME SearchInv, Accept
    PROVE  SearchInv'
  <1>1. UNCHANGED <<path, search>> /\ path \in [hops : Cycles, limit : Limits]
    BY DEF Accept, SearchInv
  <1>2. PICK gas \in GasCosts, price \in Prices, r \in Routings :
          /\ Acceptable(gas, price, r)
          /\ valid' = [in |-> best.in, out |-> best.out, gas |-> gas,
                       price |-> price, routing |-> r]
    BY DEF Accept
  <1> DEFINE in == best.in
             out == best.out
             fee == FlashFee(in, r)
             owed == Owed(in, Selected(r))
  <1>3. /\ in \in Inputs /\ in \in Nat /\ out \in Nat /\ out > in
        /\ out = Output(in)
        /\ fee \in Nat /\ owed \in Nat /\ owed <= fee + 1
        /\ out - in - fee > 0
    <2>1. in \in Inputs /\ in \in Nat /\ out \in Nat
      BY InputsType DEF SearchInv, BestIsQuoted
    <2>2. out > in /\ out - in - fee > 0
      BY <1>2 DEF Acceptable, AfterFee
    <2>3. out > 0
      BY <2>1, <2>2
    <2>4. out = Output(in)
      BY <2>3 DEF SearchInv, BestIsQuoted
    <2>5. fee \in Nat /\ owed \in Nat /\ owed <= fee + 1
      <3>1. FeeBps(Selected(r)) \in Nat
        BY FeeType
      <3> QED
        BY <2>1, <3>1, FeeRounding
    <2> QED
      BY <2>1, <2>2, <2>4, <2>5
  <1>4. out = Quote(in)
    <2>1. Output(in) # 0
      BY <1>3
    <2> QED
      BY <1>1, <1>3, <2>1, OutputType
  <1>5. InNative(out - in - fee, price) - gas >= MinProfit /\ Convertible(out - in - fee, price)
    BY <1>2 DEF Acceptable, AfterFee
  <1>6. ASSUME NEW lender \in Lenders(r), FeeBps(lender) <= FeeBps(Selected(r))
        PROVE  out >= in + Owed(in, lender)
    <2>1. Owed(in, lender) \in Nat /\ Owed(in, lender) <= fee + 1
      BY <1>3, <1>6, FeeRounding
    <2> HIDE DEF in, out, fee, owed
    <2> QED
      BY <1>3, <2>1
  <1>7. InNative(out - in - owed + 1, price) >= gas + MinProfit
    <2> HIDE DEF in, out, fee, owed
    <2>1. /\ out - in - fee \in Nat /\ out - in - owed + 1 \in Nat
          /\ out - in - fee <= out - in - owed + 1
      BY <1>3
    <2>2. /\ InNative(out - in - fee, price) \in Nat
          /\ InNative(out - in - owed + 1, price) \in Nat
          /\ InNative(out - in - fee, price) <= InNative(out - in - owed + 1, price)
      BY <1>5, <2>1, InNativeMonotone
    <2>3. gas \in Nat /\ MinProfit \in Nat
      BY OptimizerAssumption
    <2> QED
      BY <1>5, <2>2, <2>3
  <1>8. AcceptedPays'
    <2>1. /\ valid'.in = in /\ valid'.out = out /\ valid'.gas = gas /\ valid'.price = price
          /\ valid'.routing = r
      BY <1>2
    <2>2. \A x : x = valid'.in => Quote(valid.in)' = Quote(x)
      BY <1>1 DEF Quote
    <2>3. \A lender \in Lenders(valid'.routing) :
            FeeBps(lender) <= FeeBps(Selected(valid'.routing)) =>
                valid'.out >= valid'.in + Owed(valid'.in, lender)
      BY <1>6, <2>1
    <2>4. /\ valid'.out = Quote(valid.in)'
          /\ valid'.in \in Inputs
          /\ InNative(valid'.out - valid'.in - Owed(valid'.in, Selected(valid'.routing)) + 1,
                      valid'.price) >= valid'.gas + MinProfit
      BY <1>3, <1>4, <1>7, <2>1, <2>2
    <2> QED
      BY <2>3, <2>4 DEF AcceptedPays, Inputs
  <1>9. BestIsQuoted' /\ WithinInputs'
    BY <1>1, BestFrame DEF search, SearchInv, WithinInputs, Inputs
  <1> QED
    BY <1>1, <1>8, <1>9 DEF SearchInv

LEMMA StepKeepsSearch ==
    ASSUME WideRange
    PROVE  SearchInv /\ [Next]_vars => SearchInv'
  <1> SUFFICES ASSUME SearchInv, [Next]_vars PROVE SearchInv'
    OBVIOUS
  <1>1. ASSUME UNCHANGED <<path, search, valid>> PROVE SearchInv'
    <2>1. BestIsQuoted' /\ WithinInputs' /\ AcceptedPays'
      BY <1>1, BestFrame, AcceptedFrame DEF search, SearchInv, WithinInputs, Inputs
    <2> QED
      BY <1>1, <2>1 DEF SearchInv
  <1>2. CASE Viability \/ ProbesUsedUp \/ RefineEnds \/ Reject \/ Finished \/ UNCHANGED vars
    BY <1>1, <1>2 DEF Viability, ProbesUsedUp, RefineEnds, Reject, Finished, vars
  <1> QED
    BY <1>2, ProbeKeeps, StartRefiningKeeps, RefineKeeps, AcceptKeeps DEF Next

-----------------------------------------------------------------------------
(* The optimum *)

\* optimization_steps / 2 probes, at least one of which is made, leave no steps
\* for refinement when all are.
EvenSteps == Steps = 2 * (Steps \div 2)

\* Nothing that the probing came to look at beats twice b.
Seen(P, e, q, b, X) == \A x \in X : P[x] <= 2 * b + Allowance(e, q, 0, x)

\* The probe q doubles the last one, p, which earned the best profit b so far,
\* and which doubled one that earned no more.
Doubled(P, e, q, b) ==
    \E p \in Inputs :
        /\ p < MaxInput
        /\ q = IF 2 * p <= MaxInput THEN 2 * p ELSE MaxInput
        /\ P[p] = b
        /\ \A x \in MinInput .. p : P[x] <= 2 * b + 2 * e
        /\ p = MinInput \/ \E r \in Inputs : p = 2 * r /\ P[r] <= b

Ready == probes = 0 /\ probe = MinInput /\ best.profit = 0 /\ lo = MinInput /\ hi = MaxInput

Probing ==
    /\ lo = MinInput /\ hi = MaxInput /\ probes <= Steps \div 2
    /\ Ready \/ (probes > 0 /\ Doubled(Gain, Rounding, probe, best.profit))

\* What refinement starts from and keeps: after k steps, with or without any left.
Bracketed(k, end) ==
    EvenSteps /\ best.profit > 0 /\ probe > 2 * MinInput =>
        /\ HoldsPeak(Gain, Rounding, lo, hi, probe, k)
        /\ end \/ DipIsSmall(Gain, Rounding, lo, hi)

RefineSteps == Max({Steps - 2 * probes, 0})

OptimumInv ==
    /\ path \in [hops : Cycles, limit : Limits]
    /\ pc \in Places
    /\ {probe, lo, hi, probes, left, best.profit} \subseteq Nat
    /\ probe \in Inputs /\ lo <= hi /\ hi <= MaxInput
    /\ pc = "viability" => Ready
    /\ pc = "probe" => Probing
    /\ pc \in {"probed", "refine", "gate"} =>
         probes > 0 /\ Seen(Gain, Rounding, probe, best.profit, Reach)
    /\ pc = "probed" => Bracketed(0, 2 * probes >= Steps)
    /\ pc \in {"refine", "gate"} => left <= RefineSteps /\ Bracketed(Refinements, left = 0 \/ pc = "gate")
    /\ pc = "refine" => best.profit > 0
    /\ pc = "done" /\ probes = 0 => \A x \in Inputs : Gain[x] * MinInput <= x * Rounding

LEMMA ShapeFrame ==
    ASSUME UNCHANGED path
    PROVE  Gain' = Gain /\ Rounding' = Rounding
  BY DEF Gain, Profit, Output, Quote, Rounding

LEMMA GainType ==
    ASSUME OptimumInv
    PROVE  /\ NearConcave(Gain, Rounding) /\ Gain \in [Nat -> Nat] /\ Rounding \in Nat
           /\ \A x \in Nat : Gain[x] = Profit(x)
  BY GainNearConcave DEF OptimumInv, NearConcave, Gain

LEMMA TrialProfit ==
    ASSUME OptimumInv, NEW x \in Nat, NEW b
    PROVE  /\ Trial(x).profit = Gain[x] /\ Trial(x).in = x
           /\ Better(Trial(x), b).profit = IF Gain[x] > b.profit THEN Gain[x] ELSE b.profit
  BY GainType DEF Trial, Better

LEMMA InitOptimum == Init => OptimumInv
  BY InputsType DEF Init, OptimumInv, Ready, Places

LEMMA ViabilityKeepsOptimum ==
    ASSUME OptimumInv, Viability
    PROVE  OptimumInv'
  <1>1. /\ pc = "viability" /\ UNCHANGED <<path, probe, probes, lo, hi, left, best, valid>>
        /\ pc' = IF Quote(MinInput) > MinInput THEN "probe" ELSE "done"
    BY DEF Viability, search
  <1>2. Gain' = Gain /\ Rounding' = Rounding
    BY <1>1, ShapeFrame
  <1>3. CASE pc' = "probe"
    <2>1. Ready /\ Ready' /\ Steps \div 2 \in Nat
      BY <1>1, OptimizerAssumption DEF OptimumInv, Ready
    <2>2. Probing'
      BY <2>1, <1>3 DEF Ready, Probing
    <2> QED
      BY <1>1, <1>3, <2>2 DEF OptimumInv, Places, Inputs
  <1>4. CASE pc' = "done"
    <2>1. ~(Quote(MinInput) > MinInput)
      BY <1>1, <1>4
    <2>2. Gain[MinInput] = 0
      BY <2>1, InputsType, OutputType, GainType DEF Profit, Output, None, OptimumInv
    <2>3. ASSUME NEW x \in Inputs PROVE Gain[x] * MinInput <= x * Rounding
      <3>1. x \in Nat /\ MinInput \in Nat \ {0} /\ MinInput <= x
        BY InputsType DEF Inputs
      <3>2. Gain[x] * MinInput <= (0 + Rounding) * x
        BY <2>2, <3>1, GainType, FromZero
      <3> QED
        BY <3>1, <3>2, GainType
    <2> QED
      BY <1>1, <1>2, <1>4, <2>3 DEF OptimumInv, Places, Inputs
  <1> QED
    BY <1>1, <1>3, <1>4

\* A probe that is better than, or as good as, all before it.
LEMMA BetterProbe ==
    ASSUME OptimumInv, Probe, Gain[probe] >= best.profit,
           \A x \in MinInput .. probe : Gain[x] <= 2 * Gain[probe] + 2 * Rounding,
           probe < MaxInput =>
               probe = MinInput \/ \E r \in Inputs : probe = 2 * r /\ Gain[r] <= best.profit
    PROVE  OptimumInv'
  <1> DEFINE P == Gain
             e == Rounding
             q == probe
             b == best.profit
  <1>1. /\ path' = path /\ left' = left /\ pc = "probe" /\ probes' = probes + 1
        /\ probes < Steps \div 2
        /\ best' = Better(Trial(probe), best)
        /\ LET worse == Gain[probe] < best.profit
           IN  /\ lo' = IF worse /\ probe > 2 * MinInput THEN probe \div 4 ELSE lo
               /\ hi' = IF worse THEN probe ELSE hi
               /\ pc' = IF worse \/ probe >= MaxInput THEN "probed" ELSE "probe"
               /\ probe' = IF pc' = "probed" THEN probe ELSE Min({2 * probe, MaxInput})
    BY InputsType, TrialProfit DEF Probe, OptimumInv
  <1>2. /\ q \in Inputs /\ q \in Nat \ {0} /\ b \in Nat /\ probes \in Nat /\ left \in Nat
        /\ q <= MaxInput /\ MinInput <= q /\ Steps \div 2 \in Nat
        /\ lo = MinInput /\ hi = MaxInput
    <2>1. q \in Inputs /\ b \in Nat /\ probes \in Nat /\ left \in Nat /\ Probing
      BY <1>1 DEF OptimumInv
    <2>2. q \in Nat \ {0} /\ q <= MaxInput /\ MinInput <= q
      BY <2>1, InputsType DEF Inputs
    <2>3. Steps \div 2 \in Nat
      BY OptimizerAssumption
    <2> QED
      BY <2>1, <2>2, <2>3 DEF Probing
  <1>3. P \in [Nat -> Nat] /\ e \in Nat /\ NearConcave(P, e) /\ P' = P /\ e' = e
    BY <1>1, GainType, ShapeFrame
  <1>4. best'.profit = P[q]
    BY <1>1, <1>2, <1>3, TrialProfit
  <1>5. lo' = MinInput /\ hi' = MaxInput /\ ~(P[q] < b)
    BY <1>1, <1>2, <1>3
  <1>6. CASE q = MaxInput
    <2>1. pc' = "probed" /\ probe' = q
      BY <1>1, <1>2, <1>6
    <2>2. Seen(P, e, q, P[q], Inputs)
      <3>1. SUFFICES ASSUME NEW x \in Inputs PROVE P[x] <= 2 * P[q] + Allowance(e, q, 0, x)
        BY DEF Seen
      <3>2. x \in Nat /\ x \in MinInput .. q
        BY <1>6, InputsType DEF Inputs
      <3>3. P[x] <= 2 * P[q] + 2 * e /\ P[x] \in Nat /\ P[q] \in Nat
        BY <1>2, <1>3, <3>2
      <3>4. Allowance(e, q, 0, x) \in Nat /\ Allowance(e, q, 0, x) >= 2 * e
        BY <1>2, <1>3, <3>2, AllowanceGrows
      <3> QED
        BY <1>3, <3>3, <3>4
    <2>3. Seen(Gain, Rounding, probe, best.profit, Reach)'
      <3>1. Reach' \subseteq Inputs
        BY <1>2, <1>6, <2>1 DEF Reach, Inputs
      <3>2. Seen(P, e, q, P[q], Reach')
        BY <2>2, <3>1 DEF Seen
      <3> QED
        BY <1>3, <1>4, <2>1, <3>2 DEF Seen, Allowance
    <2>4. Bracketed(0, 2 * probes >= Steps)'
      <3>1. HoldsPeak(P, e, MinInput, MaxInput, q, 0)
        BY <1>2, <1>3, RangeHoldsPeak
      <3>2. P[q] > 0 => DipIsSmall(P, e, MinInput, MaxInput)
        BY <1>2, <1>3, <1>6, RangeHoldsPeak
      <3>3. HoldsPeak(P', e', lo', hi', probe', 0) /\ (best'.profit > 0 => DipIsSmall(P', e', lo', hi'))
        BY <1>3, <1>4, <1>5, <2>1, <3>1, <3>2
      <3> QED
        BY <3>3 DEF Bracketed
    <2> QED
      BY <1>1, <1>2, <1>3, <1>4, <1>5, <2>1, <2>3, <2>4, InputsType
         DEF OptimumInv, Places, Inputs
  <1>7. CASE q < MaxInput
    <2>1. pc' = "probe" /\ probe' = Min({2 * q, MaxInput})
      BY <1>1, <1>2, <1>3, <1>7
    <2>2. probe' = IF 2 * q <= MaxInput THEN 2 * q ELSE MaxInput
      BY <1>2, <2>1, InputsType, MinOfTwo
    <2>3. Doubled(P, e, probe', P[q])
      <3>1. q = MinInput \/ \E r \in Inputs : q = 2 * r /\ P[r] <= P[q]
        <4>1. CASE q = MinInput
          BY <4>1
        <4>2. ASSUME NEW r \in Inputs, q = 2 * r, P[r] <= b PROVE P[r] <= P[q]
          <5>1. r \in Nat /\ P[r] \in Nat /\ P[q] \in Nat
            BY <1>2, <1>3, InputsType
          <5> QED
            BY <1>2, <4>2, <5>1
        <4> QED
          BY <1>7, <4>1, <4>2
      <3>2. \A x \in MinInput .. q : P[x] <= 2 * P[q] + 2 * e
        OBVIOUS
      <3> HIDE DEF P, e, q
      <3> QED
        BY <1>2, <1>7, <2>2, <3>1, <3>2 DEF Doubled
    <2>4. probe' \in Inputs
      BY <1>2, <2>2, InputsType DEF Inputs
    <2>5. Probing'
      <3>1. Doubled(P', e', probe', best'.profit)
        BY <1>3, <1>4, <2>3
      <3>2. probes' <= Steps \div 2 /\ probes' > 0
        BY <1>1, <1>2
      <3> QED
        BY <1>5, <3>1, <3>2 DEF Probing
    <2> QED
      BY <1>1, <1>2, <1>3, <1>4, <1>5, <2>1, <2>4, <2>5, InputsType
         DEF OptimumInv, Places, Inputs
  <1> QED
    BY <1>2, <1>6, <1>7, InputsType

\* A probe that is worse than the one before closes the bracket.
LEMMA WorseProbe ==
    ASSUME OptimumInv, Probe, Gain[probe] < best.profit,
           Doubled(Gain, Rounding, probe, best.profit)
    PROVE  OptimumInv'
  <1> DEFINE P == Gain
             e == Rounding
             q == probe
             b == best.profit
  <1>1. /\ path' = path /\ left' = left /\ pc = "probe" /\ probes' = probes + 1
        /\ best' = Better(Trial(probe), best)
        /\ lo' = IF probe > 2 * MinInput THEN probe \div 4 ELSE lo
        /\ hi' = probe /\ pc' = "probed" /\ probe' = probe
    BY InputsType, TrialProfit DEF Probe, OptimumInv
  <1>2. /\ q \in Inputs /\ q \in Nat \ {0} /\ b \in Nat /\ probes \in Nat /\ left \in Nat
        /\ q <= MaxInput /\ MinInput <= q /\ lo = MinInput
    BY <1>1, InputsType DEF OptimumInv, Inputs, Probing
  <1>3. P \in [Nat -> Nat] /\ e \in Nat /\ NearConcave(P, e) /\ P' = P /\ e' = e
    BY <1>1, GainType, ShapeFrame
  <1>4. best'.profit = b
    BY <1>1, <1>2, <1>3, TrialProfit
  <1>5. PICK p \in Inputs :
          /\ p < MaxInput
          /\ q = IF 2 * p <= MaxInput THEN 2 * p ELSE MaxInput
          /\ P[p] = b
          /\ \A x \in MinInput .. p : P[x] <= 2 * b + 2 * e
          /\ p = MinInput \/ \E r \in Inputs : p = 2 * r /\ P[r] <= b
    BY DEF Doubled
  <1>6. /\ p \in Nat \ {0} /\ p < q /\ q <= 2 * p /\ (q = 2 * p \/ q = MaxInput)
        /\ P[q] < P[p] /\ P[p] \in Nat /\ P[q] \in Nat /\ P[p] > 0
    <2>1. p \in Nat \ {0} /\ MaxInput \in Nat
      BY InputsType DEF Inputs
    <2>2. P[p] \in Nat /\ P[q] \in Nat
      BY <1>2, <1>3, <2>1
    <2> HIDE DEF P, q
    <2> QED
      BY <1>5, <2>1, <2>2 DEF P, q
  <1>7. Seen(P, e, q, b, Inputs)
    <2>1. SUFFICES ASSUME NEW x \in Inputs PROVE P[x] <= 2 * b + Allowance(e, q, 0, x)
      BY DEF Seen
    <2>2. x \in Nat /\ P[x] \in Nat /\ MaxInput \in Nat /\ x <= MaxInput
      BY <1>3, InputsType DEF Inputs
    <2>3. Allowance(e, q, 0, x) \in Nat /\ Allowance(e, q, 0, x) >= 2 * e
      BY <1>2, <1>3, <2>2, AllowanceGrows
    <2> HIDE DEF P, e, q, b
    <2>4. CASE x <= q
      <3>1. x <= 2 * p
        BY <1>2, <1>6, <2>2, <2>4
      <3>2. P[x] <= 2 * P[p] + 2 * e
        BY <1>3, <1>5, <1>6, <3>1, DoublingSeen
      <3> QED
        BY <1>2, <1>3, <1>5, <2>2, <2>3, <3>2
    <2>5. CASE x > q
      <3>1. q = 2 * p
        BY <1>2, <1>6, <2>2, <2>5
      <3>2. P[x] <= P[p] + Allowance(e, q, 0, x)
        BY <1>2, <1>3, <1>6, <2>2, <2>5, <3>1, BeyondClosing
      <3> QED
        BY <1>2, <1>5, <2>2, <2>3, <3>2
    <2> QED
      BY <1>2, <2>2, <2>4, <2>5
  <1>8. Seen(Gain, Rounding, probe, best.profit, Reach)'
    <2>1. Reach' \subseteq Inputs
      BY <1>1, <1>2, InputsType DEF Reach, Inputs
    <2>2. Seen(P, e, q, b, Reach')
      BY <1>7, <2>1 DEF Seen
    <2> QED
      BY <1>1, <1>3, <1>4, <2>2 DEF Seen, Allowance
  <1>9. lo' <= hi' /\ lo' \in Nat
    BY <1>1, <1>2
  <1>10. Bracketed(0, 2 * probes >= Steps)'
    <2>1. CASE q > 2 * MinInput
      <3>1. p # MinInput
        BY <1>2, <1>6, <2>1, InputsType
      <3>2. PICK r \in Inputs : p = 2 * r /\ P[r] <= b
        BY <1>5, <3>1
      <3>3. r \in Nat \ {0} /\ MinInput <= r /\ P[r] <= P[p]
        BY <1>5, <3>2, InputsType DEF Inputs
      <3> HIDE DEF P, e, q, b
      <3>4. HoldsPeak(P, e, q \div 4, q, q, 0)
        BY <1>2, <1>3, <1>6, <3>2, <3>3, ClosingHoldsPeak
      <3>5. DipIsSmall(P, e, q \div 4, q)
        <4>1. \A x \in MinInput .. p : P[x] <= 2 * P[p] + 2 * e
          BY <1>5
        <4> QED
          BY <1>2, <1>3, <1>6, <3>2, <3>3, <4>1, ClosingDipIsSmall
      <3>6. lo' = q \div 4 /\ hi' = q /\ probe' = q
        BY <1>1, <2>1 DEF q
      <3>7. HoldsPeak(P', e', lo', hi', probe', 0) /\ DipIsSmall(P', e', lo', hi')
        BY <1>3, <3>4, <3>5, <3>6
      <3> QED
        BY <3>7 DEF Bracketed, P, e
    <2>2. CASE ~(q > 2 * MinInput)
      BY <1>1, <2>2 DEF Bracketed
    <2> QED
      BY <2>1, <2>2
  <1> QED
    BY <1>1, <1>2, <1>3, <1>4, <1>8, <1>9, <1>10, InputsType DEF OptimumInv, Places, Inputs

LEMMA ProbeKeepsOptimum ==
    ASSUME OptimumInv, Probe
    PROVE  OptimumInv'
  <1> DEFINE P == Gain
             e == Rounding
             q == probe
             b == best.profit
  <1>1. /\ pc = "probe" /\ Probing /\ q \in Inputs /\ b \in Nat
        /\ q \in Nat \ {0} /\ MinInput <= q /\ q <= MaxInput
    <2>1. pc = "probe" /\ Probing /\ q \in Inputs /\ b \in Nat
      BY DEF Probe, OptimumInv
    <2> QED
      BY <2>1, InputsType DEF Inputs
  <1>2. P \in [Nat -> Nat] /\ e \in Nat /\ NearConcave(P, e) /\ P[q] \in Nat
    BY <1>1, GainType
  <1>3. CASE Ready
    <2>1. q = MinInput /\ P[q] >= b
      BY <1>1, <1>2, <1>3 DEF Ready
    <2>2. \A x \in MinInput .. q : P[x] <= 2 * P[q] + 2 * e
      <3>1. \A x \in MinInput .. q : x = q
        BY <2>1, InputsType
      <3>2. P[q] <= 2 * P[q] + 2 * e
        BY <1>2
      <3> HIDE DEF P, e, q
      <3> QED
        BY <3>1, <3>2
    <2> QED
      BY <2>1, <2>2, BetterProbe
  <1>4. CASE Doubled(P, e, q, b)
    <2>1. CASE P[q] < b
      BY <1>4, <2>1, WorseProbe
    <2>2. CASE P[q] >= b
      <3>1. PICK p \in Inputs :
              /\ p < MaxInput
              /\ q = IF 2 * p <= MaxInput THEN 2 * p ELSE MaxInput
              /\ P[p] = b
              /\ \A x \in MinInput .. p : P[x] <= 2 * b + 2 * e
        BY <1>4 DEF Doubled
      <3>2. p \in Nat \ {0} /\ MaxInput \in Nat
        BY InputsType DEF Inputs
      <3>3. \A x \in MinInput .. q : P[x] <= 2 * P[q] + 2 * e
        <4> SUFFICES ASSUME NEW x \in MinInput .. q PROVE P[x] <= 2 * P[q] + 2 * e
          OBVIOUS
        <4>1. x \in Inputs /\ x \in Nat /\ P[x] \in Nat
          BY <1>1, <1>2, InputsType DEF Inputs
        <4>2. q <= 2 * p /\ x <= 2 * p
          <5> HIDE DEF q
          <5> QED
            BY <1>1, <3>1, <3>2, <4>1
        <4>3. \A y \in MinInput .. p : P[y] <= 2 * P[p] + 2 * e
          BY <3>1
        <4>4. P[x] <= 2 * P[p] + 2 * e
          <5> HIDE DEF P, e, q
          <5> QED
            BY <1>2, <3>2, <4>1, <4>2, <4>3, DoublingSeen
        <4>5. P[p] <= P[q] /\ P[p] \in Nat
          BY <1>1, <1>2, <2>2, <3>1
        <4> QED
          BY <1>2, <4>1, <4>4, <4>5
      <3>4. q < MaxInput => q = 2 * p /\ p \in Inputs /\ P[p] <= b
        BY <1>1, <3>1, <3>2
      <3> QED
        BY <2>2, <3>3, <3>4, BetterProbe
    <2> QED
      BY <1>1, <1>2, <2>1, <2>2
  <1> QED
    BY <1>1, <1>3, <1>4 DEF Probing

LEMMA ProbesUsedUpKeepsOptimum ==
    ASSUME OptimumInv, ProbesUsedUp, Steps >= 2
    PROVE  OptimumInv'
  <1> DEFINE P == Gain
             e == Rounding
             q == probe
             b == best.profit
  <1>1. /\ pc = "probe" /\ pc' = "probed" /\ Probing /\ q \in Inputs /\ b \in Nat /\ probes \in Nat
        /\ UNCHANGED <<path, probe, probes, lo, hi, left, best>>
        /\ ~(probe <= MaxInput /\ probes < Steps \div 2)
    BY DEF ProbesUsedUp, OptimumInv, search
  <1>2. q \in Nat \ {0} /\ q <= MaxInput
    BY <1>1, InputsType DEF Inputs
  <1>3. P \in [Nat -> Nat] /\ e \in Nat /\ NearConcave(P, e) /\ P' = P /\ e' = e
    BY <1>1, GainType, ShapeFrame
  <1>4. Steps \div 2 \in Nat \ {0}
    <2>1. Steps \in Nat
      BY OptimizerAssumption
    <2> QED
      BY <2>1
  <1>5. probes = Steps \div 2 /\ probes > 0 /\ Doubled(P, e, q, b) /\ lo = MinInput /\ hi = MaxInput
    BY <1>1, <1>2, <1>4 DEF Probing, Ready
  <1>6. Seen(P, e, q, b, MinInput .. q)
    <2>1. PICK p \in Inputs :
            /\ p < MaxInput
            /\ q = IF 2 * p <= MaxInput THEN 2 * p ELSE MaxInput
            /\ P[p] = b
            /\ \A x \in MinInput .. p : P[x] <= 2 * b + 2 * e
      BY <1>5 DEF Doubled
    <2>2. p \in Nat \ {0} /\ MaxInput \in Nat
      BY InputsType DEF Inputs
    <2>3. SUFFICES ASSUME NEW x \in MinInput .. q PROVE P[x] <= 2 * b + Allowance(e, q, 0, x)
      BY DEF Seen
    <2>4. x \in Inputs /\ x \in Nat /\ P[x] \in Nat /\ x <= q
      BY <1>2, <1>3, InputsType DEF Inputs
    <2>5. Allowance(e, q, 0, x) \in Nat /\ Allowance(e, q, 0, x) >= 2 * e
      BY <1>2, <1>3, <2>4, AllowanceGrows
    <2> HIDE DEF P, e, q, b
    <2>6. x <= 2 * p
      BY <1>2, <2>1, <2>2, <2>4
    <2>7. P[x] <= 2 * P[p] + 2 * e
      BY <1>3, <2>1, <2>2, <2>4, <2>6, DoublingSeen
    <2> QED
      BY <1>1, <1>3, <2>1, <2>4, <2>5, <2>7
  <1>7. Seen(Gain, Rounding, probe, best.profit, Reach)'
    <2>1. Reach' = MinInput .. q
      BY <1>1, <1>5 DEF Reach
    <2> QED
      BY <1>1, <1>3, <1>6, <2>1 DEF Seen, Allowance
  <1>8. Bracketed(0, 2 * probes >= Steps)'
    <2>1. HoldsPeak(P, e, MinInput, MaxInput, q, 0)
      BY <1>2, <1>3, RangeHoldsPeak
    <2>2. HoldsPeak(P', e', lo', hi', probe', 0)
      BY <1>1, <1>3, <1>5, <2>1
    <2>3. EvenSteps => 2 * probes' >= Steps
      BY <1>1, <1>4, <1>5, OptimizerAssumption DEF EvenSteps
    <2> QED
      BY <2>2, <2>3 DEF Bracketed, EvenSteps
  <1> QED
    BY <1>1, <1>5, <1>7, <1>8 DEF OptimumInv, Places, Inputs

LEMMA RefineStepsType ==
    ASSUME probes \in Nat
    PROVE  RefineSteps \in Nat /\ RefineSteps >= Steps - 2 * probes
                               /\ (2 * probes >= Steps => RefineSteps = 0)
  <1>1. Steps \in Nat /\ Steps - 2 * probes \in Int
    BY OptimizerAssumption
  <1>2. RefineSteps = IF Steps - 2 * probes >= 0 THEN Steps - 2 * probes ELSE 0
    BY <1>1, MaxOfTwo DEF RefineSteps
  <1> QED
    BY <1>1, <1>2

\* What nothing beats twice of, nothing beats twice more of.
LEMMA SeenMore ==
    ASSUME NEW P \in [Nat -> Nat], NEW e \in Nat, NEW q \in Nat \ {0}, NEW X \in SUBSET Nat,
           NEW b \in Nat, NEW c \in Nat, b <= c, Seen(P, e, q, b, X)
    PROVE  Seen(P, e, q, c, X)
  <1> SUFFICES ASSUME NEW x \in X PROVE P[x] <= 2 * c + Allowance(e, q, 0, x)
    BY DEF Seen
  <1>1. x \in Nat /\ P[x] \in Nat /\ Allowance(e, q, 0, x) \in Nat
    BY AllowanceGrows
  <1>2. P[x] <= 2 * b + Allowance(e, q, 0, x)
    BY DEF Seen
  <1> QED
    BY <1>1, <1>2

LEMMA StartRefiningKeepsOptimum ==
    ASSUME OptimumInv, StartRefining
    PROVE  OptimumInv'
  <1>1. /\ pc = "probed" /\ UNCHANGED <<path, best, probe, probes, lo>>
        /\ pc' = IF best.profit = 0 THEN "gate" ELSE "refine"
        /\ hi' = Min({hi, MaxInput}) /\ left' = RefineSteps
    BY DEF StartRefining, RefineSteps
  <1>2. hi <= MaxInput /\ hi \in Nat /\ probes \in Nat /\ best.profit \in Nat
    BY DEF OptimumInv
  <1>3. hi' = hi
    <2>1. MaxInput \in Nat
      BY InputsType
    <2> QED
      BY <1>1, <1>2, <2>1, MinOfTwo
  <1>4. left' \in Nat /\ RefineSteps' = RefineSteps /\ Refinements' = 0
        /\ (2 * probes >= Steps => left' = 0)
    <2>1. RefineSteps \in Nat /\ (2 * probes >= Steps => RefineSteps = 0)
      BY <1>2, RefineStepsType
    <2>2. RefineSteps' = RefineSteps
      BY <1>1 DEF RefineSteps
    <2>3. Refinements' = RefineSteps' - left'
      BY DEF Refinements, RefineSteps
    <2> QED
      BY <1>1, <2>1, <2>2, <2>3
  <1>5. Gain' = Gain /\ Rounding' = Rounding
    BY <1>1, ShapeFrame
  <1>6. Seen(Gain, Rounding, probe, best.profit, Reach)'
    <2>1. Seen(Gain, Rounding, probe, best.profit, Reach)
      BY <1>1 DEF OptimumInv
    <2>2. Reach' = Reach
      BY <1>1 DEF Reach
    <2> QED
      BY <1>1, <1>5, <2>1, <2>2 DEF Seen, Allowance
  <1>7. Bracketed(Refinements, left = 0 \/ pc = "gate")'
    <2>1. Bracketed(0, 2 * probes >= Steps)
      BY <1>1 DEF OptimumInv
    <2>2. ASSUME HoldsPeak(Gain, Rounding, lo, hi, probe, 0)
          PROVE  HoldsPeak(Gain', Rounding', lo', hi', probe', Refinements')
      BY <1>1, <1>3, <1>4, <1>5, <2>2
    <2>3. ASSUME DipIsSmall(Gain, Rounding, lo, hi)
          PROVE  DipIsSmall(Gain', Rounding', lo', hi')
      BY <1>1, <1>3, <1>5, <2>3
    <2> QED
      BY <1>1, <1>4, <2>1, <2>2, <2>3 DEF Bracketed, EvenSteps
  <1>8. /\ path' \in [hops : Cycles, limit : Limits] /\ pc' \in {"gate", "refine"}
        /\ {probe', lo', hi', probes', left', best'.profit} \subseteq Nat
        /\ probe' \in Inputs /\ hi' <= MaxInput /\ lo' <= hi' /\ probes' > 0
        /\ left' <= RefineSteps' /\ (pc' = "refine" => best'.profit > 0)
    BY <1>1, <1>2, <1>3, <1>4 DEF OptimumInv
  <1> QED
    BY <1>6, <1>7, <1>8 DEF OptimumInv, Places, Inputs

LEMMA RefineKeepsOptimum ==
    ASSUME OptimumInv, Refine
    PROVE  OptimumInv'
  <1> DEFINE P == Gain
             e == Rounding
             q == probe
             t == (hi - lo) \div 3
             b1 == Better(Trial(lo + t), best)
             k == Refinements
  <1>1. /\ pc = "refine" /\ left > 0 /\ hi > lo + Tolerance /\ left' = left - 1
        /\ UNCHANGED <<path, pc, probe, probes>>
        /\ best' = Better(Trial(hi - t), b1)
        /\ hi' = IF Trial(lo + t).profit > Trial(hi - t).profit THEN Trial(hi - t).in ELSE hi
        /\ lo' = IF Trial(lo + t).profit > Trial(hi - t).profit THEN lo ELSE Trial(lo + t).in
    BY DEF Refine
  <1>2. /\ lo \in Nat /\ hi \in Nat /\ lo <= hi /\ hi <= MaxInput /\ q \in Inputs /\ q \in Nat \ {0}
        /\ probes \in Nat /\ probes > 0 /\ left \in Nat /\ left <= RefineSteps
        /\ best.profit \in Nat /\ best.profit > 0
        /\ path \in [hops : Cycles, limit : Limits]
    BY <1>1, InputsType DEF OptimumInv, Inputs
  <1>3. P \in [Nat -> Nat] /\ e \in Nat /\ NearConcave(P, e) /\ P' = P /\ e' = e
    BY <1>1, GainType, ShapeFrame
  <1>4. t \in Nat /\ 3 * t <= hi - lo /\ lo + t \in Nat /\ hi - t \in Nat
    <2>1. t \in Nat /\ 3 * t <= hi - lo
      BY <1>2
    <2> HIDE DEF t
    <2> QED
      BY <1>2, <2>1
  <1>5. /\ best'.profit \in Nat /\ best'.profit >= best.profit
    <2>1. P[lo + t] \in Nat /\ P[hi - t] \in Nat
      BY <1>3, <1>4
    <2>2. b1.profit = IF P[lo + t] > best.profit THEN P[lo + t] ELSE best.profit
      BY <1>4, TrialProfit
    <2> HIDE DEF b1
    <2>3. best'.profit = IF P[hi - t] > b1.profit THEN P[hi - t] ELSE b1.profit
      BY <1>1, <1>4, TrialProfit
    <2> QED
      BY <1>2, <2>1, <2>2, <2>3
  <1>6. /\ hi' = IF P[lo + t] > P[hi - t] THEN hi - t ELSE hi
        /\ lo' = IF P[lo + t] > P[hi - t] THEN lo ELSE lo + t
    BY <1>1, <1>4, TrialProfit
  <1> HIDE DEF t, P, e, q, b1
  <1>7. k \in Nat /\ Refinements' = k + 1 /\ RefineSteps' = RefineSteps
    <2>1. RefineSteps \in Nat
      BY <1>2, RefineStepsType
    <2>2. k = RefineSteps - left /\ Refinements' = RefineSteps' - left'
      BY DEF Refinements, RefineSteps
    <2>3. RefineSteps' = RefineSteps
      BY <1>1 DEF RefineSteps
    <2> HIDE DEF k
    <2> QED
      BY <1>1, <1>2, <2>1, <2>2, <2>3
  <1>8. lo' \in Nat /\ hi' \in Nat /\ lo' <= hi' /\ hi' <= MaxInput
    <2>1. MaxInput \in Nat
      BY InputsType
    <2> QED
      BY <1>2, <1>4, <1>6, <2>1
  <1>9. Seen(Gain, Rounding, probe, best.profit, Reach)'
    <2>1. Seen(P, e, q, best.profit, Reach) /\ Reach \in SUBSET Nat
      BY <1>1, InputsType DEF OptimumInv, Reach, P, e, q
    <2>2. Seen(P, e, q, best'.profit, Reach)
      <3> DEFINE b == best.profit
                 c == best'.profit
                 X == Reach
      <3>1. b \in Nat /\ c \in Nat /\ b <= c /\ Seen(P, e, q, b, X) /\ X \in SUBSET Nat
        BY <1>2, <1>5, <2>1
      <3> HIDE DEF b, c, X
      <3>2. Seen(P, e, q, c, X)
        BY <1>2, <1>3, <3>1, SeenMore
      <3> QED
        BY <3>2 DEF c, X
    <2>3. Reach' = Reach
      BY <1>1 DEF Reach
    <2> QED
      BY <1>1, <1>3, <2>2, <2>3 DEF Seen, Allowance, P, e, q
  <1>10. ASSUME HoldsPeak(P, e, lo, hi, q, k), DipIsSmall(P, e, lo, hi)
         PROVE  HoldsPeak(P, e, lo', hi', q, k + 1) /\ DipIsSmall(P, e, lo', hi')
    <2> DEFINE l == lo
               h == hi
    <2>1. l \in Nat /\ h \in Nat /\ l <= h /\ t = (h - l) \div 3 /\ t \in Nat
      BY <1>2, <1>4 DEF t
    <2>2. HoldsPeak(P, e, l, h, q, k) /\ DipIsSmall(P, e, l, h)
      BY <1>10
    <2>3. P[l + t] \in Nat /\ P[h - t] \in Nat
      BY <1>3, <1>4
    <2> HIDE DEF l, h, k
    <2>4. CASE t = 0
      <3>1. lo' = l /\ hi' = h
        BY <1>6, <2>1, <2>4 DEF l, h
      <3>2. HoldsPeak(P, e, l, h, q, k + 1)
        <4>1. ASSUME NEW m \in Nat, Covers(P, e, q, k, m) PROVE Covers(P, e, q, k + 1, m)
          BY <1>2, <1>3, <1>7, <4>1, CoversMore
        <4>2. 6 * e \in Nat /\ \A y \in l .. h : P[y] \in Nat
          BY <1>3, <2>1
        <4> QED
          BY <2>2, <4>1, <4>2 DEF HoldsPeak
      <3> QED
        BY <2>2, <3>1, <3>2
    <2>5. CASE t > 0 /\ P[l + t] > P[h - t]
      <3>1. HoldsPeak(P, e, l, h - t, q, k + 1) /\ DipIsSmall(P, e, l, h - t)
        BY <1>2, <1>3, <1>7, <2>1, <2>2, <2>5, DropRightThird
      <3>2. lo' = l /\ hi' = h - t
        BY <1>6, <2>5 DEF l, h
      <3> QED
        BY <3>1, <3>2
    <2>6. CASE t > 0 /\ P[l + t] <= P[h - t] /\ P[h - t] > 0
      <3>1. HoldsPeak(P, e, l + t, h, q, k + 1) /\ DipIsSmall(P, e, l + t, h)
        BY <1>2, <1>3, <1>7, <2>1, <2>2, <2>6, DropLeftThird
      <3>2. lo' = l + t /\ hi' = h
        BY <1>6, <2>3, <2>6 DEF l, h
      <3> QED
        BY <3>1, <3>2
    <2>7. CASE t > 0 /\ P[l + t] = 0 /\ P[h - t] = 0
      <3>1. HoldsPeak(P, e, l + t, h, q, k + 1) /\ DipIsSmall(P, e, l + t, h)
        BY <1>2, <1>3, <1>7, <2>1, <2>2, <2>7, DropAtTie
      <3>2. lo' = l + t /\ hi' = h
        BY <1>6, <2>3, <2>7 DEF l, h
      <3> QED
        BY <3>1, <3>2
    <2> QED
      BY <2>1, <2>3, <2>4, <2>5, <2>6, <2>7
  <1>11. Bracketed(Refinements, left = 0 \/ pc = "gate")'
    <2>1. EvenSteps /\ probe > 2 * MinInput
            => HoldsPeak(P, e, lo, hi, q, k) /\ DipIsSmall(P, e, lo, hi)
      BY <1>1, <1>2 DEF OptimumInv, Bracketed, P, e, q
    <2>2. ASSUME HoldsPeak(P, e, lo', hi', q, k + 1), DipIsSmall(P, e, lo', hi')
          PROVE  /\ HoldsPeak(Gain', Rounding', lo', hi', probe', Refinements')
                 /\ DipIsSmall(Gain', Rounding', lo', hi')
      BY <1>1, <1>3, <1>7, <2>2 DEF P, e, q
    <2> QED
      BY <1>1, <1>10, <2>1, <2>2 DEF Bracketed, EvenSteps
  <1>12. /\ path' \in [hops : Cycles, limit : Limits] /\ pc' = "refine"
         /\ {probe', lo', hi', probes', left', best'.profit} \subseteq Nat
         /\ probe' \in Inputs /\ probes' > 0
         /\ left' <= RefineSteps' /\ best'.profit > 0
    <2>1. left' \in Nat /\ left' <= RefineSteps'
      <3>1. RefineSteps \in Nat
        BY <1>2, RefineStepsType
      <3> QED
        BY <1>1, <1>2, <1>7, <3>1
    <2> QED
      BY <1>1, <1>2, <1>5, <1>8, <2>1 DEF q
  <1> QED
    BY <1>8, <1>9, <1>11, <1>12 DEF OptimumInv, Places, Inputs

LEMMA RestKeepsOptimum ==
    ASSUME OptimumInv, RefineEnds \/ Accept \/ Reject \/ Finished \/ UNCHANGED vars
    PROVE  OptimumInv'
  <1>1. UNCHANGED <<path, probe, probes, lo, hi, left, best>>
    BY DEF RefineEnds, Accept, Reject, Finished, vars, search
  <1>2. Gain' = Gain /\ Rounding' = Rounding
    BY <1>1, ShapeFrame
  <1>3. /\ path' \in [hops : Cycles, limit : Limits]
        /\ {probe', lo', hi', probes', left', best'.profit} \subseteq Nat
        /\ probe' \in Inputs /\ lo' <= hi' /\ hi' <= MaxInput
    BY <1>1 DEF OptimumInv
  <1>4. Reach' = Reach /\ Refinements' = Refinements /\ RefineSteps' = RefineSteps /\ EvenSteps' = EvenSteps
    BY <1>1 DEF Reach, Refinements, RefineSteps, EvenSteps
  <1>5. /\ Seen(Gain, Rounding, probe, best.profit, Reach)' = Seen(Gain, Rounding, probe, best.profit, Reach)
        /\ HoldsPeak(Gain, Rounding, lo, hi, probe, Refinements)'
             = HoldsPeak(Gain, Rounding, lo, hi, probe, Refinements)
        /\ HoldsPeak(Gain, Rounding, lo, hi, probe, 0)' = HoldsPeak(Gain, Rounding, lo, hi, probe, 0)
        /\ DipIsSmall(Gain, Rounding, lo, hi)' = DipIsSmall(Gain, Rounding, lo, hi)
    BY <1>1, <1>2, <1>4
  <1>6. CASE UNCHANGED vars
    BY <1>1, <1>2, <1>3, <1>4, <1>5, <1>6
       DEF OptimumInv, Probing, Ready, Bracketed, Doubled, Inputs, vars
  <1>7. CASE RefineEnds
    <2>1. pc = "refine" /\ pc' = "gate"
      BY <1>7 DEF RefineEnds
    <2> QED
      BY <1>1, <1>3, <1>4, <1>5, <2>1 DEF OptimumInv, Bracketed, Places, Inputs
  <1>8. CASE Accept \/ Reject
    <2>1. pc = "gate" /\ pc' = "done" /\ probes > 0 /\ probes \in Nat
      BY <1>8 DEF Accept, Reject, OptimumInv
    <2> QED
      BY <1>1, <1>3, <2>1 DEF OptimumInv, Places, Inputs
  <1> QED
    BY <1>6, <1>7, <1>8 DEF Finished

LEMMA StepKeepsOptimum ==
    ASSUME Steps >= 2
    PROVE  OptimumInv /\ [Next]_vars => OptimumInv'
  BY ViabilityKeepsOptimum, ProbeKeepsOptimum, ProbesUsedUpKeepsOptimum,
     StartRefiningKeepsOptimum, RefineKeepsOptimum, RestKeepsOptimum DEF Next

\* Whatever a simulator sends to the transaction sender was quoted with that
\* very output, repays a loan from any lender no dearer than the provider it was
\* sized for, and pays for gas and min_profit_wei within one unit's value
\* (simulate_and_optimize, steps 3 to 4c): for any pools, settings of the flash
\* loan, V2 and V3 prices and numbers of steps, if max_input is not between
\* twice and four times min_input.  A fallback to a dearer Aave is not covered:
\* see LoanRepaid.
THEOREM AcceptedAlwaysPays == ASSUME WideRange PROVE Spec => []AcceptedPays
  <1>1. SearchInv => AcceptedPays
    BY DEF SearchInv
  <1>2. SearchInv /\ [Next]_vars => SearchInv'
    BY StepKeepsSearch
  <1> QED
    BY <1>1, <1>2, InitSearch, PTL DEF Spec

\* The short cut of step 1 of simulate_and_optimize gives up no path that would
\* earn more than roundings at any amount: for any pools, limits, fees and
\* numbers of steps that allow one probe.
THEOREM GivenUpNeverEarns == ASSUME Steps >= 2 PROVE Spec => []GivenUpEarnsNothing
  <1>1. OptimumInv => GivenUpEarnsNothing
    BY InputsType, GainType DEF OptimumInv, GivenUpEarnsNothing
  <1>2. OptimumInv /\ [Next]_vars => OptimumInv'
    BY StepKeepsOptimum
  <1> QED
    BY <1>1, <1>2, InitOptimum, PTL DEF Spec

\* The answer of optimize_input_with_db earns half of what any amount in reach
\* of its probes would, roundings aside: for any pools, limits, fees and numbers
\* of steps that allow one probe.
THEOREM AnswerIsHalfOfPeak == ASSUME Steps >= 2 PROVE Spec => []HalfOfPeak
  <1>1. OptimumInv => HalfOfPeak
    <2> SUFFICES ASSUME OptimumInv, pc = "gate", NEW in \in Reach
                 PROVE  Profit(in) <= 2 * best.profit + Rounding * (2 + 2 * (in \div probe))
      BY DEF HalfOfPeak
    <2>1. Seen(Gain, Rounding, probe, best.profit, Reach)
      BY DEF OptimumInv
    <2>2. Gain[in] <= 2 * best.profit + Rounding * (2 + 2 * 0 + 2 * (in \div probe))
      BY <2>1 DEF Seen, Allowance
    <2>3. in \in Nat /\ probe \in Nat \ {0}
      BY InputsType DEF Reach, OptimumInv, Inputs
    <2>4. Gain[in] = Profit(in) /\ in \div probe \in Nat
      BY <2>3, GainType, DivBounds
    <2>5. 2 + 2 * 0 + 2 * (in \div probe) = 2 + 2 * (in \div probe)
      BY <2>4
    <2> QED
      BY <2>2, <2>4, <2>5
  <1>2. OptimumInv /\ [Next]_vars => OptimumInv'
    BY StepKeepsOptimum
  <1> QED
    BY <1>1, <1>2, InitOptimum, PTL DEF Spec

\* The bracket of optimize_input_with_db keeps an amount of maximal profit,
\* roundings aside, from the worse probe that closes it through every third
\* that is dropped: for any pools, limits, fees and tolerance, if
\* optimization_steps is even and the second probe was not already worse.
THEOREM BracketAlwaysHoldsPeak ==
    ASSUME Steps >= 2, Steps = 2 * (Steps \div 2)
    PROVE  Spec => []BracketHoldsPeak
  <1>1. OptimumInv => BracketHoldsPeak
    <2> SUFFICES ASSUME OptimumInv, pc \in {"refine", "gate"}, best.profit > 0, probe > 2 * MinInput
                 PROVE  \E y \in lo .. hi : NothingBeats(Profit(y), 8 + 2 * Refinements)
      BY DEF BracketHoldsPeak
    <2> DEFINE P == Gain
               e == Rounding
               k == Refinements
    <2>1. /\ lo \in Nat /\ hi \in Nat /\ lo <= hi /\ probe \in Nat \ {0} /\ probes \in Nat /\ left \in Nat
          /\ left <= RefineSteps /\ HoldsPeak(P, e, lo, hi, probe, k)
      BY InputsType DEF OptimumInv, Bracketed, EvenSteps, Inputs
    <2>2. P \in [Nat -> Nat] /\ e \in Nat /\ \A x \in Nat : P[x] = Profit(x)
      BY GainType
    <2>3. k \in Nat
      <3>1. RefineSteps \in Nat /\ k = RefineSteps - left
        BY <2>1, RefineStepsType DEF Refinements, RefineSteps
      <3> HIDE DEF k
      <3> QED
        BY <2>1, <3>1
    <2>4. ASSUME NEW y \in lo .. hi, NEW m \in Nat, m <= Profit(y) + 6 * e, Covers(P, e, probe, k, m)
          PROVE  NothingBeats(Profit(y), 8 + 2 * k)
      <3> SUFFICES ASSUME NEW x \in Inputs
                   PROVE  Profit(x) <= Profit(y) + e * (8 + 2 * k + 2 * (x \div probe))
        BY DEF NothingBeats
      <3>1. x \in Nat /\ y \in Nat /\ Profit(x) = P[x] /\ Profit(x) \in Nat /\ Profit(y) \in Nat
        BY <2>1, <2>2, InputsType
      <3>2. P[x] <= m + e * (2 + 2 * k + 2 * (x \div probe))
        BY <2>4 DEF Covers, Allowance
      <3> DEFINE d == x \div probe
      <3>3. d \in Nat
        BY <2>1, <3>1, DivBounds
      <3> HIDE DEF d, k, e
      <3>4. e * (8 + 2 * k + 2 * d) = 6 * e + e * (2 + 2 * k + 2 * d)
        BY <2>2, <2>3, <3>3
      <3>5. e * (2 + 2 * k + 2 * d) \in Nat
        BY <2>2, <2>3, <3>3
      <3> QED
        BY <2>2, <2>4, <3>1, <3>2, <3>4, <3>5 DEF d
    <2>5. CASE Covers(P, e, probe, k, 6 * e)
      <3>1. lo \in lo .. hi /\ Profit(lo) \in Nat /\ 6 * e \in Nat
        BY <2>1, <2>2
      <3>2. 6 * e <= Profit(lo) + 6 * e
        BY <3>1
      <3>3. NothingBeats(Profit(lo), 8 + 2 * k)
        BY <2>4, <2>5, <3>1, <3>2
      <3> QED
        BY <3>1, <3>3
    <2>6. ASSUME NEW y \in lo .. hi, Covers(P, e, probe, k, P[y])
          PROVE  NothingBeats(Profit(y), 8 + 2 * k)
      <3>1. P[y] \in Nat /\ P[y] = Profit(y) /\ P[y] <= Profit(y) + 6 * e
        BY <2>1, <2>2
      <3> QED
        BY <2>4, <2>6, <3>1
    <2> QED
      BY <2>1, <2>5, <2>6 DEF HoldsPeak
  <1>2. OptimumInv /\ [Next]_vars => OptimumInv'
    BY StepKeepsOptimum
  <1> QED
    BY <1>1, <1>2, InitOptimum, PTL DEF Spec
=============================================================================
