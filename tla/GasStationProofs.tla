-------------------------- MODULE GasStationProofs --------------------------
(***************************************************************************)
(* For every gas limit, gas use and share of the profit, and every         *)
(* interleaving of stores and loads: the fee signed with covers the base   *)
(* fee of the next block, for the EIP-1559 parameters of the chains in     *)
(* config.rs (6 and 50 on Base, 2 and 8 on BSC and Avalanche).             *)
(***************************************************************************)
EXTENDS GasStation, TLAPS

\* The base fee moves by an eighth a block at most, it is so large that a step
\* of one is less than a seventh, and the gas limits are so large that their
\* remainder by the elasticity does not count; and headers report a base fee.
SteadyFees ==
    /\ HeadersCarryFee
    /\ 8 * (Elasticity - 1) <= Denominator /\ 8 <= Denominator
    /\ 7 <= MinBaseFee
    /\ \A l \in GasLimits : 5 * Elasticity <= l

\* The chain obeys EIP-1559.
ChainOK ==
    /\ headers \in Seq([fee : Nat, used : Nat, limit : GasLimits])
    /\ headers # << >>
    /\ \A i \in DOMAIN headers : /\ MinBaseFee <= headers[i].fee
                                 /\ headers[i].used <= headers[i].limit
    /\ \A i \in DOMAIN headers :
         i + 1 \in DOMAIN headers => headers[i + 1].fee = CalcNextBaseFee(headers[i])

\* A copy of the base fee is that of the block it is of.
Copied(fields, blocks) ==
    /\ fields \in [Fields -> Nat]
    /\ blocks \in [Fields -> Nat]
    /\ blocks.fee # 0 => /\ blocks.fee \in DOMAIN headers
                         /\ fields.fee = headers[blocks.fee].fee

\* What is being stored is of a block of the chain.
StoringOK ==
    /\ storing \in [block : Nat, left : SUBSET Fields]
    /\ storing.left # {} => storing.block \in DOMAIN headers

\* The fee signed with is twice the prediction at least.
SignedOK ==
    prediction # 0 =>
        /\ toLoad = {}
        /\ prediction = CalcNextBaseFee(loaded)
        /\ maxFee \in Nat /\ 2 * prediction <= maxFee

GasInv ==
    /\ ChainOK
    /\ StoringOK
    /\ Copied(cell, source)
    /\ Copied(loaded, origin)
    /\ SignedOK

-----------------------------------------------------------------------------
(* Arithmetic of calc_next_base_fee *)

LEMMA DivFacts ==
    ASSUME NEW a \in Nat, NEW b \in Nat \ {0}
    PROVE  a \div b \in Nat /\ b * (a \div b) <= a /\ a < b * (a \div b) + b
  OBVIOUS

\* Gas below a target takes an eighth of the fee at most.
LEMMA FallsByEighth ==
    ASSUME NEW f \in Nat, NEW gas \in Nat, NEW target \in Nat \ {0}, gas <= target,
           NEW d \in Nat \ {0}, 8 <= d
    PROVE  /\ ((f * gas) \div target) \div d \in Nat
           /\ 8 * (((f * gas) \div target) \div d) <= f
  <1> DEFINE x == (f * gas) \div target
             y == x \div d
  <1>1. f * gas <= f * target /\ f * gas \in Nat /\ f * target \in Nat
    OBVIOUS
  <1>2. target * x <= f * gas /\ x \in Nat
    BY <1>1, DivFacts
  <1> HIDE DEF x
  <1>3. target * x <= target * f
    BY <1>1, <1>2
  <1>4. x <= f
    BY <1>2, <1>3
  <1>5. y \in Nat /\ d * y <= x
    BY <1>2, DivFacts
  <1> HIDE DEF y
  <1>6. 8 * y <= d * y
    BY <1>5
  <1>7. d * y \in Nat
    BY <1>5
  <1>8. 8 * y <= f
    BY <1>2, <1>4, <1>5, <1>6, <1>7
  <1> QED
    BY <1>5, <1>8 DEF x, y

\* Gas above it adds three twentieths at most.
LEMMA RisesByThreeTwentieths ==
    ASSUME NEW f \in Nat, NEW gas \in Nat, NEW target \in Nat, 5 <= target,
           NEW e \in Nat \ {0}, gas <= e * (target + 1),
           NEW d \in Nat \ {0}, 8 * e <= d
    PROVE  /\ ((f * gas) \div target) \div d \in Nat
           /\ 20 * (((f * gas) \div target) \div d) <= 3 * f
  <1> DEFINE x == (f * gas) \div target
             y == x \div d
  <1>1. e * target \in Nat /\ e <= e * target /\ 5 * e <= e * target
    OBVIOUS
  <1>2. 5 * gas <= 6 * (e * target)
    <2>1. e * (target + 1) = e * target + e
      OBVIOUS
    <2> QED
      BY <1>1, <2>1
  <1>3. f * gas \in Nat /\ f * (5 * gas) <= f * (6 * (e * target))
    BY <1>1, <1>2
  <1>4. target * x <= f * gas /\ x \in Nat
    BY <1>3, DivFacts
  <1> HIDE DEF x
  <1>5. target * (5 * x) <= target * (6 * (f * e))
    <2>1. target * (5 * x) = 5 * (target * x)
      BY <1>4
    <2>2. f * (5 * gas) = 5 * (f * gas)
      OBVIOUS
    <2>3. target * (6 * (f * e)) = f * (6 * (e * target))
      OBVIOUS
    <2>4. target * x \in Nat
      BY <1>4
    <2> QED
      BY <1>3, <1>4, <2>1, <2>2, <2>3, <2>4
  <1>6. 5 * x <= 6 * (f * e) /\ f * e \in Nat
    BY <1>4, <1>5
  <1>7. y \in Nat /\ d * y <= x
    BY <1>4, DivFacts
  <1> HIDE DEF y
  <1>8. e * (8 * y) <= d * y
    <2>1. e * (8 * y) = (8 * e) * y
      BY <1>7
    <2> QED
      BY <1>7, <2>1
  <1>9. e * (40 * y) <= e * (6 * f)
    <2>1. e * (40 * y) = 5 * (e * (8 * y)) /\ e * (6 * f) = 6 * (f * e)
      BY <1>7
    <2>2. e * (8 * y) \in Nat /\ d * y \in Nat
      BY <1>7
    <2> QED
      BY <1>4, <1>6, <1>7, <1>8, <2>1, <2>2
  <1>10. 40 * y <= 6 * f
    BY <1>7, <1>9
  <1>11. 20 * y <= 3 * f
    BY <1>7, <1>10
  <1> QED
    BY <1>7, <1>11 DEF x, y

\* A product of natural numbers divided by two positive ones.
LEMMA DeltaType ==
    ASSUME NEW f \in Nat, NEW gas \in Nat, NEW target \in Nat \ {0}, NEW d \in Nat \ {0}
    PROVE  ((f * gas) \div target) \div d \in Nat
  <1>1. f * gas \in Nat
    OBVIOUS
  <1>2. (f * gas) \div target \in Nat
    BY <1>1, DivFacts
  <1> QED
    BY <1>2, DivFacts

\* The base fee of the next block is at most 23/20 of that of this one.
LEMMA NextFeeBound ==
    ASSUME SteadyFees, NEW h \in [fee : Nat, used : Nat, limit : GasLimits],
           MinBaseFee <= h.fee, h.used <= h.limit
    PROVE  /\ CalcNextBaseFee(h) \in Nat
           /\ MinBaseFee <= CalcNextBaseFee(h)
           /\ 20 * CalcNextBaseFee(h) <= 23 * h.fee
  <1> DEFINE target == h.limit \div Elasticity
             Delta(gas) == ((h.fee * gas) \div target) \div Denominator
             e == Elasticity - 1
  <1>1. /\ h.fee \in Nat /\ h.used \in Nat /\ h.limit \in Nat /\ 5 * Elasticity <= h.limit
        /\ Elasticity \in Nat \ {0} /\ Denominator \in Nat \ {0} /\ MinBaseFee \in Nat
        /\ 7 <= h.fee /\ 7 <= MinBaseFee
        /\ e \in Nat /\ 8 * e <= Denominator /\ 8 <= Denominator /\ Elasticity = e + 1
    <2>1. /\ h.fee \in Nat /\ h.used \in Nat /\ h.limit \in GasLimits
          /\ GasLimits \subseteq Nat \ {0} /\ 5 * Elasticity <= h.limit
      BY GasAssumption DEF SteadyFees
    <2>2. /\ Elasticity \in Nat \ {0} /\ Denominator \in Nat \ {0} /\ MinBaseFee \in Nat
          /\ 7 <= MinBaseFee /\ 8 * e <= Denominator /\ 8 <= Denominator
      BY GasAssumption DEF SteadyFees
    <2>3. e \in Nat /\ Elasticity = e + 1
      BY <2>2
    <2>4. h.limit \in Nat
      BY <2>1
    <2> HIDE DEF e
    <2>5. 7 <= h.fee
      BY <2>1, <2>2
    <2> QED
      BY <2>1, <2>2, <2>3, <2>4, <2>5
  <1>2. /\ target \in Nat
        /\ Elasticity * target <= h.limit
        /\ h.limit < Elasticity * target + Elasticity
    BY <1>1, DivFacts
  <1> HIDE DEF target, e
  <1>3. 5 <= target
    <2>1. Elasticity * 5 < Elasticity * (target + 1)
      BY <1>1, <1>2
    <2>2. 5 < target + 1
      BY <1>1, <1>2, <2>1
    <2> QED
      BY <1>2, <2>2
  <1>4. target \in Nat \ {0} /\ target # 0
    BY <1>2, <1>3
  <1>5. CASE h.used > target
    <2> DEFINE g == h.used - target
    <2>1. g \in Nat /\ 0 < g /\ g < e * target + e + 1
      <3>1. Elasticity * target + Elasticity = e * target + target + e + 1
        BY <1>1, <1>2
      <3>2. e * target \in Nat
        BY <1>1, <1>2
      <3> QED
        BY <1>1, <1>2, <1>5, <3>1, <3>2
    <2> HIDE DEF g
    <2>2. g <= e * (target + 1)
      <3>1. e * (target + 1) = e * target + e /\ e * target \in Nat
        BY <1>1, <1>2
      <3> QED
        BY <1>1, <2>1, <3>1
    <2>3. e \in Nat \ {0}
      <3>1. e = 0 => e * (target + 1) = 0
        BY <1>2
      <3> QED
        BY <1>1, <2>1, <2>2, <3>1
    <2>4. Delta(g) \in Nat /\ 20 * Delta(g) <= 3 * h.fee
      BY <1>1, <1>2, <1>3, <2>1, <2>2, <2>3, RisesByThreeTwentieths
    <2>5. CalcNextBaseFee(h) = Larger(MinBaseFee, h.fee + Larger(Delta(g), 1))
      BY <1>4, <1>5 DEF CalcNextBaseFee, target, g
    <2> HIDE DEF Delta
    <2>6. Larger(Delta(g), 1) \in Nat /\ 20 * Larger(Delta(g), 1) <= 3 * h.fee
      BY <1>1, <2>4 DEF Larger
    <2>7. /\ Larger(MinBaseFee, h.fee + Larger(Delta(g), 1)) = h.fee + Larger(Delta(g), 1)
          /\ h.fee + Larger(Delta(g), 1) \in Nat
      BY <1>1, <2>6 DEF Larger
    <2> QED
      BY <1>1, <2>5, <2>6, <2>7
  <1>6. CASE ~(h.used > target)
    <2> DEFINE g == target - h.used
    <2>1. g \in Nat /\ g <= target
      BY <1>1, <1>2, <1>6
    <2> HIDE DEF g
    <2>2. Delta(g) \in Nat
      BY <1>1, <1>4, <2>1, FallsByEighth
    <2>3. CalcNextBaseFee(h) = Larger(MinBaseFee, h.fee - Delta(g))
      BY <1>4, <1>6 DEF CalcNextBaseFee, target, g
    <2> HIDE DEF Delta
    <2>4. /\ Larger(MinBaseFee, h.fee - Delta(g)) \in Nat
          /\ MinBaseFee <= Larger(MinBaseFee, h.fee - Delta(g))
          /\ Larger(MinBaseFee, h.fee - Delta(g)) <= h.fee
      BY <1>1, <2>2 DEF Larger
    <2> QED
      BY <1>1, <2>3, <2>4
  <1> QED
    BY <1>5, <1>6

\* A prediction is at least 7/8 of the fee that it starts from, whatever gas
\* use and gas limit it finds.
LEMMA PredictionBound ==
    ASSUME SteadyFees, NEW h \in [Fields -> Nat]
    PROVE  CalcNextBaseFee(h) \in Nat /\ 7 * h.fee <= 8 * CalcNextBaseFee(h)
  <1> DEFINE target == h.limit \div Elasticity
             Delta(gas) == ((h.fee * gas) \div target) \div Denominator
  <1>1. /\ h.fee \in Nat /\ h.used \in Nat /\ h.limit \in Nat
        /\ Elasticity \in Nat \ {0} /\ Denominator \in Nat \ {0} /\ MinBaseFee \in Nat
        /\ 8 <= Denominator
    BY GasAssumption DEF SteadyFees, Fields
  <1>2. target \in Nat
    BY <1>1, DivFacts
  <1> HIDE DEF target
  <1>3. CASE target = 0
    <2>1. CalcNextBaseFee(h) = Larger(h.fee, MinBaseFee)
      BY <1>3 DEF CalcNextBaseFee, target
    <2>2. Larger(h.fee, MinBaseFee) \in Nat /\ h.fee <= Larger(h.fee, MinBaseFee)
      BY <1>1 DEF Larger
    <2> QED
      BY <1>1, <2>1, <2>2
  <1>4. CASE target # 0 /\ h.used > target
    <2> DEFINE g == h.used - target
    <2>1. g \in Nat
      BY <1>1, <1>2, <1>4
    <2> HIDE DEF g
    <2>2. Delta(g) \in Nat
      BY <1>1, <1>2, <1>4, <2>1, DeltaType
    <2>3. CalcNextBaseFee(h) = Larger(MinBaseFee, h.fee + Larger(Delta(g), 1))
      BY <1>4 DEF CalcNextBaseFee, target, g
    <2> HIDE DEF Delta
    <2>4. Larger(Delta(g), 1) \in Nat
      BY <2>2 DEF Larger
    <2>5. /\ Larger(MinBaseFee, h.fee + Larger(Delta(g), 1)) \in Nat
          /\ h.fee <= Larger(MinBaseFee, h.fee + Larger(Delta(g), 1))
      BY <1>1, <2>4 DEF Larger
    <2> QED
      BY <1>1, <2>3, <2>5
  <1>5. CASE target # 0 /\ ~(h.used > target)
    <2> DEFINE g == target - h.used
    <2>1. g \in Nat /\ g <= target
      BY <1>1, <1>2, <1>5
    <2> HIDE DEF g
    <2>2. Delta(g) \in Nat /\ 8 * Delta(g) <= h.fee
      BY <1>1, <1>2, <1>5, <2>1, FallsByEighth
    <2>3. CalcNextBaseFee(h) = Larger(MinBaseFee, h.fee - Delta(g))
      BY <1>5 DEF CalcNextBaseFee, target, g
    <2> HIDE DEF Delta
    <2>4. /\ h.fee - Delta(g) \in Nat /\ 7 * h.fee <= 8 * (h.fee - Delta(g))
      BY <1>1, <2>2
    <2>5. /\ Larger(MinBaseFee, h.fee - Delta(g)) \in Nat
          /\ h.fee - Delta(g) <= Larger(MinBaseFee, h.fee - Delta(g))
      BY <1>1, <2>4 DEF Larger
    <2> QED
      BY <1>1, <2>3, <2>4, <2>5
  <1> QED
    BY <1>3, <1>4, <1>5

\* Twice the fee that is bid covers twice the base fee.
LEMMA MaxFeeBound ==
    ASSUME NEW base \in Nat, NEW share \in Shares
    PROVE  MaxFeePerGas(base, share) \in Nat /\ 2 * base <= MaxFeePerGas(base, share)
  BY GasAssumption DEF MaxFeePerGas, Larger, Smaller

-----------------------------------------------------------------------------
(* The inductive invariant *)

LEMMA InitGas == ASSUME SteadyFees, Init PROVE GasInv
  <1>1. PICK l \in GasLimits : headers = <<[fee |-> FirstFee, used |-> 0, limit |-> l]>>
    BY DEF Init
  <1>2. ChainOK
    <2> DEFINE h == [fee |-> FirstFee, used |-> 0, limit |-> l]
    <2>1. /\ h \in [fee : Nat, used : Nat, limit : GasLimits]
          /\ MinBaseFee <= h.fee /\ h.used <= h.limit
      BY GasAssumption
    <2> HIDE DEF h
    <2>2. /\ headers \in Seq([fee : Nat, used : Nat, limit : GasLimits])
          /\ DOMAIN headers = {1} /\ headers[1] = h /\ headers # << >>
      BY <1>1, <2>1 DEF h
    <2> QED
      BY <2>1, <2>2 DEF ChainOK
  <1>3. Copied(cell, source)
    <2>1. source = [f \in Fields |-> 0]
          /\ cell = [fee |-> IF LiveSeed # 0 THEN LiveSeed ELSE MinBaseFee,
                     used |-> 0, limit |-> InitialLimit]
      BY DEF Init
    <2>2. (IF LiveSeed # 0 THEN LiveSeed ELSE MinBaseFee) \in Nat /\ InitialLimit \in Nat
      BY GasAssumption
    <2> QED
      BY <2>1, <2>2 DEF Copied, Fields
  <1>4. Copied(loaded, origin)
    BY DEF Init, Copied, Fields
  <1>5. StoringOK /\ SignedOK
    BY DEF Init, StoringOK, SignedOK, Fields
  <1> QED
    BY <1>2, <1>3, <1>4, <1>5 DEF GasInv

\* A block of a chain.
LEMMA HeaderAt ==
    ASSUME NEW S, NEW q \in Seq(S), NEW i \in DOMAIN q
    PROVE  q[i] \in S
  OBVIOUS

\* A chain with a block more.
LEMMA AppendHeader ==
    ASSUME NEW S, NEW q \in Seq(S), NEW x \in S
    PROVE  /\ Append(q, x) \in Seq(S) /\ Append(q, x) # << >>
           /\ DOMAIN Append(q, x) = 1 .. Len(q) + 1
           /\ \A i \in 1 .. Len(q) : Append(q, x)[i] = q[i]
           /\ Append(q, x)[Len(q) + 1] = x
  OBVIOUS

\* A step of the tracker or the sender leaves the chain alone.
LEMMA ChainFrame ==
    ASSUME UNCHANGED headers
    PROVE  /\ ChainOK => ChainOK'
           /\ \A fields, blocks : Copied(fields, blocks) = Copied(fields, blocks)'
  BY DEF ChainOK, Copied, CalcNextBaseFee, Larger

\* The base fee of a block is on its copies.
LEMMA CopyField ==
    ASSUME NEW fields, NEW blocks, Copied(fields, blocks),
           NEW f \in Fields, NEW v \in Nat, NEW n \in Nat,
           f = "fee" /\ n # 0 => n \in DOMAIN headers /\ v = headers[n].fee
    PROVE  Copied([fields EXCEPT ![f] = v], [blocks EXCEPT ![f] = n])
  BY DEF Copied, Fields

LEMMA StepGas == ASSUME SteadyFees, GasInv, [Next]_vars PROVE GasInv'
  <1>0. ChainOK /\ StoringOK /\ Copied(cell, source) /\ Copied(loaded, origin) /\ SignedOK
    BY DEF GasInv
  <1>1. CASE Mine
    <2>1. PICK l \in GasLimits : \E u \in {0, l} :
            headers' = Append(headers, [fee |-> CalcNextBaseFee(Last(headers)),
                                        used |-> u, limit |-> l])
      BY <1>1 DEF Mine
    <2>2. PICK u \in {0, l} :
            headers' = Append(headers, [fee |-> CalcNextBaseFee(Last(headers)),
                                        used |-> u, limit |-> l])
      BY <2>1
    <2> DEFINE n == Len(headers)
               h == [fee |-> CalcNextBaseFee(Last(headers)), used |-> u, limit |-> l]
    <2>3. /\ n \in Nat \ {0} /\ DOMAIN headers = 1 .. n
          /\ Last(headers) = headers[n]
          /\ headers[n] \in [fee : Nat, used : Nat, limit : GasLimits]
          /\ MinBaseFee <= headers[n].fee /\ headers[n].used <= headers[n].limit
      <3>1. n \in Nat \ {0} /\ DOMAIN headers = 1 .. n
        BY <1>0 DEF ChainOK
      <3>2. headers[n] \in [fee : Nat, used : Nat, limit : GasLimits]
        <4>1. headers \in Seq([fee : Nat, used : Nat, limit : GasLimits]) /\ n \in DOMAIN headers
          BY <1>0, <3>1 DEF ChainOK
        <4> HIDE DEF n
        <4> QED
          BY <4>1, HeaderAt
      <3> QED
        BY <1>0, <3>1, <3>2 DEF ChainOK, Last
    <2>4. CalcNextBaseFee(Last(headers)) \in Nat /\ MinBaseFee <= CalcNextBaseFee(Last(headers))
      BY <2>3, NextFeeBound
    <2>5. /\ h \in [fee : Nat, used : Nat, limit : GasLimits]
          /\ MinBaseFee <= h.fee /\ h.used <= h.limit
          /\ h.fee = CalcNextBaseFee(headers[n])
      BY <2>3, <2>4, GasAssumption
    <2> HIDE DEF h
    <2>6. /\ headers' \in Seq([fee : Nat, used : Nat, limit : GasLimits])
          /\ headers' # << >> /\ DOMAIN headers' = 1 .. n + 1
          /\ \A i \in 1 .. n : headers'[i] = headers[i]
          /\ headers'[n + 1] = h
      <3>1. headers' = Append(headers, h)
        BY <2>2 DEF h
      <3>2. headers \in Seq([fee : Nat, used : Nat, limit : GasLimits])
        BY <1>0 DEF ChainOK
      <3> HIDE DEF n
      <3>3. n = Len(headers)
        BY DEF n
      <3> QED
        BY <2>3, <2>5, <3>1, <3>2, <3>3, AppendHeader
    <2> HIDE DEF n
    <2>7. \A i \in 1 .. n + 1 : i = n + 1 \/ i \in 1 .. n
      BY <2>3
    <2>8. ChainOK'
      <3>1. \A i \in DOMAIN headers' : /\ MinBaseFee <= headers'[i].fee
                                       /\ headers'[i].used <= headers'[i].limit
        BY <1>0, <2>3, <2>5, <2>6, <2>7 DEF ChainOK
      <3>2. ASSUME NEW i \in DOMAIN headers', i + 1 \in DOMAIN headers'
            PROVE  headers'[i + 1].fee = CalcNextBaseFee(headers'[i])
        <4>1. i \in 1 .. n /\ headers'[i] = headers[i]
          BY <2>3, <2>6, <3>2
        <4>2. CASE i = n
          BY <2>5, <2>6, <4>1, <4>2
        <4>3. CASE i # n
          <5>1. i + 1 \in 1 .. n
            BY <2>3, <4>1, <4>3
          <5> QED
            BY <1>0, <2>3, <2>6, <4>1, <5>1 DEF ChainOK
        <4> QED
          BY <4>2, <4>3
      <3>3. \A i : CalcNextBaseFee(headers[i])' = CalcNextBaseFee(headers'[i])
        BY DEF CalcNextBaseFee, Larger
      <3> QED
        BY <2>6, <3>1, <3>2, <3>3 DEF ChainOK
    <2>9. /\ UNCHANGED <<cell, source, storing, loaded, origin, toLoad, prediction, maxFee>>
          /\ \A i \in DOMAIN headers : i \in DOMAIN headers' /\ headers'[i] = headers[i]
      BY <1>1, <2>3, <2>6 DEF Mine, sender
    <2>10. StoringOK' /\ Copied(cell, source)' /\ Copied(loaded, origin)'
      BY <1>0, <2>9 DEF StoringOK, Copied
    <2>11. SignedOK'
      BY <1>0, <2>9 DEF SignedOK, CalcNextBaseFee, Larger
    <2> QED
      BY <2>8, <2>10, <2>11 DEF GasInv
  <1>2. ASSUME UNCHANGED headers, StoringOK', Copied(cell, source)', Copied(loaded, origin)',
               SignedOK'
        PROVE  GasInv'
    BY <1>0, <1>2, ChainFrame DEF GasInv
  <1>3. CASE Update
    <2>1. /\ UNCHANGED <<headers, cell, source, loaded, origin, toLoad, prediction, maxFee>>
          /\ \E n \in 1 .. Len(headers) : storing' = [block |-> n, left |-> Fields]
      BY <1>3 DEF Update, sender
    <2>2. StoringOK'
      BY <1>0, <2>1 DEF StoringOK, ChainOK, Fields
    <2> QED
      BY <1>0, <1>2, <2>1, <2>2 DEF Copied, SignedOK, CalcNextBaseFee, Larger
  <1>4. ASSUME NEW f \in Fields, Store(f) PROVE GasInv'
    <2> DEFINE h == headers[storing.block]
               v == IF f = "fee" /\ ~HeadersCarryFee THEN 0 ELSE h[f]
    <2>1. /\ UNCHANGED <<headers, loaded, origin, toLoad, prediction, maxFee>>
          /\ storing.left # {}
          /\ cell' = [cell EXCEPT ![f] = v]
          /\ source' = [source EXCEPT ![f] = storing.block]
          /\ storing' = [storing EXCEPT !.left = @ \ {f}]
      BY <1>4 DEF Store, sender
    <2>2. storing.block \in Nat /\ storing.block \in DOMAIN headers
      BY <1>0, <2>1 DEF StoringOK
    <2>3. h \in [fee : Nat, used : Nat, limit : GasLimits]
      BY <1>0, <2>2, HeaderAt DEF ChainOK
    <2>4. v \in Nat /\ (f = "fee" => v = headers[storing.block].fee)
      <3>1. h.fee \in Nat /\ h.used \in Nat /\ h.limit \in Nat
        BY <2>3, GasAssumption
      <3>2. h[f] \in Nat
        BY <3>1 DEF Fields
      <3> QED
        BY <3>2 DEF SteadyFees
    <2> HIDE DEF v, h
    <2>5. Copied(cell, source)'
      <3>1. Copied([cell EXCEPT ![f] = v], [source EXCEPT ![f] = storing.block])
        BY <1>0, <2>2, <2>4, CopyField
      <3> QED
        BY <2>1, <3>1 DEF Copied
    <2>6. StoringOK'
      BY <1>0, <2>1 DEF StoringOK
    <2>7. Copied(loaded, origin)' /\ SignedOK'
      BY <1>0, <2>1 DEF Copied, SignedOK, CalcNextBaseFee, Larger
    <2> QED
      BY <1>2, <2>1, <2>5, <2>6, <2>7
  <1>5. ASSUME NEW f \in Fields, Load(f) PROVE GasInv'
    <2>1. /\ UNCHANGED <<headers, cell, source, storing, prediction, maxFee>>
          /\ f \in toLoad
          /\ loaded' = [loaded EXCEPT ![f] = cell[f]]
          /\ origin' = [origin EXCEPT ![f] = source[f]]
      BY <1>5 DEF Load
    <2>2. /\ cell[f] \in Nat /\ source[f] \in Nat
          /\ f = "fee" /\ source[f] # 0 =>
               source[f] \in DOMAIN headers /\ cell[f] = headers[source[f]].fee
      BY <1>0 DEF Copied
    <2>3. Copied(loaded, origin)'
      <3>1. Copied([loaded EXCEPT ![f] = cell[f]], [origin EXCEPT ![f] = source[f]])
        BY <1>0, <2>2, CopyField
      <3> QED
        BY <2>1, <3>1 DEF Copied
    <2>4. StoringOK' /\ Copied(cell, source)'
      BY <1>0, <2>1 DEF StoringOK, Copied
    <2>5. SignedOK'
      BY <1>0, <2>1 DEF SignedOK
    <2> QED
      BY <1>2, <2>1, <2>3, <2>4, <2>5
  <1>6. CASE Sign
    <2>1. /\ UNCHANGED <<headers, cell, source, storing, loaded, origin, toLoad>>
          /\ toLoad = {}
          /\ prediction' = CalcNextBaseFee(loaded)
      BY <1>6 DEF Sign
    <2>2. PICK share \in Shares : maxFee' = MaxFeePerGas(prediction', share)
      BY <1>6 DEF Sign
    <2>3. prediction' \in Nat
      BY <1>0, <2>1, PredictionBound DEF Copied
    <2>4. maxFee' \in Nat /\ 2 * prediction' <= maxFee'
      BY <2>2, <2>3, MaxFeeBound
    <2>5. SignedOK'
      BY <2>1, <2>4 DEF SignedOK, CalcNextBaseFee, Larger
    <2> QED
      BY <1>0, <1>2, <2>1, <2>5 DEF StoringOK, Copied
  <1>7. CASE Again
    <2>1. /\ UNCHANGED <<headers, cell, source, storing>>
          /\ loaded' = [f \in Fields |-> 0] /\ origin' = [f \in Fields |-> 0]
          /\ prediction' = 0
      BY <1>7 DEF Again
    <2> QED
      BY <1>0, <1>2, <2>1 DEF StoringOK, Copied, SignedOK, Fields
  <1>8. CASE UNCHANGED vars
    <2>1. UNCHANGED <<headers, cell, source, storing, loaded, origin, toLoad, prediction, maxFee>>
      BY <1>8 DEF vars, sender
    <2> QED
      BY <1>0, <1>2, <2>1 DEF StoringOK, Copied, SignedOK, CalcNextBaseFee, Larger
  <1> QED
    BY <1>1, <1>3, <1>4, <1>5, <1>6, <1>7, <1>8 DEF Next

\* A transaction signed with the base fee of one of the last Slack + 1 blocks
\* covers the base fee of the next one: the fee rises to less than 7/4 in Slack
\* + 1 blocks, the prediction loses an eighth at most, and build_and_send
\* doubles it (gas_station.rs, tx_sender_pipeline.rs).
THEOREM FeeCoversNextBlock ==
    ASSUME SteadyFees
    PROVE  Spec => []CoversNextBlock
  <1>1. ASSUME GasInv, prediction # 0, origin.fee # 0, origin.fee + Slack >= Len(headers)
        PROVE  maxFee >= CalcNextBaseFee(Last(headers))
    <2> DEFINE n == Len(headers)
               i == origin.fee
               Fee(k) == CalcNextBaseFee(headers[k])
    <2>1. /\ headers \in Seq([fee : Nat, used : Nat, limit : GasLimits])
          /\ n \in Nat \ {0} /\ DOMAIN headers = 1 .. n /\ Last(headers) = headers[n]
      BY <1>1 DEF GasInv, ChainOK, Last
    <2>2. i \in 1 .. n /\ i \in Nat /\ n <= i + 3 /\ loaded.fee = headers[i].fee
      BY <1>1, <2>1 DEF GasInv, Copied, Slack, Fields
    <2>3. \A k \in 1 .. n : /\ Fee(k) \in Nat /\ headers[k].fee \in Nat
                            /\ 20 * Fee(k) <= 23 * headers[k].fee
      <3>1. \A k \in 1 .. n : headers[k] \in [fee : Nat, used : Nat, limit : GasLimits]
        BY <2>1, HeaderAt
      <3>2. \A k \in 1 .. n : MinBaseFee <= headers[k].fee /\ headers[k].used <= headers[k].limit
        BY <1>1, <2>1 DEF GasInv, ChainOK
      <3> QED
        BY <3>1, <3>2, NextFeeBound
    <2>4. \A k \in 1 .. n : k + 1 \in 1 .. n => headers[k + 1].fee = Fee(k)
      BY <1>1, <2>1 DEF GasInv, ChainOK
    <2>5. /\ prediction \in Nat /\ 7 * headers[i].fee <= 8 * prediction
          /\ maxFee \in Nat /\ 2 * prediction <= maxFee
      BY <1>1, <2>2, PredictionBound DEF GasInv, Copied, SignedOK
    <2> HIDE DEF n, i, Fee
    <2>6. 4 * Fee(n) <= 7 * headers[i].fee
      <3>0. n \in Nat /\ i \in Nat /\ i <= n /\ n <= i + 3 /\ n \in 1 .. n
        BY <2>1, <2>2
      <3>1. n = i \/ n = i + 1 \/ n = i + 2 \/ n = i + 3
        BY <3>0
      <3>2. CASE n = i
        BY <2>2, <2>3, <3>2
      <3>3. CASE n = i + 1
        BY <2>2, <2>3, <2>4, <3>3
      <3>4. CASE n = i + 2
        <4>1. i + 1 \in 1 .. n /\ n = (i + 1) + 1
          BY <2>1, <2>2, <3>4
        <4>2. headers[i + 1].fee = Fee(i) /\ headers[n].fee = Fee(i + 1)
          BY <2>1, <2>2, <2>4, <4>1
        <4> QED
          BY <2>2, <2>3, <3>0, <4>1, <4>2
      <3>5. CASE n = i + 3
        <4>1. /\ i + 1 \in 1 .. n /\ i + 2 \in 1 .. n /\ i + 2 = (i + 1) + 1
              /\ n = (i + 2) + 1 /\ n \in 1 .. n
          BY <2>1, <2>2, <3>5
        <4>2. /\ headers[i + 1].fee = Fee(i) /\ headers[i + 2].fee = Fee(i + 1)
              /\ headers[n].fee = Fee(i + 2)
          BY <2>1, <2>2, <2>4, <4>1
        <4> QED
          BY <2>2, <2>3, <4>1, <4>2
      <3> QED
        BY <3>1, <3>2, <3>3, <3>4, <3>5
    <2>7. Fee(n) \in Nat /\ headers[i].fee \in Nat
      BY <2>1, <2>2, <2>3
    <2>8. maxFee >= Fee(n)
      BY <2>5, <2>6, <2>7
    <2> QED
      BY <2>1, <2>8 DEF Fee
  <1>2. GasInv => CoversNextBlock
    BY <1>1 DEF CoversNextBlock
  <1>3. Init => GasInv
    BY InitGas
  <1>4. GasInv /\ [Next]_vars => GasInv'
    BY StepGas
  <1> QED
    BY <1>2, <1>3, <1>4, PTL DEF Spec
=============================================================================
