----------------------------- MODULE SwaperProofs -----------------------------
(***************************************************************************)
(* Theorems about Swaper, for any pools, reserves, fees, widths and paths. *)
(***************************************************************************)
EXTENDS Swaper, SequenceTheorems, NatSets, TLAPS

-----------------------------------------------------------------------------
(***************************************************************************)
(* Arithmetic.                                                             *)
(***************************************************************************)
LEMMA Times ==
  ASSUME NEW x \in Int, NEW y \in Int, NEW z \in Nat, x <= y
  PROVE  x * z <= y * z /\ z * x <= z * y
  OBVIOUS

LEMMA TimesStrict ==
  ASSUME NEW x \in Int, NEW y \in Int, NEW z \in Nat \ {0}, x < y
  PROVE  x * z < y * z /\ z * x < z * y
  OBVIOUS

LEMMA Cancel ==
  ASSUME NEW x \in Int, NEW y \in Int, NEW z \in Nat \ {0}, z * x < z * y
  PROVE  x < y
  <1>1. CASE y <= x
    <2>1. z * y <= z * x
      BY <1>1, Times
    <2>2. z * y \in Int /\ z * x \in Int
      OBVIOUS
    <2> QED
      BY <2>1, <2>2
  <1> QED
    BY <1>1

(* The quotient and the remainder.                                         *)
LEMMA Division ==
  ASSUME NEW n \in Int, NEW d \in Nat \ {0}
  PROVE  /\ n \div d \in Int /\ n % d \in 0 .. d - 1
         /\ n = d * (n \div d) + (n % d)
  OBVIOUS

LEMMA Quotient ==
  ASSUME NEW n \in Int, NEW d \in Nat \ {0}, NEW q \in Int, d * q <= n, n < d * q + d
  PROVE  n \div d = q
  <1> DEFINE r == n \div d
  <1>1. r \in Int /\ d * r <= n /\ n < d * r + d
    BY Division
  <1> HIDE DEF r
  <1>2. d * q < d * (r + 1) /\ d * r < d * (q + 1)
    BY <1>1
  <1>3. q < r + 1 /\ r < q + 1
    BY <1>1, <1>2, Cancel
  <1> QED
    BY <1>1, <1>3 DEF r

(***************************************************************************)
(* What a pool gives: at a fee not below its own, its product check holds. *)
(***************************************************************************)
LEMMA QuoteBounds ==
  ASSUME NEW a \in Nat, NEW in \in Nat, NEW out \in Nat, NEW fee \in 0 .. Base - 1
  PROVE  /\ GetAmountOut(a, in, out, fee) \in 0 .. out
         /\ (in * Base + a * (Base - fee)) * GetAmountOut(a, in, out, fee) <= a * (Base - fee) * out
         /\ in # 0 /\ out # 0 => GetAmountOut(a, in, out, fee) < out
         /\ a = 0 => GetAmountOut(a, in, out, fee) = 0
  <1> DEFINE c == Base - fee
             paid == a * c
             sum == in * Base + paid
             n == paid * out
             b == GetAmountOut(a, in, out, fee)
  <1>1. /\ Base \in Nat \ {0} /\ c \in Nat \ {0} /\ paid \in Nat /\ in * Base \in Nat /\ sum \in Nat
        /\ n \in Nat
    <2>1. Base \in Nat \ {0} /\ c \in Nat \ {0}
      BY PoolAssumption
    <2> HIDE DEF c
    <2>2. paid \in Nat /\ in * Base \in Nat
      BY <2>1
    <2> HIDE DEF paid
    <2> QED
      BY <2>1, <2>2
  <1>2. b = IF sum = 0 THEN 0 ELSE n \div sum
    BY DEF GetAmountOut
  <1>3. a = 0 => paid = 0
    BY <1>1
  <1>4. in # 0 => in * Base # 0
    <2>1. in # 0 => 0 * Base < in * Base
      BY <1>1, TimesStrict
    <2> QED
      BY <1>1, <2>1
  <1>5. a * (Base - fee) * out = n /\ in * Base + a * (Base - fee) = sum
    OBVIOUS
  <1> HIDE DEF c, paid, b
  <1>6. CASE sum = 0
    <2>1. b = 0 /\ paid = 0 /\ in * Base = 0
      BY <1>1, <1>2, <1>6
    <2>2. n = 0 /\ sum * b = 0
      BY <1>1, <2>1
    <2> QED
      BY <1>1, <1>4, <1>5, <2>1, <2>2 DEF b
  <1>7. CASE sum # 0
    <2>1. b \in Int /\ sum * b <= n /\ n < sum * b + sum
      <3> HIDE DEF sum, n
      <3> QED
        BY <1>1, <1>2, <1>7, Division
    <2>2. n <= sum * out
      BY <1>1, Times
    <2>3. in # 0 /\ out # 0 => n < sum * out
      <3>1. in # 0 => paid < sum
        BY <1>1, <1>4
      <3> QED
        BY <1>1, <3>1, TimesStrict
    <2>4. b >= 0
      <3>1. CASE b < 0
        <4>1. b + 1 <= 0 /\ b + 1 \in Int
          BY <2>1, <3>1
        <4>2. sum * (b + 1) <= sum * 0
          BY <1>1, <4>1, Times
        <4>3. sum * (b + 1) = sum * b + sum /\ sum * 0 = 0
          BY <1>1, <2>1
        <4> QED
          BY <1>1, <2>1, <4>2, <4>3
      <3> QED
        BY <2>1, <3>1
    <2>5. b <= out
      <3>1. CASE out < b
        <4>1. sum * out < sum * b
          BY <1>1, <1>7, <2>1, <3>1, TimesStrict
        <4>2. sum * out \in Int /\ sum * b \in Int
          BY <1>1, <2>1
        <4> QED
          BY <1>1, <2>1, <2>2, <4>1, <4>2
      <3> QED
        BY <2>1, <3>1
    <2>6. in # 0 /\ out # 0 => b < out
      <3> SUFFICES ASSUME in # 0, out # 0 PROVE b < out
        OBVIOUS
      <3>1. sum * b < sum * out
        <4>1. sum * out \in Int /\ sum * b \in Int
          BY <1>1, <2>1
        <4> QED
          BY <1>1, <2>1, <2>3, <4>1
      <3> QED
        BY <1>1, <1>7, <2>1, <3>1, Cancel
    <2>7. a = 0 => b = 0
      <3> SUFFICES ASSUME a = 0 PROVE b = 0
        OBVIOUS
      <3>1. n = 0
        BY <1>1, <1>3
      <3>2. sum * b <= 0
        BY <2>1, <3>1
      <3>3. CASE b > 0
        <4>1. sum * 0 < sum * b
          BY <1>1, <1>7, <2>1, <3>3, TimesStrict
        <4> QED
          BY <1>1, <2>1, <3>2, <4>1
      <3> QED
        BY <2>1, <2>4, <3>3
    <2> QED
      BY <1>5, <2>1, <2>4, <2>5, <2>6, <2>7 DEF b
  <1> QED
    BY <1>6, <1>7

(* What is paid in, less the fee.                                          *)
Kept(in, a, fee) == in * Base + a * (Base - fee)

LEMMA AdjustedIs ==
  ASSUME NEW a \in Nat, NEW in \in Nat, NEW fee \in 0 .. Base - 1
  PROVE  /\ Adjusted(in + a, a, fee) = Kept(in, a, fee) /\ Kept(in, a, fee) \in Nat
         /\ in * Base <= Kept(in, a, fee)
  <1>1. Base \in Nat /\ Base - fee \in Nat
    BY PoolAssumption
  <1>2. in * Base \in Nat /\ a * (Base - fee) \in Nat /\ a * Base \in Nat /\ a * fee \in Nat
    BY <1>1
  <1>3. a * (Base - fee) = a * Base - a * fee /\ (in + a) * Base = in * Base + a * Base
    BY <1>1
  <1> QED
    BY <1>2, <1>3 DEF Kept, Adjusted

(* The check of Pair.sol, without what stands on both sides.               *)
Passes(in, out, a, b, fee) == Kept(in, a, fee) * (out - b) >= in * Base * out

LEMMA QuotePasses ==
  ASSUME NEW a \in Nat, NEW in \in Nat, NEW out \in Nat,
         NEW fee \in 0 .. Base - 1, NEW own \in 0 .. Base - 1, own <= fee
  PROVE  Passes(in, out, a, GetAmountOut(a, in, out, fee), own)
  <1> DEFINE b == GetAmountOut(a, in, out, fee)
             e == Kept(in, a, own)
             d == Kept(in, a, fee)
             paid == a * (Base - fee)
  <1>1. Base \in Nat /\ Base - fee \in Nat /\ Base - own \in Nat /\ Base - fee <= Base - own
    BY PoolAssumption
  <1>2. paid \in Nat /\ in * Base \in Nat /\ d = in * Base + paid
    BY <1>1 DEF Kept
  <1>3. b \in 0 .. out /\ d * b <= paid * out
    BY QuoteBounds DEF Kept
  <1>4. a * (Base - fee) <= a * (Base - own)
    BY <1>1, Times
  <1>5. e \in Nat /\ d \in Nat /\ d <= e
    <2>1. a * (Base - own) \in Nat
      BY <1>1
    <2> QED
      BY <1>1, <1>2, <1>4, <2>1 DEF Kept
  <1> HIDE DEF b, e, d, paid
  <1>6. out - b \in Nat /\ d * (out - b) <= e * (out - b)
    BY <1>3, <1>5, Times
  <1>7. d * (out - b) = d * out - d * b /\ d * out = in * Base * out + paid * out
    BY <1>2, <1>3
  <1>8. d * out \in Int /\ d * b \in Int /\ paid * out \in Int /\ in * Base * out \in Int
        /\ e * (out - b) \in Int /\ d * (out - b) \in Int
    BY <1>2, <1>3, <1>5, <1>6
  <1>9. in * Base * out <= e * (out - b)
    BY <1>3, <1>6, <1>7, <1>8
  <1> QED
    BY <1>9, <1>8 DEF Passes, e, b

LEMMA CheckIs ==
  ASSUME NEW a \in Nat, NEW in \in Nat, NEW out \in Nat, NEW b \in 0 .. out,
         NEW fee \in 0 .. Base - 1
  PROVE  /\ Kept(in, a, fee) * ((out - b) * Base) >= in * out * Base * Base
              <=> Passes(in, out, a, b, fee)
         /\ Kept(in, a, fee) * (out - b) * Base >= in * out * Base * Base
              <=> Passes(in, out, a, b, fee)
  <1> DEFINE k == Kept(in, a, fee)
             x == k * (out - b)
             y == in * Base * out
  <1>1. Base \in Nat \ {0} /\ out - b \in Nat
    BY PoolAssumption
  <1>2. k \in Nat
    BY AdjustedIs
  <1> HIDE DEF k
  <1>3. x \in Int /\ y \in Int
    BY <1>1, <1>2
  <1>4. k * ((out - b) * Base) = x * Base /\ in * out * Base * Base = y * Base
    BY <1>1, <1>2
  <1> HIDE DEF x, y
  <1>5. x * Base >= y * Base <=> x >= y
    <2>1. CASE x < y
      <3>1. x * Base < y * Base
        BY <1>1, <1>3, <2>1, TimesStrict
      <3>2. x * Base \in Int /\ y * Base \in Int
        BY <1>1, <1>3
      <3> QED
        BY <1>3, <2>1, <3>1, <3>2
    <2>2. CASE y <= x
      <3>1. y * Base <= x * Base
        BY <1>1, <1>3, <2>2, Times
      <3>2. x * Base \in Int /\ y * Base \in Int
        BY <1>1, <1>3
      <3> QED
        BY <1>3, <2>2, <3>1, <3>2
    <2> QED
      BY <1>3, <2>1, <2>2
  <1>6. Passes(in, out, a, b, fee) <=> x >= y
    BY DEF Passes, x, y, k
  <1> QED
    BY <1>4, <1>5, <1>6 DEF x, k

(* Seen from what is taken out.                                            *)
LEMMA PassesMeans ==
  ASSUME NEW a \in Nat, NEW in \in Nat, NEW out \in Nat, NEW b \in 0 .. out,
         NEW fee \in 0 .. Base - 1
  PROVE  Passes(in, out, a, b, fee) <=> Kept(in, a, fee) * b <= a * (Base - fee) * out
  <1> DEFINE k == Kept(in, a, fee)
             paid == a * (Base - fee)
  <1>1. Base \in Nat /\ Base - fee \in Nat
    BY PoolAssumption
  <1>2. k \in Nat
    BY AdjustedIs
  <1>3. paid \in Nat /\ in * Base \in Nat /\ k = in * Base + paid
    BY <1>1 DEF Kept
  <1>4. Passes(in, out, a, b, fee) <=> k * (out - b) >= in * Base * out
    BY DEF Passes
  <1> HIDE DEF k, paid
  <1>5. k * (out - b) = k * out - k * b /\ k * out = in * Base * out + paid * out
    BY <1>2, <1>3
  <1>6. k * out \in Int /\ k * b \in Int /\ paid * out \in Int /\ in * Base * out \in Int
    BY <1>1, <1>2, <1>3
  <1>7. Passes(in, out, a, b, fee) <=> k * b <= paid * out
    BY <1>4, <1>5, <1>6
  <1> QED
    BY <1>7 DEF k, paid

(* The quote is the most that passes.                                      *)
LEMMA QuoteIsMost ==
  ASSUME NEW a \in Nat, NEW in \in Nat \ {0}, NEW out \in Nat \ {0},
         NEW fee \in 0 .. Base - 1, NEW b \in 0 .. out - 1, Passes(in, out, a, b, fee)
  PROVE  b <= GetAmountOut(a, in, out, fee)
  <1> DEFINE d == Kept(in, a, fee)
             n == a * (Base - fee) * out
             q == GetAmountOut(a, in, out, fee)
  <1>1. Base \in Nat \ {0} /\ Base - fee \in Nat
    BY PoolAssumption
  <1>2. d \in Nat /\ in * Base <= d
    BY AdjustedIs
  <1>3. in * Base \in Nat \ {0}
    BY <1>1
  <1>4. d \in Nat \ {0} /\ n \in Nat
    BY <1>1, <1>2, <1>3
  <1>5. q = n \div d
    BY <1>4 DEF GetAmountOut, Kept
  <1>6. d * b <= n
    BY PassesMeans
  <1> HIDE DEF d, n, q
  <1>7. q \in Int /\ n < d * q + d
    BY <1>4, <1>5, Division
  <1>8. d * b < d * (q + 1)
    <2>1. d * (q + 1) = d * q + d /\ d * b \in Int /\ d * q \in Int
      BY <1>4, <1>7
    <2> QED
      BY <1>4, <1>6, <1>7, <2>1
  <1>9. b < q + 1
    BY <1>4, <1>7, <1>8, Cancel
  <1> QED
    BY <1>7, <1>9 DEF q

-----------------------------------------------------------------------------
(***************************************************************************)
(* What CalculatePairFee makes of a swap of a pool.                        *)
(***************************************************************************)
LEMMA CeilIs ==
  ASSUME NEW n \in Int, NEW d \in Nat \ {0}
  PROVE  CeilDiv(n, d) \in Int /\ n <= d * CeilDiv(n, d)
  <1> DEFINE c == CeilDiv(n, d)
  <1>1. c = (n + d - 1) \div d /\ n + d - 1 \in Int
    BY DEF CeilDiv
  <1>2. c \in Int /\ n + d - 1 < d * c + d
    <2> DEFINE m == n + d - 1
    <2> HIDE DEF m
    <2> QED
      BY <1>1, Division DEF m
  <1> HIDE DEF c
  <1>3. d * c \in Int
    BY <1>2
  <1>4. n <= d * c
    BY <1>2, <1>3
  <1> QED
    BY <1>2, <1>4 DEF c

(* The product of the reserves grows by the fee, at least.                 *)
LEMMA ProductGrows ==
  ASSUME NEW a \in Nat, NEW in \in Nat, NEW out \in Nat, NEW b \in 0 .. out,
         NEW fee \in 0 .. Base - 1, Passes(in, out, a, b, fee)
  PROVE  /\ (in + a) * (out - b) - in * out \in Nat
         /\ Gap((in + a) * (out - b), in * out) = (in + a) * (out - b) - in * out
         /\ a * fee * (out - b) <= Base * ((in + a) * (out - b) - in * out)
         /\ in * b <= a * (out - b)
  <1> DEFINE rest == out - b
             new == (in + a) * rest
             old == in * out
             taken == a * fee
  <1>1. Base \in Nat \ {0} /\ Base - fee \in Nat /\ rest \in Nat /\ b \in Nat
    BY PoolAssumption
  <1>2. new \in Nat /\ old \in Nat /\ taken \in Nat
    BY <1>1
  <1>3. Kept(in, a, fee) * rest = Base * new - taken * rest
    <2>1. Kept(in, a, fee) = (in + a) * Base - taken
      <3>1. a * (Base - fee) = a * Base - a * fee
        BY <1>1
      <3>2. in * Base \in Int /\ a * Base \in Int /\ a * fee \in Int
        BY <1>1
      <3>3. (in + a) * Base = in * Base + a * Base
        BY <1>1
      <3> QED
        BY <3>1, <3>2, <3>3 DEF Kept
    <2>2. (in + a) * Base \in Int
      BY <1>1
    <2>3. ((in + a) * Base - taken) * rest = ((in + a) * Base) * rest - taken * rest
      <3> DEFINE u == (in + a) * Base
      <3> HIDE DEF u, rest, taken
      <3> QED
        BY <1>1, <1>2, <2>2 DEF u
    <2>4. ((in + a) * Base) * rest = Base * new
      <3> HIDE DEF rest
      <3> QED
        BY <1>1
    <2> QED
      BY <2>1, <2>3, <2>4
  <1>4. in * Base * out = Base * old
    BY <1>1
  <1>5. taken * rest <= Base * new - Base * old
    <2>1. Base * new \in Int /\ Base * old \in Int /\ taken * rest \in Int
      BY <1>1, <1>2
    <2> QED
      BY <1>3, <1>4, <2>1 DEF Passes
  <1>6. Base * (new - old) = Base * new - Base * old
    <2> HIDE DEF new, old
    <2> QED
      BY <1>1, <1>2
  <1>7. old <= new
    <2>1. 0 <= taken * rest
      <3> HIDE DEF taken, rest
      <3> QED
        BY <1>1, <1>2
    <2>2. CASE new < old
      <3>1. Base * new < Base * old
        <4> HIDE DEF new, old
        <4> QED
          BY <1>1, <1>2, <2>2, TimesStrict
      <3>2. Base * new \in Int /\ Base * old \in Int /\ taken * rest \in Int
        BY <1>1, <1>2
      <3> QED
        BY <1>5, <2>1, <3>1, <3>2
    <2> QED
      BY <1>2, <2>2
  <1>8. in * b <= a * rest
    <2>1. new = in * rest + a * rest
      <3> HIDE DEF rest
      <3> QED
        BY <1>1
    <2>2. in * rest = in * out - in * b
      BY <1>1
    <2>3. in * rest \in Int /\ a * rest \in Int /\ in * b \in Int
      BY <1>1
    <2> QED
      BY <1>2, <1>7, <2>1, <2>2, <2>3
  <1>9. Gap(new, old) = new - old
    <2> HIDE DEF new, old
    <2> QED
      BY <1>2, <1>7 DEF Gap
  <1> QED
    BY <1>2, <1>5, <1>6, <1>7, <1>8, <1>9

(* The smaller reserve is the one paid into.  Where fee * b is no more     *)
(* than half of out, what the pool keeps shows through the error, if       *)
(* enough was paid.                                                        *)
LEMMA ShareOfPaid ==
  ASSUME NEW a \in Nat \ {0}, NEW in \in Nat \ {0}, NEW out \in Nat \ {0}, NEW b \in 0 .. out - 1,
         NEW fee \in 1 .. Base - 1, Passes(in, out, a, b, fee),
         Base * (Precision * Gap((in + a) * (out - b), in * out) - in * out)
           <= (out * (Precision * a + in)) * (fee - 1)
  PROVE  2 * fee * a * (Base - fee) >= in * Base \/ a * Precision < 4 * Base * in
  <1> DEFINE g == Gap((in + a) * (out - b), in * out)
             rest == out - b
             c == Base - fee
             paid == a * c
             k == Kept(in, a, fee)
             P == Precision
             h == P * a
             w == in * out
  <1>1. /\ Base \in Nat \ {0} /\ c \in Nat \ {0} /\ rest \in Nat /\ b \in Nat /\ fee \in Nat \ {0}
        /\ fee \in 0 .. Base - 1 /\ b \in 0 .. out /\ P \in Nat \ {0} /\ fee < Base
    BY PoolAssumption
  <1>2. g \in Nat /\ a * fee * rest <= Base * g
    <2>1. a \in Nat /\ in \in Nat /\ out \in Nat
      OBVIOUS
    <2>2. /\ (in + a) * (out - b) - in * out \in Nat
          /\ Gap((in + a) * (out - b), in * out) = (in + a) * (out - b) - in * out
          /\ a * fee * (out - b) <= Base * ((in + a) * (out - b) - in * out)
      BY ONLY Passes(in, out, a, b, fee), <1>1, <2>1, ProductGrows
    <2> QED
      BY <2>2
  <1>3. k \in Nat /\ k = in * Base + paid /\ k * b <= paid * out /\ paid \in Nat
    <2>1. k * b <= paid * out
      BY <1>1, PassesMeans
    <2>2. paid \in Nat
      BY <1>1
    <2> QED
      BY <1>1, <2>1, <2>2, AdjustedIs DEF Kept
  <1>4. SUFFICES ASSUME ~(2 * fee * a * (Base - fee) >= in * Base)
                 PROVE  a * Precision < 4 * Base * in
    OBVIOUS
  <1>5. fee * paid * 2 < in * Base /\ in * Base \in Nat \ {0}
    <2>1. 2 * fee * a * (Base - fee) = fee * paid * 2
      BY <1>1
    <2>2. in * Base \in Nat /\ in * Base # 0
      BY <1>1
    <2>3. fee * paid * 2 \in Int
      <3> HIDE DEF paid
      <3> QED
        BY <1>1, <1>3
    <2> HIDE DEF paid
    <2> QED
      BY <1>4, <2>1, <2>2, <2>3
  <1>6. h \in Nat /\ w \in Nat \ {0}
    <2>1. h \in Nat
      BY <1>1
    <2>2. 0 < in * out
      <3>1. in * 0 < in * out
        BY TimesStrict
      <3> QED
        BY <3>1
    <2> QED
      BY <2>1, <2>2
  <1> HIDE DEF k, paid, c
  <1>7. 2 * (fee * b) <= out
    <2> DEFINE d == in * Base
               u == 2 * (fee * b)
    <2>1. d \in Nat \ {0} /\ u \in Nat /\ fee * paid \in Nat
      <3>1. fee * b \in Nat
        BY <1>1
      <3> QED
        BY <1>1, <1>3, <1>5, <3>1
    <2>2. d * b <= k * b
      <3>1. d <= k /\ d \in Int
        BY <1>3, <2>1
      <3> HIDE DEF d
      <3> QED
        BY <1>1, <1>3, <3>1, Times
    <2>3. d * b \in Int /\ paid * out \in Int /\ k * b \in Int
      BY <1>1, <1>3, <2>1
    <2>4. d * b <= paid * out
      <3> HIDE DEF d
      <3> QED
        BY <1>3, <2>2, <2>3
    <2>5. fee * (d * b) <= fee * (paid * out)
      <3> DEFINE v == d * b
                 z == paid * out
      <3> HIDE DEF d, v, z
      <3>1. v \in Int /\ z \in Int /\ v <= z
        BY <2>3, <2>4 DEF v, z
      <3>2. fee * v <= fee * z
        BY <1>1, <3>1, Times
      <3> QED
        BY <3>2 DEF v, z
    <2>6. d * u = 2 * (fee * (d * b))
      <3> HIDE DEF d
      <3> QED
        BY <1>1, <2>1
    <2>7. 2 * (fee * (paid * out)) = (fee * paid * 2) * out
      BY <1>1, <1>3
    <2>8. (fee * paid * 2) * out < d * out
      <3> DEFINE v == fee * paid * 2
      <3>1. v \in Int /\ v < d
        BY <1>5, <2>1
      <3> HIDE DEF v, d
      <3>2. v * out < d * out
        BY <2>1, <3>1, TimesStrict
      <3> QED
        BY <3>2 DEF v
    <2>9. fee * (d * b) \in Int /\ fee * (paid * out) \in Int /\ d * u \in Int /\ d * out \in Int
          /\ (fee * paid * 2) * out \in Int
      <3>1. fee * (d * b) \in Int
        <4> DEFINE v == d * b
        <4> HIDE DEF d, v
        <4>1. v \in Int
          BY <2>3 DEF v
        <4>2. fee * v \in Int
          BY <1>1, <4>1
        <4> QED
          BY <4>2 DEF v
      <3>2. fee * (paid * out) \in Int
        <4> DEFINE v == paid * out
        <4> HIDE DEF v
        <4>1. v \in Int
          BY <2>3 DEF v
        <4>2. fee * v \in Int
          BY <1>1, <4>1
        <4> QED
          BY <4>2 DEF v
      <3> HIDE DEF d, u
      <3> QED
        BY <2>1, <2>7, <3>1, <3>2
    <2> HIDE DEF d, u
    <2>10. d * u < d * out
      BY <2>5, <2>6, <2>7, <2>8, <2>9
    <2>11. u < out
      BY <2>1, <2>10, Cancel
    <2> QED
      BY <2>1, <2>11 DEF u
  (* The hypothesis, multiplied out.                                       *)
  <1>8. h * out <= h * (fee * b) + w * (Base + fee - 1)
    <2>1. Base * (P * g - w) <= (out * (h + in)) * (fee - 1)
      OBVIOUS
    <2> HIDE DEF g, h, w, P
    <2>2. Base * (P * g - w) = P * (Base * g) - w * Base
      BY <1>1, <1>2, <1>6
    <2>3. (out * (h + in)) * (fee - 1) = h * out * fee - h * out + w * fee - w
      <3>1. out * (h + in) = h * out + w
        BY <1>6 DEF w
      <3> DEFINE v == h * out
      <3>2. v \in Int
        BY <1>6
      <3> HIDE DEF v
      <3>3. (v + w) * (fee - 1) = v * fee - v + w * fee - w
        BY <1>1, <1>6, <3>2
      <3> QED
        BY <3>1, <3>3 DEF v
    <2>4. P * (a * fee * rest) <= P * (Base * g)
      <3>1. a * fee * rest \in Int /\ Base * g \in Int
        <4> HIDE DEF rest
        <4> QED
          BY <1>1, <1>2
      <3> DEFINE v == a * fee * rest
                 z == Base * g
      <3> HIDE DEF v, z
      <3>2. v \in Int /\ z \in Int /\ v <= z
        BY <1>2, <3>1 DEF v, z
      <3>3. P * v <= P * z
        BY <1>1, <3>2, Times
      <3> QED
        BY <3>3 DEF v, z
    <2>5. P * (a * fee * rest) = h * out * fee - h * (fee * b)
      <3>1. P * (a * fee * rest) = h * (fee * rest)
        <4> HIDE DEF rest
        <4> QED
          BY <1>1 DEF h
      <3>2. fee * rest = out * fee - fee * b
        BY <1>1
      <3> DEFINE v == out * fee
                 z == fee * b
      <3>3. v \in Int /\ z \in Int
        BY <1>1
      <3> HIDE DEF v, z
      <3>4. h * (v - z) = h * v - h * z
        BY <1>6, <3>3
      <3>5. h * v = h * out * fee
        BY <1>1, <1>6 DEF v
      <3> QED
        BY <3>1, <3>2, <3>4, <3>5 DEF v, z
    <2>6. w * (Base + fee - 1) = w * Base + w * fee - w
      BY <1>1, <1>6
    <2> DEFINE m1 == h * out * fee
               m2 == h * (fee * b)
               m3 == P * (Base * g)
               m4 == w * Base
               m5 == h * out
               m6 == w * fee
    <2>7. m1 \in Int /\ m2 \in Int /\ m3 \in Int /\ m4 \in Int /\ m5 \in Int /\ m6 \in Int
      <3>1. fee * b \in Int /\ Base * g \in Int /\ h * out \in Int
        BY <1>1, <1>2, <1>6
      <3> QED
        BY <1>1, <1>6, <3>1
    <2>8. m3 - m4 <= m1 - m5 + m6 - w
      BY <2>1, <2>2, <2>3
    <2>9. m1 - m2 <= m3
      BY <2>4, <2>5
    <2> HIDE DEF m1, m2, m3, m4, m5, m6
    <2>10. m5 <= m2 + (m4 + m6 - w)
      BY <1>6, <2>7, <2>8, <2>9
    <2> QED
      BY <2>6, <2>10 DEF m2, m4, m5, m6
  <1>9. h * out < out * (4 * Base * in)
    <2> DEFINE z == fee * b
               e == Base + fee - 1
    <2>1. z \in Nat /\ e \in Nat /\ e < 2 * Base
      BY <1>1
    <2>2. h * (2 * z) <= h * out
      <3>1. 2 * z \in Int /\ 2 * z <= out
        BY <1>7, <2>1
      <3> HIDE DEF h, z
      <3> QED
        BY <1>6, <3>1, Times
    <2>3. w * e < w * (2 * Base)
      <3> HIDE DEF w, e
      <3> QED
        BY <1>1, <1>6, <2>1, TimesStrict
    <2>4. h * out <= h * z + w * e
      BY <1>8
    <2>5. h * (2 * z) = 2 * (h * z) /\ h * z \in Int /\ h * out \in Int
      <3> HIDE DEF h, z
      <3> QED
        BY <1>6, <2>1
    <2>6. w * e \in Int /\ w * (2 * Base) \in Int
      <3> HIDE DEF w, e
      <3> QED
        BY <1>1, <1>6, <2>1
    <2>7. out * (4 * Base * in) = 2 * (w * (2 * Base))
      BY <1>1
    <2> HIDE DEF h, z, w, e
    <2> QED
      BY <2>2, <2>3, <2>4, <2>5, <2>6, <2>7
  <1> DEFINE v == 4 * Base * in
  <1>10. v \in Int /\ h \in Int
    BY <1>1, <1>6
  <1>11. out * h < out * v
    <2>1. h * out = out * h
      BY <1>10
    <2> QED
      BY <1>9, <2>1
  <1> HIDE DEF v, h
  <1>12. h < v
    BY <1>10, <1>11, Cancel
  <1>13. h = a * Precision
    BY <1>1 DEF h
  <1> QED
    BY <1>12, <1>13 DEF v

(* The smaller reserve is the one paid out of.                             *)
LEMMA ShareOfTaken ==
  ASSUME NEW a \in Nat, NEW in \in Nat \ {0}, NEW out \in Nat \ {0}, NEW b \in 1 .. out,
         NEW fee \in 1 .. Base - 1, Passes(in, out, a, b, fee),
         Base * (Precision * Gap((in + a) * (out - b), in * out) - in * out)
           <= (in * (Precision * b + out)) * (fee - 1)
  PROVE  b * Precision < 4 * Base * out
  <1> DEFINE g == Gap((in + a) * (out - b), in * out)
             rest == out - b
             P == Precision
             h == P * b
             w == in * out
  <1>1. /\ Base \in Nat \ {0} /\ rest \in Nat /\ b \in Nat \ {0} /\ fee \in Nat \ {0} /\ b \in 0 .. out
        /\ fee \in 0 .. Base - 1 /\ P \in Nat \ {0} /\ fee < Base
    BY PoolAssumption
  <1>2. g \in Nat /\ a * fee * rest <= Base * g /\ in * b <= a * rest
    <2>1. in \in Nat /\ out \in Nat
      OBVIOUS
    <2>2. /\ (in + a) * (out - b) - in * out \in Nat
          /\ Gap((in + a) * (out - b), in * out) = (in + a) * (out - b) - in * out
          /\ a * fee * (out - b) <= Base * ((in + a) * (out - b) - in * out)
          /\ in * b <= a * (out - b)
      BY ONLY Passes(in, out, a, b, fee), <1>1, <2>1, a \in Nat, ProductGrows
    <2> QED
      BY <2>2
  <1>3. h \in Nat /\ w \in Nat /\ in * b \in Nat /\ a * rest \in Nat /\ Base * g \in Nat
    <2>1. h \in Nat /\ w \in Nat /\ in * b \in Nat
      BY <1>1
    <2>2. a * rest \in Nat
      <3> HIDE DEF rest
      <3> QED
        BY <1>1
    <2>3. Base * g \in Nat
      <3> HIDE DEF g
      <3> QED
        BY <1>1, <1>2
    <2> QED
      BY <2>1, <2>2, <2>3
  <1>4. fee * (in * b) <= Base * g
    <2>1. fee * (in * b) <= fee * (a * rest)
      <3> DEFINE v == in * b
                 z == a * rest
      <3>1. v \in Int /\ z \in Int /\ v <= z
        BY <1>2, <1>3
      <3> HIDE DEF v, z
      <3>2. fee * v <= fee * z
        BY <1>1, <3>1, Times
      <3> QED
        BY <3>2 DEF v, z
    <2>2. fee * (a * rest) = a * fee * rest
      <3> HIDE DEF rest
      <3> QED
        BY <1>1
    <2>3. fee * (in * b) \in Int /\ a * fee * rest \in Int
      <3> HIDE DEF rest
      <3> QED
        BY <1>1
    <2> HIDE DEF g, rest
    <2> QED
      BY <1>2, <1>3, <2>1, <2>2, <2>3
  <1>5. in * h <= w * (Base + fee - 1)
    <2>1. Base * (P * g - w) <= (in * (h + out)) * (fee - 1)
      OBVIOUS
    <2> HIDE DEF g, h, w, P
    <2>2. Base * (P * g - w) = P * (Base * g) - w * Base
      BY <1>1, <1>2, <1>3
    <2>3. (in * (h + out)) * (fee - 1) = in * h * fee - in * h + w * fee - w
      <3>1. in * (h + out) = in * h + w
        BY <1>3 DEF w
      <3> DEFINE v == in * h
      <3>2. v \in Int
        BY <1>3
      <3> HIDE DEF v
      <3>3. (v + w) * (fee - 1) = v * fee - v + w * fee - w
        BY <1>1, <1>3, <3>2
      <3> QED
        BY <3>1, <3>3 DEF v
    <2>4. P * (fee * (in * b)) <= P * (Base * g)
      <3> DEFINE v == fee * (in * b)
                 z == Base * g
      <3>1. v \in Int /\ z \in Int /\ v <= z
        BY <1>1, <1>3, <1>4
      <3> HIDE DEF v, z
      <3>2. P * v <= P * z
        BY <1>1, <3>1, Times
      <3> QED
        BY <3>2 DEF v, z
    <2>5. P * (fee * (in * b)) = in * h * fee
      BY <1>1 DEF h
    <2>6. w * (Base + fee - 1) = w * Base + w * fee - w
      BY <1>1, <1>3
    <2> DEFINE m1 == in * h * fee
               m3 == P * (Base * g)
               m4 == w * Base
               m5 == in * h
               m6 == w * fee
    <2>7. m1 \in Int /\ m3 \in Int /\ m4 \in Int /\ m5 \in Int /\ m6 \in Int
      <3>1. in * h \in Int
        BY <1>3
      <3> QED
        BY <1>1, <1>3, <3>1
    <2>8. m3 - m4 <= m1 - m5 + m6 - w
      BY <2>1, <2>2, <2>3
    <2>9. m1 <= m3
      BY <2>4, <2>5
    <2> HIDE DEF m1, m3, m4, m5, m6
    <2>10. m5 <= m4 + m6 - w
      BY <1>3, <2>7, <2>8, <2>9
    <2> QED
      BY <2>6, <2>10 DEF m4, m5, m6
  <1>6. in * h < in * (4 * Base * out)
    <2> DEFINE e == Base + fee - 1
    <2>1. e \in Int /\ e < 4 * Base
      BY <1>1
    <2>2. w \in Nat \ {0}
      <3>1. in * 0 < in * out
        BY TimesStrict
      <3> QED
        BY <3>1
    <2>3. w * e < w * (4 * Base)
      <3> HIDE DEF w, e
      <3> QED
        BY <1>1, <2>1, <2>2, TimesStrict
    <2>4. w * (4 * Base) = in * (4 * Base * out)
      BY <1>1
    <2>5. in * h \in Int /\ w * e \in Int /\ w * (4 * Base) \in Int
      <3> HIDE DEF h, w, e
      <3> QED
        BY <1>1, <1>3, <2>1
    <2>6. in * h <= w * e
      BY <1>5
    <2> HIDE DEF h, w, e
    <2> QED
      BY <2>3, <2>4, <2>5, <2>6
  <1> DEFINE v == 4 * Base * out
  <1>7. v \in Int /\ h \in Int
    BY <1>1, <1>3
  <1>8. in * h < in * v
    BY <1>6
  <1> HIDE DEF v, h
  <1>9. h < v
    BY <1>7, <1>8, Cancel
  <1>10. h = b * Precision
    BY <1>1 DEF h
  <1> QED
    BY <1>9, <1>10 DEF v

LEMMA FeeOfType ==
  ASSUME NEW share, NEW stable
  PROVE  FeeOf(share, stable) \in 0 .. Base - 1
  <1>1. \A fee \in 1 .. Base - 1 : FixFee(fee) \in 0 .. Base - 1
    BY PoolAssumption DEF FixFee
  <1> QED
    BY <1>1, PoolAssumption DEF FeeOf

LEMMA FeeType ==
  ASSUME NEW p, NEW pr, NEW r
  PROVE  CalculatePairFee(p, pr, r) \subseteq 0 .. Base - 1
  BY FeeOfType DEF CalculatePairFee

LEMMA Sides ==
  ASSUME NEW p \in Pool
  PROVE  /\ Token0(p) \in Token /\ Token1(p) \in Token /\ Token0(p) # Token1(p)
         /\ \A x \in {Token0(p), Token1(p)} :
              /\ Opposite(p, x) \in {Token0(p), Token1(p)} /\ Opposite(p, x) # x
              /\ Opposite(p, Opposite(p, x)) = x
              /\ {Token0(p), Token1(p)} = {x, Opposite(p, x)}
  BY PoolAssumption DEF Token0, Token1, Opposite

(* A fee that is neither the default nor a stable pool's is no less than   *)
(* the share.                                                              *)
LEMMA FeeFromShare ==
  ASSUME NEW share \in 0 .. Base, NEW stable, NEW own \in 0 .. Base - 1,
         FeeOf(share, stable) < own, FeeOf(share, stable) \notin {DefaultFee, StableFee}
  PROVE  share \in 1 .. Base - 1 /\ share <= own - 1 /\ own \in 1 .. Base - 1
  <1> DEFINE fee == IF share > StableAbove /\ stable THEN StableFee ELSE share
             c == FeeOf(share, stable)
  <1>1. c = IF fee \in 1 .. Base - 1 THEN FixFee(fee) ELSE DefaultFee
    BY DEF FeeOf
  <1>2. c \in 0 .. Base - 1
    BY FeeOfType
  <1>3. c < own /\ c \notin {DefaultFee, StableFee}
    OBVIOUS
  <1> HIDE DEF c
  <1>4. FixFee(StableFee) = StableFee
    BY PoolAssumption DEF FixFee
  <1>5. share \in 1 .. Base - 1 /\ c = FixFee(share)
    BY <1>1, <1>3, <1>4
  <1>6. share <= c
    BY <1>5 DEF FixFee
  <1> QED
    BY <1>2, <1>3, <1>5, <1>6, PoolAssumption

(* A share of less than Base is no less than its error allows.             *)
LEMMA ShareAtLeast ==
  ASSUME NEW x, NEW y, NEW pr, NEW r, pr[x] \in Nat \ {0}, pr[y] \in Nat \ {0}, r[x] \in Nat, r[y] \in Nat,
         NEW share \in Shares(x, y, pr, r), NEW fee \in 1 .. Base - 1, share <= fee - 1
  PROVE  \/ Gap(r[x], pr[x]) * Precision < 4 * Base * pr[x]
         \/ Base * (Precision * Gap(r[x] * r[y], pr[x] * pr[y]) - pr[x] * pr[y])
              <= (pr[y] * (Precision * Gap(r[x], pr[x]) + pr[x])) * (fee - 1)
  <1> DEFINE px == pr[x]
             py == pr[y]
             w == px * py
             grown == Precision * Gap(r[x] * r[y], w)
             changed == Precision * Gap(r[x], px)
             n == Base * (grown - w)
             d == py * (changed + px)
  <1>1. /\ Base \in Nat \ {0} /\ Precision \in Nat \ {0} /\ px \in Nat \ {0} /\ py \in Nat \ {0}
        /\ share \in 0 .. Base /\ fee < Base /\ fee \in Nat
    BY PoolAssumption DEF Shares
  <1>2. \A u, v \in Nat : Gap(u, v) \in Nat
    BY DEF Gap
  <1>3. w \in Nat /\ r[x] * r[y] \in Nat
    BY <1>1
  <1>4. Gap(r[x] * r[y], w) \in Nat /\ Gap(r[x], px) \in Nat
    BY <1>1, <1>2, <1>3
  <1>5. grown \in Nat /\ changed \in Nat
    BY <1>1, <1>4
  <1>6. CASE changed <= px
    <2>1. px < 4 * Base * px
      <3>1. 1 * px < (4 * Base) * px
        BY <1>1, TimesStrict
      <3> QED
        BY <1>1, <3>1
    <2>2. 4 * Base * px \in Int /\ changed = Gap(r[x], px) * Precision
      BY <1>1, <1>4
    <2> QED
      BY <1>1, <1>5, <1>6, <2>1, <2>2
  <1>7. CASE ~(changed <= px)
    <2>1. share >= Capped(CeilDiv(n, d), Base)
      BY <1>7 DEF Shares
    <2>2. n \in Int /\ d \in Nat \ {0}
      <3> HIDE DEF grown, changed, w, px, py
      <3>1. n \in Int
        BY <1>1, <1>3, <1>5
      <3>2. changed + px \in Nat \ {0}
        BY <1>1, <1>5
      <3>3. py * 0 < py * (changed + px)
        BY <1>1, <3>2, TimesStrict
      <3> QED
        BY <1>1, <3>1, <3>2, <3>3
    <2> HIDE DEF n, d
    <2>3. CeilDiv(n, d) \in Int /\ n <= d * CeilDiv(n, d)
      BY <2>2, CeilIs
    <2> DEFINE q == CeilDiv(n, d)
    <2>4. q <= fee - 1
      <3> HIDE DEF q
      <3>1. q \in Int /\ share >= Capped(q, Base)
        BY <2>1, <2>3 DEF q
      <3> QED
        BY <1>1, <3>1 DEF Capped
    <2> HIDE DEF q
    <2>5. q \in Int /\ n <= d * q
      BY <2>3 DEF q
    <2>6. d * q <= d * (fee - 1)
      BY <1>1, <2>2, <2>4, <2>5, Times
    <2>7. d * q \in Int /\ d * (fee - 1) \in Int
      BY <1>1, <2>2, <2>5
    <2>8. n <= d * (fee - 1)
      BY <2>2, <2>5, <2>6, <2>7
    <2> QED
      BY <2>8 DEF n, d
  <1> QED
    BY <1>6, <1>7

(* A fee below the true one needs a deep swap, or dust.                    *)
LEMMA FeeCovers ==
  ASSUME NEW p \in Pool, NEW pr, NEW r, NEW x \in {Token0(p), Token1(p)},
         NEW in \in Nat \ {0}, NEW out \in Nat \ {0}, NEW a \in Nat \ {0}, NEW b \in 1 .. out - 1,
         pr[x] = in, pr[Opposite(p, x)] = out, r[x] = in + a, r[Opposite(p, x)] = out - b,
         Passes(in, out, a, b, TrueFee[p]),
         NEW c \in CalculatePairFee(p, pr, r), c < TrueFee[p], c \notin {DefaultFee, StableFee}
  PROVE  \E s \in Smaller(p, pr) :
           \/ 2 * TrueFee[p] * (r[s] - pr[s]) * (Base - TrueFee[p]) >= pr[s] * Base
           \/ Gap(r[s], pr[s]) * Precision < 4 * Base * pr[s]
  <1>1. TrueFee[p] \in 0 .. Base - 1 /\ Base \in Nat \ {0} /\ Precision \in Nat \ {0}
    BY PoolAssumption
  <1>2. PICK s, share, stable :
          /\ s \in Smaller(p, pr) /\ share \in Shares(s, Opposite(p, s), pr, r)
          /\ c = FeeOf(share, stable)
    BY DEF CalculatePairFee
  <1> DEFINE own == TrueFee[p]
             o == Opposite(p, s)
  <1>3. s \in {x, Opposite(p, x)}
    BY <1>2, Sides DEF Smaller
  <1>4. share \in 0 .. Base
    BY <1>2 DEF Shares
  <1>5. share <= own - 1 /\ own \in 1 .. Base - 1
    BY <1>1, <1>2, <1>4, FeeFromShare
  <1> SUFFICES \/ 2 * own * (r[s] - pr[s]) * (Base - own) >= pr[s] * Base
               \/ Gap(r[s], pr[s]) * Precision < 4 * Base * pr[s]
    BY <1>2
  <1>6. CASE s = x
    <2>1. pr[s] = in /\ pr[o] = out /\ r[s] = in + a /\ r[o] = out - b
      BY <1>6
    <2>2. pr[s] \in Nat \ {0} /\ pr[o] \in Nat \ {0} /\ r[s] \in Nat /\ r[o] \in Nat
      BY <2>1
    <2>3. Gap(r[s], pr[s]) = a /\ r[s] - pr[s] = a
      BY <2>1 DEF Gap
    <2>4. \/ Gap(r[s], pr[s]) * Precision < 4 * Base * pr[s]
          \/ Base * (Precision * Gap(r[s] * r[o], pr[s] * pr[o]) - pr[s] * pr[o])
               <= (pr[o] * (Precision * Gap(r[s], pr[s]) + pr[s])) * (own - 1)
      BY <1>2, <1>5, <2>2, ShareAtLeast
    <2>5. CASE Base * (Precision * Gap((in + a) * (out - b), in * out) - in * out)
                 <= (out * (Precision * a + in)) * (own - 1)
      <3>1. 2 * own * a * (Base - own) >= in * Base \/ a * Precision < 4 * Base * in
        <4>1. b \in 0 .. out - 1
          OBVIOUS
        <4> QED
          BY <1>5, <2>5, <4>1, ShareOfPaid
      <3> QED
        BY <2>1, <2>3, <3>1
    <2> QED
      BY <2>1, <2>3, <2>4, <2>5
  <1>7. CASE s = Opposite(p, x)
    <2>1. o = x
      BY <1>7, Sides
    <2>2. pr[s] = out /\ pr[o] = in /\ r[s] = out - b /\ r[o] = in + a
      BY <1>7, <2>1
    <2>3. pr[s] \in Nat \ {0} /\ pr[o] \in Nat \ {0} /\ r[s] \in Nat /\ r[o] \in Nat
      BY <2>2
    <2>4. Gap(r[s], pr[s]) = b
      BY <2>2 DEF Gap
    <2>5. \/ Gap(r[s], pr[s]) * Precision < 4 * Base * pr[s]
          \/ Base * (Precision * Gap(r[s] * r[o], pr[s] * pr[o]) - pr[s] * pr[o])
               <= (pr[o] * (Precision * Gap(r[s], pr[s]) + pr[s])) * (own - 1)
      BY <1>2, <1>5, <2>3, ShareAtLeast
    <2>6. r[s] * r[o] = (in + a) * (out - b) /\ pr[s] * pr[o] = in * out
      <3>1. (out - b) * (in + a) = (in + a) * (out - b) /\ out * in = in * out
        OBVIOUS
      <3> QED
        BY <2>2, <3>1
    <2>7. CASE Base * (Precision * Gap((in + a) * (out - b), in * out) - in * out)
                 <= (in * (Precision * b + out)) * (own - 1)
      <3>1. b * Precision < 4 * Base * out
        <4>1. b \in 1 .. out
          OBVIOUS
        <4> QED
          BY <1>5, <2>7, <4>1, ShareOfTaken
      <3> QED
        BY <2>2, <2>4, <3>1
    <2> QED
      BY <2>2, <2>4, <2>5, <2>6, <2>7
  <1> QED
    BY <1>3, <1>6, <1>7

-----------------------------------------------------------------------------
(***************************************************************************)
(* Digits: a number that has room in n of them is read back.               *)
(***************************************************************************)
LEMMA WithoutIs ==
  ASSUME NEW v \in Int, NEW n \in Nat
  PROVE  \E g \in [0 .. n -> Int] : /\ g[0] = v /\ \A i \in 1 .. n : g[i] = g[i - 1] \div Byte
                                    /\ Without(v, n) = g[n]
  <1> DEFINE Rest(g, i) == IF i = 0 THEN v ELSE g[i - 1] \div Byte
             step == [i \in 1 .. n |-> [z \in Int |-> z \div Byte]]
  <1>1. step \in [1 .. n -> [Int -> Int]]
    <2>1. Byte \in Nat \ {0}
      BY WidthAssumption
    <2> QED
      BY <2>1, Division
  <1>2. PICK h \in [0 .. n -> Int] : h[0] = v /\ \A i \in 1 .. n : h[i] = step[i][h[i - 1]]
    <2> DEFINE S == Int
    <2>1. v \in S /\ step \in Steps(n, S)
      BY <1>1 DEF Steps
    <2> HIDE DEF step, S
    <2>2. \E h : Runs(n, S, v, step, h)
      BY <2>1, Recursion
    <2> QED
      BY <2>2 DEF S, Runs
  <1>3. ASSUME NEW i \in 1 .. n PROVE h[i] = h[i - 1] \div Byte
    <2>1. i - 1 \in 0 .. n
      OBVIOUS
    <2>2. h[i - 1] \in Int
      BY <2>1
    <2> QED
      BY <1>2, <2>2
  <1>4. \A i \in 0 .. n : h[i] = Rest(h, i)
    BY <1>2, <1>3
  <1>5. h = [i \in 0 .. n |-> Rest(h, i)]
    BY <1>2, <1>4
  <1> DEFINE f == CHOOSE g : g = [i \in 0 .. n |-> Rest(g, i)]
  <1>6. f = [i \in 0 .. n |-> Rest(f, i)]
    BY <1>5
  <1>7. Without(v, n) = f[n]
    BY DEF Without
  <1> HIDE DEF f
  <1>8. f = h
    <2> DEFINE Same == {i \in 0 .. n : f[i] = h[i]}
    <2>1. \A i \in 0 .. n : f[i] = Rest(f, i)
      BY <1>6
    <2>2. 0 \in Same
      BY <1>2, <2>1
    <2>3. ASSUME NEW i \in 0 .. n - 1, i \in Same PROVE i + 1 \in Same
      <3>1. i + 1 \in 0 .. n /\ i + 1 # 0 /\ (i + 1) - 1 = i
        OBVIOUS
      <3>2. f[i + 1] = f[i] \div Byte /\ h[i + 1] = h[i] \div Byte
        BY <1>4, <2>1, <3>1
      <3> QED
        BY <2>3, <3>1, <3>2
    <2> HIDE DEF Same
    <2>4. \A i \in 0 .. n : i \in Same
      BY <2>2, <2>3, Induction
    <2> QED
      BY <1>2, <1>6, <2>4 DEF Same
  <1> QED
    BY <1>2, <1>3, <1>7, <1>8

LEMMA WithoutNext ==
  ASSUME NEW v \in Int, NEW n \in Nat
  PROVE  /\ Without(v, 0) = v /\ Without(v, n) \in Int
         /\ Without(v, n + 1) = Without(v, n) \div Byte
  <1>1. Without(v, 0) = v
    <2>1. \E g \in [0 .. 0 -> Int] : g[0] = v /\ Without(v, 0) = g[0]
      BY WithoutIs
    <2> QED
      BY <2>1
  <1>2. PICK g \in [0 .. n -> Int] : /\ g[0] = v /\ \A i \in 1 .. n : g[i] = g[i - 1] \div Byte
                                     /\ Without(v, n) = g[n]
    BY WithoutIs
  <1>3. PICK h \in [0 .. n + 1 -> Int] :
          /\ h[0] = v /\ \A i \in 1 .. n + 1 : h[i] = h[i - 1] \div Byte
          /\ Without(v, n + 1) = h[n + 1]
    <2> DEFINE m == n + 1
    <2>1. m \in Nat
      OBVIOUS
    <2> HIDE DEF m
    <2>2. \E h \in [0 .. m -> Int] : /\ h[0] = v /\ \A i \in 1 .. m : h[i] = h[i - 1] \div Byte
                                     /\ Without(v, m) = h[m]
      BY <2>1, WithoutIs
    <2> QED
      BY <2>2 DEF m
  <1> DEFINE Same == {i \in 0 .. n : g[i] = h[i]}
  <1>4. 0 \in Same
    BY <1>2, <1>3
  <1>5. ASSUME NEW i \in 0 .. n - 1, i \in Same PROVE i + 1 \in Same
    <2>1. i + 1 \in 1 .. n /\ i + 1 \in 1 .. n + 1 /\ i + 1 \in 0 .. n /\ (i + 1) - 1 = i
      OBVIOUS
    <2>2. g[i + 1] = g[i] \div Byte /\ h[i + 1] = h[i] \div Byte
      BY <1>2, <1>3, <2>1
    <2> QED
      BY <1>5, <2>1, <2>2
  <1>6. \A i \in 0 .. n : i \in Same
    <2> HIDE DEF Same
    <2> QED
      BY <1>4, <1>5, Induction
  <1>7. g[n] = h[n] /\ g[n] \in Int
    BY <1>2, <1>6
  <1>8. h[n + 1] = h[n] \div Byte
    <2>1. n + 1 \in 1 .. n + 1 /\ (n + 1) - 1 = n
      OBVIOUS
    <2> QED
      BY <1>3, <2>1
  <1> QED
    BY <1>1, <1>2, <1>3, <1>7, <1>8

LEMMA NumberIs ==
  ASSUME NEW s \in Seq(Nat)
  PROVE  \E g \in [0 .. Len(s) -> Nat] :
           /\ g[0] = 0 /\ \A i \in 1 .. Len(s) : g[i] = g[i - 1] * Byte + s[i]
           /\ Number(s) = g[Len(s)]
  <1> DEFINE n == Len(s)
             Read(g, i) == IF i = 0 THEN 0 ELSE g[i - 1] * Byte + s[i]
             step == [i \in 1 .. n |-> [z \in Nat |-> z * Byte + s[i]]]
  <1>1. n \in Nat /\ \A i \in 1 .. n : s[i] \in Nat
    BY ElementOfSeq, LenProperties
  <1> HIDE DEF n
  <1>2. step \in [1 .. n -> [Nat -> Nat]]
    <2>1. ASSUME NEW i \in 1 .. n, NEW z \in Nat PROVE z * Byte + s[i] \in Nat
      <3>1. z * Byte \in Nat
        BY WidthAssumption
      <3> QED
        BY <1>1, <3>1
    <2> QED
      BY <2>1
  <1>3. PICK h \in [0 .. n -> Nat] : h[0] = 0 /\ \A i \in 1 .. n : h[i] = step[i][h[i - 1]]
    <2>1. step \in Steps(n, Nat)
      BY <1>2 DEF Steps
    <2> HIDE DEF step
    <2>2. \E h : Runs(n, Nat, 0, step, h)
      BY <1>1, <2>1, Recursion
    <2> QED
      BY <2>2 DEF Runs
  <1>4. ASSUME NEW i \in 1 .. n PROVE h[i] = h[i - 1] * Byte + s[i]
    <2>1. i - 1 \in 0 .. n
      BY <1>1
    <2>2. h[i - 1] \in Nat
      BY <1>3, <2>1
    <2> QED
      BY <1>3, <2>2
  <1>5. \A i \in 0 .. n : h[i] = Read(h, i)
    BY <1>1, <1>3, <1>4
  <1>6. h = [i \in 0 .. n |-> Read(h, i)]
    BY <1>3, <1>5
  <1> DEFINE f == CHOOSE g : g = [i \in 0 .. n |-> Read(g, i)]
  <1>7. f = [i \in 0 .. n |-> Read(f, i)]
    BY <1>6
  <1>8. Number(s) = f[n]
    BY DEF Number, n
  <1> HIDE DEF f
  <1>9. f = h
    <2> DEFINE Same == {i \in 0 .. n : f[i] = h[i]}
    <2>1. \A i \in 0 .. n : f[i] = Read(f, i)
      BY <1>7
    <2>2. 0 \in Same
      BY <1>1, <1>3, <2>1
    <2>3. ASSUME NEW i \in 0 .. n - 1, i \in Same PROVE i + 1 \in Same
      <3>1. i + 1 \in 0 .. n /\ i + 1 # 0 /\ (i + 1) - 1 = i
        BY <1>1
      <3>2. f[i + 1] = f[i] * Byte + s[i + 1] /\ h[i + 1] = h[i] * Byte + s[i + 1]
        BY <1>5, <2>1, <3>1
      <3> QED
        BY <2>3, <3>1, <3>2
    <2> HIDE DEF Same
    <2>4. \A i \in 0 .. n : i \in Same
      BY <1>1, <2>2, <2>3, Induction
    <2> QED
      BY <1>3, <1>7, <2>4 DEF Same
  <1> QED
    BY <1>3, <1>4, <1>8, <1>9 DEF n

LEMMA DigitsType ==
  ASSUME NEW v \in Int, NEW n \in Nat
  PROVE  /\ Digits(v, n) \in [1 .. n -> 0 .. Byte - 1] /\ Digits(v, n) \in Seq(0 .. Byte - 1)
         /\ Len(Digits(v, n)) = n
  <1>1. ASSUME NEW i \in 1 .. n PROVE Without(v, n - i) % Byte \in 0 .. Byte - 1
    <2>1. n - i \in Nat
      OBVIOUS
    <2>2. Without(v, n - i) \in Int
      BY <2>1, WithoutNext
    <2>3. Byte \in Nat \ {0}
      BY WidthAssumption
    <2> HIDE DEF Digits
    <2> QED
      BY <2>2, <2>3, Division
  <1>2. Digits(v, n) \in [1 .. n -> 0 .. Byte - 1]
    BY <1>1 DEF Digits
  <1>3. Digits(v, n) \in Seq(0 .. Byte - 1)
    <2> DEFINE S == 0 .. Byte - 1
    <2> HIDE DEF S
    <2>1. \A d \in [1 .. n -> S] : d \in Seq(S)
      BY IsASeq
    <2> QED
      BY <1>2, <2>1 DEF S
  <1> QED
    BY <1>2, <1>3, LenProperties

(* Read from the left, i digits are the number without the others.         *)
LEMMA DigitsRead ==
  ASSUME NEW v \in Nat, NEW n \in Nat, Short(v, n)
  PROVE  Number(Digits(v, n)) = v
  <1> DEFINE s == Digits(v, n)
  <1>1. s \in Seq(Nat) /\ Len(s) = n
    <2>1. s \in Seq(0 .. Byte - 1) /\ Len(s) = n
      BY DigitsType
    <2>2. 0 .. Byte - 1 \subseteq Nat
      OBVIOUS
    <2> QED
      BY <2>1, <2>2, SeqMonotonic
  <1>2. \A i \in 1 .. n : s[i] = Without(v, n - i) % Byte
    BY DEF Digits
  <1> HIDE DEF s
  <1>3. PICK g \in [0 .. n -> Nat] : /\ g[0] = 0 /\ \A i \in 1 .. n : g[i] = g[i - 1] * Byte + s[i]
                                     /\ Number(s) = g[n]
    BY <1>1, NumberIs
  <1> DEFINE Good == {i \in 0 .. n : g[i] = Without(v, n - i)}
  <1>4. 0 \in Good
    BY <1>3 DEF Short
  <1>5. ASSUME NEW i \in 0 .. n - 1, i \in Good PROVE i + 1 \in Good
    <2> DEFINE w == Without(v, n - (i + 1))
    <2>1. i + 1 \in 1 .. n /\ i + 1 \in 0 .. n /\ (i + 1) - 1 = i /\ n - (i + 1) \in Nat
          /\ (n - (i + 1)) + 1 = n - i
      OBVIOUS
    <2>2. w \in Int /\ g[i] = w \div Byte
      <3> DEFINE m == n - (i + 1)
      <3>1. m \in Nat /\ m + 1 = n - i
        BY <2>1
      <3> HIDE DEF m
      <3>2. Without(v, m) \in Int /\ Without(v, m + 1) = Without(v, m) \div Byte
        <4>1. v \in Int
          OBVIOUS
        <4> QED
          BY <3>1, <4>1, WithoutNext
      <3>3. g[i] = Without(v, m + 1)
        BY <1>5, <3>1
      <3> QED
        BY <3>2, <3>3 DEF m
    <2>3. g[i + 1] = g[i] * Byte + s[i + 1] /\ s[i + 1] = w % Byte
      BY <1>2, <1>3, <2>1
    <2> HIDE DEF w
    <2>4. Byte \in Nat \ {0}
      BY WidthAssumption
    <2>5. w = Byte * (w \div Byte) + (w % Byte) /\ w \div Byte \in Int
      BY <2>2, <2>4, Division
    <2>6. (w \div Byte) * Byte = Byte * (w \div Byte)
      BY <2>4, <2>5
    <2>7. g[i + 1] = w
      BY <2>2, <2>3, <2>5, <2>6
    <2> QED
      BY <2>1, <2>7 DEF w
  <1>6. \A i \in 0 .. n : i \in Good
    <2> HIDE DEF Good
    <2> QED
      BY <1>4, <1>5, Induction
  <1>7. g[n] = Without(v, 0)
    <2>1. n \in Good /\ n - n = 0
      BY <1>6
    <2> QED
      BY <2>1
  <1> QED
    BY <1>3, <1>7, WithoutNext DEF s

-----------------------------------------------------------------------------
(***************************************************************************)
(* Where the parts of a parameter stand.                                   *)
(***************************************************************************)
Chars == 0 .. Byte - 1

(* A trade that SwapV2 was called for.                                     *)
IsTrade(c) ==
  /\ c.input \in Nat /\ c.path \in Path
  /\ c.fees \in [DOMAIN c.path -> 0 .. Base - 1]

LegParam(c, i) == PairParam(c.path[i], Token0(c.path[i]) = InAddr(c.path)[i], c.fees[i])

LEMMA Widths ==
  /\ Byte \in Nat \ {0} /\ 0 \in Chars /\ 1 \in Chars /\ Sign \notin Chars
  /\ AmountBytes \in Nat \ {0} /\ AddressBytes \in Nat \ {0} /\ FeeBytes \in Nat \ {0}
  /\ LegBytes \in Nat \ {0} /\ LegBytes = AddressBytes + 1 + FeeBytes
  BY WidthAssumption DEF Chars, LegBytes, Sign

LEMMA PathType ==
  ASSUME NEW path \in Path
  PROVE  /\ path \in Seq(Pool) /\ Len(path) \in Nat \ {0} /\ DOMAIN path = 1 .. Len(path)
         /\ \A i \in 1 .. Len(path) : path[i] \in Pool
         /\ \A i, j \in 1 .. Len(path) : path[i] = path[j] => i = j
  <1>1. path \in Seq(Pool) /\ path # <<>>
    BY PathAssumption
  <1>2. Len(path) \in Nat \ {0} /\ DOMAIN path = 1 .. Len(path)
    BY <1>1, EmptySeq, LenProperties
  <1>3. \A i \in 1 .. Len(path) : path[i] \in Pool
    BY <1>1, ElementOfSeq
  <1> QED
    BY <1>1, <1>2, <1>3, PathAssumption

LEMMA PairParamIs ==
  ASSUME NEW p \in Pool, NEW up, NEW fee \in 0 .. Base - 1
  PROVE  /\ PairParam(p, up, fee) \in Seq(Chars) /\ Len(PairParam(p, up, fee)) = LegBytes
         /\ \A k \in 1 .. AddressBytes : PairParam(p, up, fee)[k] = Digits(Address[p], AddressBytes)[k]
         /\ PairParam(p, up, fee)[AddressBytes + 1] = IF up THEN 1 ELSE 0
         /\ \A k \in 1 .. FeeBytes : PairParam(p, up, fee)[AddressBytes + 1 + k] = Digits(fee, FeeBytes)[k]
  <1> DEFINE a == Digits(Address[p], AddressBytes)
             d == <<IF up THEN 1 ELSE 0>>
             f == Digits(fee, FeeBytes)
             ad == a \o d
             s == ad \o f
  <1>1. a \in Seq(Chars) /\ Len(a) = AddressBytes
    <2>1. Address[p] \in Int
      BY WidthAssumption DEF Short
    <2> QED
      BY <2>1, Widths, DigitsType DEF Chars
  <1>2. f \in Seq(Chars) /\ Len(f) = FeeBytes
    <2>1. fee \in Int
      BY PoolAssumption
    <2> QED
      BY <2>1, Widths, DigitsType DEF Chars
  <1>3. d \in Seq(Chars) /\ Len(d) = 1 /\ d[1] = IF up THEN 1 ELSE 0
    <2>1. (IF up THEN 1 ELSE 0) \in Chars
      BY Widths
    <2> QED
      BY <2>1
  <1>4. PairParam(p, up, fee) = s
    BY DEF PairParam
  <1> HIDE DEF a, d, f
  <1>5. /\ ad \in Seq(Chars) /\ Len(ad) = AddressBytes + 1
        /\ \A k \in 1 .. AddressBytes + 1 : ad[k] = IF k <= AddressBytes THEN a[k] ELSE d[k - AddressBytes]
    <2>1. /\ a \o d \in Seq(Chars) /\ Len(a \o d) = Len(a) + Len(d)
          /\ \A k \in 1 .. Len(a) + Len(d) : (a \o d)[k] = IF k <= Len(a) THEN a[k] ELSE d[k - Len(a)]
      BY <1>1, <1>3, ConcatProperties
    <2> QED
      BY <1>1, <1>3, <2>1
  <1> HIDE DEF ad
  <1>6. /\ s \in Seq(Chars) /\ Len(s) = LegBytes
        /\ \A k \in 1 .. LegBytes : s[k] = IF k <= AddressBytes + 1 THEN ad[k] ELSE f[k - (AddressBytes + 1)]
    <2>1. /\ ad \o f \in Seq(Chars) /\ Len(ad \o f) = Len(ad) + Len(f)
          /\ \A k \in 1 .. Len(ad) + Len(f) : (ad \o f)[k] = IF k <= Len(ad) THEN ad[k] ELSE f[k - Len(ad)]
      BY <1>2, <1>5, ConcatProperties
    <2> QED
      BY <1>2, <1>5, <2>1, Widths
  <1> HIDE DEF s
  <1>7. \A k \in 1 .. AddressBytes : s[k] = a[k]
    <2>1. ASSUME NEW k \in 1 .. AddressBytes PROVE s[k] = a[k]
      <3>1. k \in 1 .. LegBytes /\ k \in 1 .. AddressBytes + 1 /\ k <= AddressBytes /\ k <= AddressBytes + 1
        BY Widths
      <3> QED
        BY <1>5, <1>6, <3>1
    <2> QED
      BY <2>1
  <1>8. s[AddressBytes + 1] = d[1]
    <2>1. AddressBytes + 1 \in 1 .. LegBytes /\ AddressBytes + 1 \in 1 .. AddressBytes + 1
          /\ ~(AddressBytes + 1 <= AddressBytes) /\ (AddressBytes + 1) - AddressBytes = 1
      BY Widths
    <2> QED
      BY <1>5, <1>6, <2>1
  <1>9. \A k \in 1 .. FeeBytes : s[AddressBytes + 1 + k] = f[k]
    <2>1. ASSUME NEW k \in 1 .. FeeBytes PROVE s[AddressBytes + 1 + k] = f[k]
      <3>1. AddressBytes + 1 + k \in 1 .. LegBytes /\ ~(AddressBytes + 1 + k <= AddressBytes + 1)
            /\ (AddressBytes + 1 + k) - (AddressBytes + 1) = k
        BY Widths
      <3> QED
        BY <1>6, <3>1
    <2> QED
      BY <2>1
  <1> QED
    BY <1>3, <1>4, <1>6, <1>7, <1>8, <1>9 DEF a, f

LEMMA LegParamIs ==
  ASSUME NEW c, IsTrade(c), NEW i \in 1 .. Len(c.path)
  PROVE  /\ c.path[i] \in Pool /\ c.fees[i] \in 0 .. Base - 1
         /\ LegParam(c, i) \in Seq(Chars) /\ Len(LegParam(c, i)) = LegBytes
  <1>1. c.path[i] \in Pool /\ c.fees[i] \in 0 .. Base - 1
    BY PathType DEF IsTrade
  <1> DEFINE p == c.path[i]
             fee == c.fees[i]
             up == Token0(p) = InAddr(c.path)[i]
  <1>2. PairParam(p, up, fee) \in Seq(Chars) /\ Len(PairParam(p, up, fee)) = LegBytes
    <2> HIDE DEF p, fee, up
    <2> QED
      <3>1. p \in Pool /\ fee \in 0 .. Base - 1
        BY <1>1 DEF p, fee
      <3> QED
        BY <3>1, PairParamIs
  <1> QED
    BY <1>1, <1>2 DEF LegParam

LEMMA ParamStrIs ==
  ASSUME NEW c, IsTrade(c), NEW v, NEW S, Chars \subseteq S, AmountParam(v) \in Seq(S)
  PROVE  \E g \in [0 .. Len(c.path) -> Seq(S)] :
           /\ g[0] = AmountParam(v) /\ \A i \in 1 .. Len(c.path) : g[i] = g[i - 1] \o LegParam(c, i)
           /\ ParamStr(c, v) = g[Len(c.path)]
  <1> DEFINE n == Len(c.path)
             Str(g, i) == IF i = 0 THEN AmountParam(v) ELSE g[i - 1] \o LegParam(c, i)
             All == Seq(S)
             step == [i \in 1 .. n |-> [z \in All |-> z \o LegParam(c, i)]]
  <1>1. n \in Nat
    BY PathType DEF IsTrade
  <1>2. step \in Steps(n, All)
    <2>1. ASSUME NEW i \in 1 .. n, NEW z \in All PROVE z \o LegParam(c, i) \in All
      <3>1. LegParam(c, i) \in Seq(S)
        BY LegParamIs, SeqMonotonic
      <3> QED
        BY <3>1, ConcatProperties
    <2> HIDE DEF All
    <2> QED
      BY <2>1 DEF Steps
  <1>3. PICK h \in [0 .. n -> All] : h[0] = AmountParam(v) /\ \A i \in 1 .. n : h[i] = step[i][h[i - 1]]
    <2>1. AmountParam(v) \in All
      OBVIOUS
    <2> HIDE DEF step, All, n
    <2>2. \E h : Runs(n, All, AmountParam(v), step, h)
      BY <1>1, <1>2, <2>1, Recursion
    <2> QED
      BY <2>2 DEF Runs
  <1> HIDE DEF n
  <1>4. ASSUME NEW i \in 1 .. n PROVE h[i] = h[i - 1] \o LegParam(c, i)
    <2>1. i - 1 \in 0 .. n
      BY <1>1
    <2>2. h[i - 1] \in All
      BY <1>3, <2>1
    <2> HIDE DEF All
    <2> QED
      BY <1>3, <2>2
  <1>5. \A i \in 0 .. n : h[i] = Str(h, i)
    <2>1. ASSUME NEW i \in 0 .. n, i # 0 PROVE h[i] = h[i - 1] \o LegParam(c, i)
      <3>1. i \in 1 .. n
        BY <1>1, <2>1
      <3> QED
        BY <1>4, <3>1
    <2>2. h[0] = AmountParam(v)
      BY <1>3
    <2> QED
      BY <2>1, <2>2
  <1>6. h = [i \in 0 .. n |-> Str(h, i)]
    BY <1>3, <1>5
  <1> DEFINE f == CHOOSE g : g = [i \in 0 .. n |-> Str(g, i)]
  <1>7. f = [i \in 0 .. n |-> Str(f, i)]
    BY <1>6
  <1>8. ParamStr(c, v) = f[n]
    BY DEF ParamStr, LegParam, n
  <1> HIDE DEF f
  <1>9. f = h
    <2> DEFINE Same == {i \in 0 .. n : f[i] = h[i]}
    <2>1. \A i \in 0 .. n : f[i] = Str(f, i)
      BY <1>7
    <2>2. 0 \in Same
      BY <1>1, <1>3, <2>1
    <2>3. ASSUME NEW i \in 0 .. n - 1, i \in Same PROVE i + 1 \in Same
      <3>1. i + 1 \in 0 .. n /\ i + 1 # 0 /\ (i + 1) - 1 = i
        BY <1>1
      <3>2. f[i + 1] = f[i] \o LegParam(c, i + 1) /\ h[i + 1] = h[i] \o LegParam(c, i + 1)
        BY <1>5, <2>1, <3>1
      <3> QED
        BY <2>3, <3>1, <3>2
    <2> HIDE DEF Same
    <2>4. \A i \in 0 .. n : i \in Same
      BY <1>1, <2>2, <2>3, Induction
    <2> QED
      BY <1>3, <1>7, <2>4 DEF Same
  <1> QED
    BY <1>3, <1>4, <1>8, <1>9 DEF n

(* Where leg j begins behind m characters, less one.                       *)
Offset(m, j) == m + LegBytes * (j - 1)

LEMMA OffsetIs ==
  ASSUME NEW m \in Nat, NEW n \in Nat
  PROVE  /\ Offset(m, 1) = m /\ Offset(m, n + 1) \in Nat /\ m <= Offset(m, n + 1)
         /\ \A i \in 1 .. n : /\ Offset(m, i) \in Nat /\ m <= Offset(m, i)
                             /\ Offset(m, i + 1) = Offset(m, i) + LegBytes
                             /\ Offset(m, i) + LegBytes <= Offset(m, n + 1)
  <1>1. \A k \in Nat : LegBytes * k \in Nat
    BY Widths
  <1>2. Offset(m, 1) = m
    <2>1. LegBytes * (1 - 1) = 0
      BY Widths
    <2> QED
      BY <2>1 DEF Offset
  <1>3. Offset(m, n + 1) = m + LegBytes * n
    BY DEF Offset
  <1>4. ASSUME NEW i \in 1 .. n
        PROVE  /\ Offset(m, i) \in Nat /\ m <= Offset(m, i)
               /\ Offset(m, i + 1) = Offset(m, i) + LegBytes
               /\ Offset(m, i) + LegBytes <= Offset(m, n + 1)
    <2> DEFINE x == LegBytes * (i - 1)
               y == LegBytes * i
               z == LegBytes * n
    <2>1. x \in Nat /\ y \in Nat /\ z \in Nat
      <3>1. i - 1 \in Nat /\ i \in Nat
        OBVIOUS
      <3> QED
        BY <1>1, <3>1
    <2>2. y = x + LegBytes
      BY Widths
    <2>3. y <= z
      BY Times, Widths
    <2>4. Offset(m, i) = m + x /\ Offset(m, i + 1) = m + y
      BY DEF Offset
    <2> HIDE DEF x, y
    <2> QED
      BY <1>3, <2>1, <2>2, <2>3, <2>4, Widths
  <1>5. LegBytes * n \in Nat
    BY <1>1
  <1> QED
    BY <1>2, <1>3, <1>4, <1>5

(* The parameter s is a, then the legs of c.                               *)
LaidOut(s, a, c) ==
  /\ Len(s) = Offset(Len(a), Len(c.path) + 1)
  /\ \A k \in 1 .. Len(a) : s[k] = a[k]
  /\ \A j \in 1 .. Len(c.path), k \in 1 .. LegBytes : s[Offset(Len(a), j) + k] = LegParam(c, j)[k]

LEMMA Layout ==
  ASSUME NEW c, IsTrade(c), NEW v, NEW S, Chars \subseteq S, AmountParam(v) \in Seq(S)
  PROVE  ParamStr(c, v) \in Seq(S) /\ LaidOut(ParamStr(c, v), AmountParam(v), c)
  <1> DEFINE n == Len(c.path)
             a == AmountParam(v)
             m == Len(a)
             Good(s, i) == /\ Len(s) = Offset(m, i + 1)
                           /\ \A k \in 1 .. m : s[k] = a[k]
                           /\ \A j \in 1 .. i, k \in 1 .. LegBytes : s[Offset(m, j) + k] = LegParam(c, j)[k]
  <1>1. n \in Nat /\ LegBytes \in Nat \ {0}
    BY PathType, Widths DEF IsTrade
  <1>2. PICK g \in [0 .. n -> Seq(S)] :
          /\ g[0] = a /\ \A i \in 1 .. n : g[i] = g[i - 1] \o LegParam(c, i)
          /\ ParamStr(c, v) = g[n]
    BY ParamStrIs
  <1>3. a \in Seq(S) /\ m \in Nat
    BY LenProperties
  <1> HIDE DEF n, a, m
  <1> DEFINE Done == {i \in 0 .. n : Good(g[i], i)}
  <1>4. 0 \in Done
    <2>1. m = Offset(m, 0 + 1)
      BY <1>3, OffsetIs
    <2> QED
      BY <1>1, <1>2, <1>3, <2>1 DEF m
  <1>5. ASSUME NEW i \in 0 .. n - 1, i \in Done PROVE i + 1 \in Done
    <2> DEFINE s == g[i]
               q == LegParam(c, i + 1)
               t == g[i + 1]
    <2>1. i + 1 \in 1 .. n /\ i + 1 \in 0 .. n /\ i \in 0 .. n /\ (i + 1) - 1 = i /\ i \in Nat
      BY <1>1
    <2>2. s \in Seq(S) /\ t = s \o q
      BY <1>2, <2>1
    <2>3. q \in Seq(S) /\ Len(q) = LegBytes
      <3>1. q \in Seq(Chars) /\ Len(q) = LegBytes
        BY <2>1, LegParamIs DEF n
      <3> QED
        BY <3>1, SeqMonotonic
    <2>4. Good(s, i)
      BY <1>5
    <2> HIDE DEF s, q, t
    <2>5. Len(s) = Offset(m, i + 1) /\ Len(s) \in Nat /\ m <= Len(s)
      BY <1>3, <2>1, <2>2, <2>4, LenProperties, OffsetIs
    <2>6. /\ Len(t) = Len(s) + LegBytes
          /\ \A k \in 1 .. Len(s) + LegBytes : t[k] = IF k <= Len(s) THEN s[k] ELSE q[k - Len(s)]
      BY <2>2, <2>3, ConcatProperties
    <2>7. Len(t) = Offset(m, (i + 1) + 1)
      <3>1. i + 1 \in 1 .. i + 1 /\ i + 1 \in Nat
        BY <2>1
      <3>2. Offset(m, (i + 1) + 1) = Offset(m, i + 1) + LegBytes
        BY <1>3, <3>1, OffsetIs
      <3> QED
        BY <2>5, <2>6, <3>2
    <2>8. ASSUME NEW k \in 1 .. m PROVE t[k] = a[k]
      <3>1. k \in 1 .. Len(s) + LegBytes /\ k <= Len(s)
        BY <1>1, <1>3, <2>5
      <3> QED
        BY <2>4, <2>6, <3>1
    <2>9. ASSUME NEW j \in 1 .. i + 1, NEW k \in 1 .. LegBytes PROVE t[Offset(m, j) + k] = LegParam(c, j)[k]
      <3>1. CASE j = i + 1
        <4>1. Offset(m, j) + k = Len(s) + k
          BY <2>5, <3>1
        <4>2. Len(s) + k \in 1 .. Len(s) + LegBytes /\ ~(Len(s) + k <= Len(s)) /\ (Len(s) + k) - Len(s) = k
          BY <1>1, <2>5
        <4>3. t[Len(s) + k] = q[k]
          BY <2>6, <4>2
        <4> QED
          BY <3>1, <4>1, <4>3 DEF q
      <3>2. CASE j # i + 1
        <4>1. j \in 1 .. i
          BY <2>1, <3>2
        <4>2. Offset(m, j) \in Nat /\ Offset(m, j) + LegBytes <= Len(s)
          BY <1>3, <2>1, <2>5, <4>1, OffsetIs
        <4>3. Offset(m, j) + k \in 1 .. Len(s) + LegBytes /\ Offset(m, j) + k <= Len(s)
          BY <1>1, <2>5, <4>2
        <4> QED
          BY <2>4, <2>6, <4>1, <4>3
      <3> QED
        BY <3>1, <3>2
    <2> QED
      BY <2>1, <2>7, <2>8, <2>9 DEF t
  <1>6. n \in Done
    <2> HIDE DEF Done
    <2>1. \A i \in 0 .. n : i \in Done
      BY <1>1, <1>4, <1>5, Induction
    <2> QED
      BY <1>1, <2>1
  <1>7. Good(g[n], n) /\ g[n] \in Seq(S)
    BY <1>1, <1>2, <1>6
  <1> QED
    BY <1>2, <1>7 DEF LaidOut, n, a, m

(* What stands before the first sign is kept.                              *)
LEMMA FromHexIs ==
  /\ \A s \in Seq(Chars) : FromHex(s) = s
  /\ \A S : \A s \in Seq(S) : Len(s) > 0 /\ s[1] = Sign => FromHex(s) = <<>>
  <1>1. ASSUME NEW s \in Seq(Chars) PROVE FromHex(s) = s
    <2>1. \A i \in DOMAIN s : s[i] # Sign
      BY Widths, LenProperties, ElementOfSeq
    <2> QED
      BY <2>1 DEF FromHex
  <1>2. ASSUME NEW S, NEW s \in Seq(S), Len(s) > 0, s[1] = Sign PROVE FromHex(s) = <<>>
    <2> DEFINE bad == {i \in DOMAIN s : s[i] = Sign}
    <2>1. DOMAIN s = 1 .. Len(s) /\ Len(s) \in Nat
      BY LenProperties
    <2>2. 1 \in bad /\ \A i \in bad : i \in Int /\ 1 <= i
      BY <1>2, <2>1
    <2> HIDE DEF bad
    <2>3. Min(bad) = 1
      <3>1. \E x \in bad : \A y \in bad : x <= y
        BY <2>2
      <3>2. Min(bad) \in bad /\ \A y \in bad : Min(bad) <= y
        BY <3>1 DEF Min
      <3> QED
        BY <2>2, <3>2
    <2>4. FromHex(s) = SubSeq(s, 1, 0)
      <3>1. FromHex(s) = IF bad = {} THEN s ELSE SubSeq(s, 1, Min(bad) - 1)
        BY DEF FromHex, bad
      <3>2. bad # {} /\ Min(bad) - 1 = 0
        BY <2>2, <2>3
      <3> QED
        BY <3>1, <3>2
    <2> QED
      BY <2>4, SubSeqEmpty
  <1> QED
    BY <1>1, <1>2

-----------------------------------------------------------------------------
(***************************************************************************)
(* What the contract reads.                                                *)
(***************************************************************************)
LEMMA WalkIs ==
  ASSUME NEW path \in Path
  PROVE  /\ InAddr(path)[1] = WETH /\ InAddr(path)[Len(path) + 1] = WETH
         /\ \A i \in 1 .. Len(path) :
              /\ InAddr(path)[i] \in {Token0(path[i]), Token1(path[i])}
              /\ InAddr(path)[i + 1] = Opposite(path[i], InAddr(path)[i])
  <1> DEFINE n == Len(path)
             Addr(g, i) == IF i = 1 THEN WETH ELSE Opposite(path[i - 1], g[i - 1])
  <1>1. n \in Nat /\ \A i \in 1 .. n : path[i] \in Pool
    BY PathType
  <1>2. PICK at \in [1 .. n + 1 -> Token] :
          /\ at[1] = WETH /\ at[n + 1] = WETH
          /\ \A i \in 1 .. n : <<at[i], at[i + 1]>> \in {Ends[path[i]], <<Ends[path[i]][2], Ends[path[i]][1]>>}
    BY PathAssumption
  <1> HIDE DEF n
  <1>3. ASSUME NEW i \in 1 .. n
        PROVE  at[i] \in {Token0(path[i]), Token1(path[i])} /\ at[i + 1] = Opposite(path[i], at[i])
    <2> DEFINE p == path[i]
    <2>1. p \in Pool /\ Ends[p] = <<Ends[p][1], Ends[p][2]>> /\ Ends[p][1] # Ends[p][2]
      <3>1. p \in Pool
        BY <1>1
      <3> HIDE DEF p
      <3>2. Ends[p] \in Token \X Token /\ Ends[p][1] # Ends[p][2]
        BY <3>1, PoolAssumption
      <3> QED
        BY <3>1, <3>2
    <2>2. <<at[i], at[i + 1]>> \in {Ends[p], <<Ends[p][2], Ends[p][1]>>}
      BY <1>2
    <2> HIDE DEF p
    <2>3. \/ at[i] = Ends[p][1] /\ at[i + 1] = Ends[p][2]
          \/ at[i] = Ends[p][2] /\ at[i + 1] = Ends[p][1]
      BY <2>1, <2>2
    <2>4. at[i] \in {Token0(p), Token1(p)} /\ at[i + 1] = Opposite(p, at[i])
      BY <2>1, <2>3 DEF Token0, Token1, Opposite
    <2> QED
      BY <2>4 DEF p
  <1>4. \A i \in 1 .. n + 1 : at[i] = Addr(at, i)
    <2>1. ASSUME NEW i \in 1 .. n + 1, i # 1 PROVE at[i] = Opposite(path[i - 1], at[i - 1])
      <3>1. i - 1 \in 1 .. n /\ (i - 1) + 1 = i
        BY <1>1, <2>1
      <3>2. at[(i - 1) + 1] = Opposite(path[i - 1], at[i - 1])
        BY <1>3, <3>1
      <3> QED
        BY <3>1, <3>2
    <2> QED
      BY <1>2, <2>1
  <1>5. at = [i \in 1 .. n + 1 |-> Addr(at, i)]
    BY <1>2, <1>4
  <1> DEFINE f == CHOOSE g : g = [i \in 1 .. n + 1 |-> Addr(g, i)]
  <1>6. f = [i \in 1 .. n + 1 |-> Addr(f, i)]
    BY <1>5
  <1>7. InAddr(path) = f
    BY DEF InAddr, n
  <1> HIDE DEF f
  <1>8. f = at
    <2> DEFINE Same == {i \in 0 .. n : f[i + 1] = at[i + 1]}
    <2>1. \A i \in 1 .. n + 1 : f[i] = Addr(f, i)
      BY <1>6
    <2>2. 0 \in Same
      <3>1. 1 \in 1 .. n + 1
        BY <1>1
      <3>2. f[1] = at[1]
        BY <1>2, <2>1, <3>1
      <3> QED
        BY <1>1, <3>2
    <2>3. ASSUME NEW i \in 0 .. n - 1, i \in Same PROVE i + 1 \in Same
      <3>1. i + 1 \in 0 .. n /\ (i + 1) + 1 \in 1 .. n + 1 /\ (i + 1) + 1 # 1 /\ ((i + 1) + 1) - 1 = i + 1
        BY <1>1
      <3>2. f[(i + 1) + 1] = Opposite(path[i + 1], f[i + 1]) /\ at[(i + 1) + 1] = Opposite(path[i + 1], at[i + 1])
        BY <1>4, <2>1, <3>1
      <3> QED
        BY <2>3, <3>1, <3>2
    <2> HIDE DEF Same
    <2>4. \A i \in 0 .. n : i \in Same
      BY <1>1, <2>2, <2>3, Induction
    <2>5. ASSUME NEW i \in 1 .. n + 1 PROVE f[i] = at[i]
      <3>1. i - 1 \in 0 .. n /\ (i - 1) + 1 = i
        BY <1>1
      <3>2. f[(i - 1) + 1] = at[(i - 1) + 1]
        BY <2>4, <3>1 DEF Same
      <3> QED
        BY <3>1, <3>2
    <2> QED
      BY <1>2, <1>6, <2>5
  <1> QED
    BY <1>2, <1>3, <1>7, <1>8 DEF n

LEMMA AtIs == \A p \in Pool : At(Address[p]) = p
  BY WidthAssumption DEF At

(* Reads(s, v, c): the amount v and the legs of c.                         *)
Reads(s, v, c) ==
  /\ s \in Seq(Chars) /\ Len(s) >= AmountBytes + LegBytes
  /\ AmountIn(s) = v /\ LegCount(s) = Len(c.path) /\ Len(Routes(s)) = Len(c.path)
  /\ \A i \in 1 .. Len(c.path) :
       /\ Routes(s)[i].pair = Address[c.path[i]] /\ Routes(s)[i].fee = c.fees[i]
       /\ At(Routes(s)[i].pair) = c.path[i]
       /\ In(Routes(s)[i]) = InAddr(c.path)[i] /\ Out(Routes(s)[i]) = InAddr(c.path)[i + 1]

(* A part of a sequence that spells the digits of a number.                *)
LEMMA PartRead ==
  ASSUME NEW s \in Seq(Chars), NEW at \in Nat, NEW w \in Nat, at + w <= Len(s),
         NEW v \in Nat, Short(v, w), \A k \in 1 .. w : s[at + k] = Digits(v, w)[k]
  PROVE  Number(SubSeq(s, at + 1, at + w)) = v
  <1> DEFINE t == SubSeq(s, at + 1, at + w)
             d == Digits(v, w)
  <1>1. \A i \in at + 1 .. at + w : s[i] \in Chars
    <2>1. Len(s) \in Nat
      BY LenProperties
    <2>2. \A i \in at + 1 .. at + w : i \in 1 .. Len(s)
      BY <2>1
    <2> QED
      BY <2>2, ElementOfSeq
  <1>2. /\ t \in Seq(Chars) /\ Len(t) = w
        /\ \A k \in 1 .. w : t[k] = s[at + k]
    <2> DEFINE m == at + 1
               n == at + w
    <2>1. m \in Int /\ n \in Int
      OBVIOUS
    <2>2. \A i \in m .. n : s[i] \in Chars
      BY <1>1
    <2>3. (IF m <= n THEN n - m + 1 ELSE 0) = w /\ n - m + 1 = w /\ \A k \in 1 .. w : m + k - 1 = at + k
      OBVIOUS
    <2> HIDE DEF m, n
    <2>4. /\ SubSeq(s, m, n) \in Seq(Chars)
          /\ Len(SubSeq(s, m, n)) = IF m <= n THEN n - m + 1 ELSE 0
          /\ \A k \in 1 .. n - m + 1 : SubSeq(s, m, n)[k] = s[m + k - 1]
      BY <2>1, <2>2, SubSeqProperties
    <2>5. \A k \in 1 .. w : SubSeq(s, m, n)[k] = s[at + k]
      BY <2>3, <2>4
    <2> QED
      BY <2>3, <2>4, <2>5 DEF m, n
  <1>3. d \in Seq(Chars) /\ Len(d) = w
    BY DigitsType DEF Chars
  <1>4. t = d
    <2> HIDE DEF t, d
    <2>1. \A k \in 1 .. w : s[at + k] = d[k]
      BY DEF d
    <2> QED
      BY <1>2, <1>3, <2>1, SeqEqual
  <1> QED
    BY <1>4, DigitsRead

LEMMA RoutesRead ==
  ASSUME NEW c, IsTrade(c), NEW s \in Seq(Chars), NEW v \in Nat, Short(v, AmountBytes),
         LaidOut(s, Digits(v, AmountBytes), c)
  PROVE  Reads(s, v, c)
  <1> DEFINE n == Len(c.path)
             r == Routes(s)
             addr == InAddr(c.path)
  <1>1. n \in Nat \ {0} /\ c.path \in Path
    BY PathType DEF IsTrade
  <1>2. /\ Len(s) = Offset(AmountBytes, n + 1) /\ Len(s) \in Nat /\ AmountBytes + LegBytes <= Len(s)
        /\ \A k \in 1 .. AmountBytes : s[k] = Digits(v, AmountBytes)[k]
        /\ \A j \in 1 .. n, k \in 1 .. LegBytes : s[Offset(AmountBytes, j) + k] = LegParam(c, j)[k]
    <2>1. Len(Digits(v, AmountBytes)) = AmountBytes
      <3>1. v \in Int /\ AmountBytes \in Nat
        BY Widths
      <3> QED
        BY <3>1, DigitsType
    <2>2. 1 \in 1 .. n /\ AmountBytes \in Nat
      BY <1>1, Widths
    <2> HIDE DEF n
    <2>3. Offset(AmountBytes, 1) = AmountBytes /\ Offset(AmountBytes, 1) + LegBytes <= Offset(AmountBytes, n + 1)
      BY <1>1, <2>2, OffsetIs
    <2> QED
      BY <2>1, <2>3, LenProperties DEF LaidOut, n
  <1>3. LegCount(s) = n
    <2> DEFINE m == LegBytes * n
    <2>1. Len(s) = AmountBytes + m /\ m \in Nat
      <3>1. Offset(AmountBytes, n + 1) = AmountBytes + LegBytes * ((n + 1) - 1) /\ (n + 1) - 1 = n
        BY <1>1 DEF Offset
      <3>2. m \in Nat
        <4>1. LegBytes \in Nat /\ n \in Nat
          BY <1>1, Widths
        <4> HIDE DEF n
        <4> QED
          BY <4>1
      <3> QED
        BY <1>2, <3>1, <3>2
    <2>2. m \in Int /\ n \in Int /\ LegBytes * n <= m /\ m < LegBytes * n + LegBytes
      <3>1. m \in Int /\ LegBytes * n = m /\ n \in Int /\ LegBytes \in Nat \ {0}
        BY <1>1, <2>1, Widths
      <3> HIDE DEF m, n
      <3> QED
        BY <3>1
    <2> HIDE DEF m, n
    <2>3. m \div LegBytes = n
      BY <2>2, Widths, Quotient
    <2>4. Len(s) - AmountBytes = m
      BY <2>1, Widths
    <2> QED
      BY <2>3, <2>4 DEF LegCount
  <1>4. AmountIn(s) = v
    <2>1. Number(SubSeq(s, 0 + 1, 0 + AmountBytes)) = v
      <3> DEFINE at == 0
      <3>1. at \in Nat /\ at + AmountBytes <= Len(s) /\ \A k \in 1 .. AmountBytes : s[at + k] = Digits(v, AmountBytes)[k]
        BY <1>2, Widths
      <3>2. AmountBytes \in Nat
        BY Widths
      <3> HIDE DEF at
      <3>3. Number(SubSeq(s, at + 1, at + AmountBytes)) = v
        BY <3>1, <3>2, PartRead
      <3> QED
        BY <3>3 DEF at
    <2>2. 0 + 1 = 1 /\ 0 + AmountBytes = AmountBytes
      BY Widths
    <2> QED
      BY <2>1, <2>2 DEF AmountIn
  <1>5. Len(r) = n
    BY <1>1, <1>3 DEF Routes
  <1>6. ASSUME NEW i \in 1 .. n
        PROVE  /\ r[i].pair = Address[c.path[i]] /\ r[i].fee = c.fees[i]
               /\ At(r[i].pair) = c.path[i]
               /\ In(r[i]) = addr[i] /\ Out(r[i]) = addr[i + 1]
    <2> DEFINE at == Offset(AmountBytes, i)
               p == c.path[i]
               fee == c.fees[i]
               up == Token0(p) = addr[i]
    <2>1. p \in Pool /\ fee \in 0 .. Base - 1
      BY LegParamIs
    <2>2. at \in Nat /\ at + LegBytes <= Len(s)
      <3>1. AmountBytes \in Nat /\ n \in Nat
        BY <1>1, Widths
      <3> HIDE DEF n
      <3> QED
        BY <1>2, <3>1, OffsetIs
    <2>3. \A k \in 1 .. LegBytes : s[at + k] = PairParam(p, up, fee)[k]
      BY <1>2 DEF LegParam
    <2>4. r[i] = [pair |-> Number(SubSeq(s, at + 1, at + AddressBytes)),
                  direction |-> s[at + AddressBytes + 1] # 0,
                  fee |-> Number(SubSeq(s, at + AddressBytes + 2, at + LegBytes))]
      BY <1>3 DEF Routes, Offset
    <2>5. addr[i] \in {Token0(p), Token1(p)} /\ addr[i + 1] = Opposite(p, addr[i])
      BY <1>1, WalkIs
    <2>6. Token0(p) # Token1(p)
      <3> HIDE DEF p
      <3> QED
        BY <2>1, Sides
    <2> HIDE DEF at, p, fee, up, addr, r, n
    <2>7. /\ \A k \in 1 .. AddressBytes : PairParam(p, up, fee)[k] = Digits(Address[p], AddressBytes)[k]
          /\ PairParam(p, up, fee)[AddressBytes + 1] = IF up THEN 1 ELSE 0
          /\ \A k \in 1 .. FeeBytes : PairParam(p, up, fee)[AddressBytes + 1 + k] = Digits(fee, FeeBytes)[k]
      BY <2>1, PairParamIs
    <2>8. Number(SubSeq(s, at + 1, at + AddressBytes)) = Address[p]
      <3>1. Address[p] \in Nat /\ Short(Address[p], AddressBytes)
        BY <2>1, WidthAssumption DEF Short
      <3>2. at + AddressBytes <= Len(s) /\ AddressBytes \in Nat
        <4>1. Len(s) \in Nat
          BY LenProperties
        <4> QED
          BY <2>2, <4>1, Widths
      <3>3. \A k \in 1 .. AddressBytes : s[at + k] = Digits(Address[p], AddressBytes)[k]
        BY <2>3, <2>7, Widths
      <3> QED
        BY <2>2, <3>1, <3>2, <3>3, PartRead
    <2>9. s[at + AddressBytes + 1] = IF up THEN 1 ELSE 0
      <3>1. AddressBytes + 1 \in 1 .. LegBytes /\ at + (AddressBytes + 1) = at + AddressBytes + 1
        BY <2>2, Widths
      <3> QED
        BY <2>3, <2>7, <3>1
    <2>10. Number(SubSeq(s, at + AddressBytes + 2, at + LegBytes)) = fee
      <3> DEFINE a2 == at + AddressBytes + 1
      <3>1. a2 \in Nat /\ a2 + 1 = at + AddressBytes + 2 /\ a2 + FeeBytes = at + LegBytes /\ FeeBytes \in Nat
        BY <2>2, Widths
      <3>2. fee \in Nat /\ Short(fee, FeeBytes)
        BY <2>1, WidthAssumption DEF Short
      <3>3. ASSUME NEW k \in 1 .. FeeBytes PROVE s[a2 + k] = Digits(fee, FeeBytes)[k]
        <4>1. AddressBytes + 1 + k \in 1 .. LegBytes /\ a2 + k = at + (AddressBytes + 1 + k)
          BY <2>2, Widths
        <4> QED
          BY <2>3, <2>7, <4>1
      <3> HIDE DEF a2
      <3>4. Number(SubSeq(s, a2 + 1, a2 + FeeBytes)) = fee
        BY <2>2, <3>1, <3>2, <3>3, PartRead
      <3> QED
        BY <3>1, <3>4
    <2>11. r[i].pair = Address[p] /\ r[i].fee = fee /\ r[i].direction = up
      <3>1. (s[at + AddressBytes + 1] # 0) = up
        BY <2>9 DEF up
      <3> QED
        BY <2>4, <2>8, <2>10, <3>1
    <2>12. At(r[i].pair) = p
      BY <2>1, <2>11, AtIs
    <2>13. In(r[i]) = addr[i] /\ Out(r[i]) = addr[i + 1]
      BY <2>5, <2>6, <2>11, <2>12 DEF In, Out, Opposite, up
    <2> QED
      BY <2>11, <2>12, <2>13 DEF p, fee
  <1> QED
    BY <1>2, <1>3, <1>4, <1>5, <1>6 DEF Reads

(* Execute comes to the trade that was packed, or to nothing.              *)
LEMMA Decoded ==
  ASSUME NEW c, IsTrade(c), NEW s \in Params(c)
  PROVE  /\ s \in Seq(Chars)
         /\ \/ s = <<>> /\ c.input > MaxInt
            \/ \E v \in Nat : v <= c.input /\ Reads(s, v, c)
         /\ c.input <= MaxInt => Reads(s, c.input, c)
  <1>1. PICK v \in Int64(c.input) : s = FromHex(ParamStr(c, v))
    BY DEF Params
  <1>2. c.input \in Nat /\ MaxInt \in Nat
    BY WidthAssumption DEF IsTrade
  <1>3. CASE v \in 0 .. MaxInt
    <2>1. Short(v, AmountBytes) /\ v \in Nat
      BY <1>2, <1>3, WidthAssumption
    <2>2. AmountParam(v) = Digits(v, AmountBytes)
      BY <2>1 DEF AmountParam
    <2>3. Digits(v, AmountBytes) \in Seq(Chars) /\ Len(Digits(v, AmountBytes)) = AmountBytes
      <3>1. v \in Int /\ AmountBytes \in Nat
        BY <2>1, Widths
      <3> QED
        BY <3>1, DigitsType DEF Chars
    <2> DEFINE t == ParamStr(c, v)
    <2>4. t \in Seq(Chars) /\ LaidOut(t, Digits(v, AmountBytes), c)
      <3>1. AmountParam(v) \in Seq(Chars) /\ Chars \subseteq Chars
        BY <2>2, <2>3
      <3> QED
        BY <2>2, <2>3, <3>1, Layout
    <2> HIDE DEF t
    <2>5. s = t
      BY <1>1, <2>4, FromHexIs DEF t
    <2>6. Reads(s, v, c)
      BY <2>1, <2>4, <2>5, RoutesRead
    <2>7. v <= c.input /\ (c.input <= MaxInt => v = c.input)
      BY <1>2, <1>3 DEF Int64
    <2> QED
      BY <2>1, <2>4, <2>5, <2>6, <2>7
  <1>4. CASE v \notin 0 .. MaxInt
    <2>1. v = -MaxInt - 1 /\ c.input > MaxInt
      BY <1>2, <1>4 DEF Int64
    <2> DEFINE S == Chars \cup {Sign}
               d == Digits(-v, AmountBytes)
               a == <<Sign>> \o d
    <2>2. v < 0 /\ -v \in Int
      BY <1>2, <2>1
    <2>3. AmountParam(v) = a
      BY <2>2 DEF AmountParam
    <2>4. a \in Seq(S) /\ Len(a) = 1 + AmountBytes /\ a[1] = Sign
      <3>1. d \in Seq(Chars) /\ Len(d) = AmountBytes
        BY <2>2, Widths, DigitsType DEF Chars
      <3>2. d \in Seq(S)
        BY <3>1, SeqMonotonic
      <3>3. <<Sign>> \in Seq(S) /\ Len(<<Sign>>) = 1 /\ <<Sign>>[1] = Sign
        OBVIOUS
      <3> DEFINE e == <<Sign>>
      <3> HIDE DEF d, S, e
      <3>4. /\ e \o d \in Seq(S) /\ Len(e \o d) = Len(e) + Len(d)
            /\ \A k \in 1 .. Len(e) + Len(d) : (e \o d)[k] = IF k <= Len(e) THEN e[k] ELSE d[k - Len(e)]
        BY <3>2, <3>3, ConcatProperties DEF e
      <3>5. 1 \in 1 .. 1 + AmountBytes
        BY Widths
      <3> QED
        BY <3>1, <3>3, <3>4, <3>5 DEF e
    <2> HIDE DEF S, a
    <2> DEFINE t == ParamStr(c, v)
    <2>5. t \in Seq(S) /\ LaidOut(t, a, c)
      <3>1. Chars \subseteq S /\ AmountParam(v) \in Seq(S)
        BY <2>3, <2>4 DEF S
      <3> QED
        BY <2>3, <3>1, Layout
    <2>6. Len(t) > 0 /\ t[1] = Sign
      <3>1. Len(c.path) \in Nat /\ Len(a) \in Nat \ {0}
        BY <2>4, PathType, Widths DEF IsTrade
      <3>2. Len(t) \in Nat /\ Len(a) <= Len(t)
        BY <2>5, <3>1, OffsetIs DEF LaidOut
      <3> HIDE DEF t
      <3> QED
        BY <2>4, <2>5, <3>1, <3>2 DEF LaidOut
    <2>7. s = <<>>
      <3> HIDE DEF t
      <3>1. FromHex(t) = <<>>
        BY <2>5, <2>6, FromHexIs
      <3> QED
        BY <1>1, <3>1 DEF t
    <2> QED
      BY <1>2, <2>1, <2>7, EmptySeq
  <1> QED
    BY <1>3, <1>4

-----------------------------------------------------------------------------
(***************************************************************************)
(* A trade, leg by leg.                                                    *)
(***************************************************************************)
Holders == Pool \cup {Account}

Ledgers == [Holders -> [Token -> Nat]]

Books == [Holders -> [Token -> Int]]

Middles == [bal : Books, reserve : Books, error : {"none", "pair"}]

LEMMA TransferIs ==
  ASSUME NEW bal \in Books, NEW from \in Holders, NEW to \in Holders, from # to,
         NEW x \in Token, NEW a \in Int
  PROVE  LET next == Transfer(bal, from, to, x, a)
         IN /\ next \in Books
            /\ next[from] = [bal[from] EXCEPT ![x] = bal[from][x] - a]
            /\ next[to] = [bal[to] EXCEPT ![x] = bal[to][x] + a]
            /\ \A h \in Holders : h # from /\ h # to => next[h] = bal[h]
  <1> DEFINE less == [bal[from] EXCEPT ![x] = bal[from][x] - a]
             more == [bal[to] EXCEPT ![x] = bal[to][x] + a]
  <1>1. bal[from] \in [Token -> Int] /\ bal[to] \in [Token -> Int]
    BY DEF Books
  <1>2. less \in [Token -> Int] /\ more \in [Token -> Int]
    BY <1>1
  <1>3. Transfer(bal, from, to, x, a) = [bal EXCEPT ![from] = less, ![to] = more]
    BY DEF Transfer, Books
  <1> HIDE DEF less, more
  <1>4. Transfer(bal, from, to, x, a) \in Books
    BY <1>2, <1>3 DEF Books
  <1> QED
    BY <1>3, <1>4 DEF Books, less, more

(* The token leg i of c pays with.                                         *)
Tok(c, i) == InAddr(c.path)[i]

LEMMA TokIs ==
  ASSUME NEW c, IsTrade(c)
  PROVE  /\ Len(c.path) \in Nat \ {0} /\ DOMAIN c.path = 1 .. Len(c.path)
         /\ Tok(c, 1) = WETH /\ Tok(c, Len(c.path) + 1) = WETH
         /\ \A i \in 1 .. Len(c.path) :
              /\ c.path[i] \in Pool /\ c.path[i] \in Holders /\ c.path[i] # Account
              /\ c.fees[i] \in 0 .. Base - 1 /\ TrueFee[c.path[i]] \in 0 .. Base - 1
              /\ Tok(c, i) \in Token /\ Tok(c, i + 1) \in Token /\ Tok(c, i) # Tok(c, i + 1)
              /\ Tok(c, i) \in {Token0(c.path[i]), Token1(c.path[i])}
              /\ Tok(c, i + 1) = Opposite(c.path[i], Tok(c, i))
              /\ {Token0(c.path[i]), Token1(c.path[i])} = {Tok(c, i), Tok(c, i + 1)}
         /\ \A i, j \in 1 .. Len(c.path) : c.path[i] = c.path[j] => i = j
  <1>1. c.path \in Path
    BY DEF IsTrade
  <1>2. ASSUME NEW i \in 1 .. Len(c.path)
        PROVE  /\ c.path[i] \in Pool /\ c.path[i] \in Holders /\ c.path[i] # Account
               /\ c.fees[i] \in 0 .. Base - 1 /\ TrueFee[c.path[i]] \in 0 .. Base - 1
               /\ Tok(c, i) \in Token /\ Tok(c, i + 1) \in Token /\ Tok(c, i) # Tok(c, i + 1)
               /\ Tok(c, i) \in {Token0(c.path[i]), Token1(c.path[i])}
               /\ Tok(c, i + 1) = Opposite(c.path[i], Tok(c, i))
               /\ {Token0(c.path[i]), Token1(c.path[i])} = {Tok(c, i), Tok(c, i + 1)}
    <2> DEFINE p == c.path[i]
    <2>1. p \in Pool /\ c.fees[i] \in 0 .. Base - 1
      BY LegParamIs
    <2>2. Tok(c, i) \in {Token0(p), Token1(p)} /\ Tok(c, i + 1) = Opposite(p, Tok(c, i))
      BY <1>1, WalkIs DEF Tok
    <2> HIDE DEF p
    <2>3. p \in Holders /\ p # Account /\ TrueFee[p] \in 0 .. Base - 1
      BY <2>1, PoolAssumption DEF Holders
    <2>4. /\ Opposite(p, Tok(c, i)) \in {Token0(p), Token1(p)} /\ Opposite(p, Tok(c, i)) # Tok(c, i)
          /\ {Token0(p), Token1(p)} = {Tok(c, i), Opposite(p, Tok(c, i))}
          /\ Token0(p) \in Token /\ Token1(p) \in Token
      BY <2>1, <2>2, Sides
    <2> QED
      BY <2>1, <2>2, <2>3, <2>4 DEF p
  <1> QED
    BY <1>1, <1>2, PathType, WalkIs DEF Tok

(* The amounts _swap works out, from the reserves and its amount a.        *)
Quotes(l, c, a, amounts) ==
  /\ amounts \in [1 .. Len(c.path) + 1 -> Nat] /\ amounts[1] = a
  /\ Last(amounts) = amounts[Len(c.path) + 1]
  /\ \A i \in 1 .. Len(c.path) :
       amounts[i + 1] = GetAmountOut(amounts[i], l[c.path[i]][Tok(c, i)], l[c.path[i]][Tok(c, i + 1)], c.fees[i])

LEMMA QuotesAre ==
  ASSUME NEW l \in Ledgers, NEW c, IsTrade(c), NEW s, NEW v, Reads(s, v, c), NEW a \in Nat
  PROVE  Quotes(l, c, a, GetAmountsOut(l, a, Routes(s)))
  <1> DEFINE n == Len(c.path)
             r == Routes(s)
             Give(i, z) == GetAmountOut(z, l[c.path[i]][Tok(c, i)], l[c.path[i]][Tok(c, i + 1)], c.fees[i])
             Amount(g, i) == IF i = 1 THEN a ELSE Give(i - 1, g[i - 1])
             S == Nat
             step == [i \in 1 .. n |-> [z \in S |-> Give(i, z)]]
  <1>1. n \in Nat /\ Len(r) = n
    BY TokIs DEF Reads
  <1>2. ASSUME NEW i \in 1 .. n, NEW z \in Nat PROVE Give(i, z) \in Nat
    <2> DEFINE in == l[c.path[i]][Tok(c, i)]
               out == l[c.path[i]][Tok(c, i + 1)]
               fee == c.fees[i]
    <2>1. in \in Nat /\ out \in Nat /\ fee \in 0 .. Base - 1
      BY TokIs DEF Ledgers
    <2> HIDE DEF in, out, fee
    <2>2. GetAmountOut(z, in, out, fee) \in 0 .. out
      BY <2>1, QuoteBounds
    <2>3. GetAmountOut(z, in, out, fee) \in Nat
      BY <2>1, <2>2
    <2> QED
      BY <2>3 DEF in, out, fee
  <1> HIDE DEF n, Give
  <1>3. a \in S /\ step \in Steps(n, S)
    BY <1>2 DEF Steps
  <1>4. PICK h \in [0 .. n -> Nat] : h[0] = a /\ \A i \in 1 .. n : h[i] = step[i][h[i - 1]]
    <2> HIDE DEF step, S
    <2>1. \E h : Runs(n, S, a, step, h)
      BY <1>1, <1>3, Recursion
    <2> QED
      BY <2>1 DEF S, Runs
  <1> DEFINE k == [i \in 1 .. n + 1 |-> h[i - 1]]
  <1>5. k \in [1 .. n + 1 -> Nat] /\ k[1] = a
    <2>1. \A i \in 1 .. n + 1 : i - 1 \in 0 .. n
      BY <1>1
    <2>2. 1 \in 1 .. n + 1 /\ 1 - 1 = 0
      BY <1>1
    <2> QED
      BY <1>4, <2>1, <2>2
  <1>6. ASSUME NEW i \in 1 .. n PROVE k[i + 1] = Give(i, k[i])
    <2>1. i - 1 \in 0 .. n /\ i \in 1 .. n + 1 /\ i + 1 \in 1 .. n + 1 /\ (i + 1) - 1 = i
      BY <1>1
    <2>2. h[i - 1] \in S /\ k[i] = h[i - 1] /\ k[i + 1] = h[i]
      BY <1>4, <2>1
    <2>3. h[i] = step[i][h[i - 1]]
      BY <1>4
    <2>4. step[i][h[i - 1]] = Give(i, h[i - 1])
      BY <2>2
    <2> HIDE DEF k, step
    <2> QED
      BY <2>2, <2>3, <2>4
  <1> HIDE DEF k, step, S
  <1>7. ASSUME NEW i \in 1 .. n + 1, i # 1 PROVE k[i] = Give(i - 1, k[i - 1])
    <2>1. i - 1 \in 1 .. n /\ (i - 1) + 1 = i
      BY <1>1, <1>7
    <2>2. k[(i - 1) + 1] = Give(i - 1, k[i - 1])
      BY <1>6, <2>1
    <2> QED
      BY <2>1, <2>2
  <1>8. \A i \in 1 .. n + 1 : k[i] = Amount(k, i)
    BY <1>5, <1>7
  <1>9. k = [i \in 1 .. n + 1 |-> Amount(k, i)]
    BY <1>5, <1>8
  <1> DEFINE Code(g, i) == IF i = 1 THEN a
                           ELSE LET q == r[i - 1]
                                    b == l[At(q.pair)]
                                IN GetAmountOut(g[i - 1], b[In(q)], b[Out(q)], q.fee)
  <1>10. \A g : [i \in 1 .. n + 1 |-> Code(g, i)] = [i \in 1 .. n + 1 |-> Amount(g, i)]
    <2>1. ASSUME NEW g, NEW i \in 1 .. n + 1 PROVE Code(g, i) = Amount(g, i)
      <3>1. CASE i = 1
        BY <3>1
      <3>2. CASE i # 1
        <4> DEFINE j == i - 1
        <4>1. j \in 1 .. n
          BY <1>1, <3>2
        <4>2. /\ r[j].fee = c.fees[j] /\ At(r[j].pair) = c.path[j]
              /\ In(r[j]) = Tok(c, j) /\ Out(r[j]) = Tok(c, j + 1)
          BY <4>1 DEF Reads, Tok, n
        <4> HIDE DEF j, r
        <4>3. GetAmountOut(g[j], l[At(r[j].pair)][In(r[j])], l[At(r[j].pair)][Out(r[j])], r[j].fee) = Give(j, g[j])
          BY <4>2 DEF Give
        <4> QED
          BY <3>2, <4>3 DEF j
      <3> QED
        BY <3>1, <3>2
    <2> HIDE DEF Code, Amount
    <2> QED
      BY <2>1
  <1>11. \A g : (g = [i \in 1 .. n + 1 |-> Code(g, i)]) <=> (g = [i \in 1 .. n + 1 |-> Amount(g, i)])
    <2> HIDE DEF Code, Amount
    <2> QED
      BY <1>10
  <1> DEFINE f == CHOOSE g : g = [i \in 1 .. n + 1 |-> Code(g, i)]
  <1>12. f = [i \in 1 .. n + 1 |-> Amount(f, i)]
    <2> HIDE DEF Code, Amount
    <2>1. k = [i \in 1 .. n + 1 |-> Code(k, i)]
      BY <1>9, <1>11
    <2>2. f = [i \in 1 .. n + 1 |-> Code(f, i)]
      BY <2>1
    <2> QED
      BY <1>11, <2>2
  <1>13. GetAmountsOut(l, a, r) = f
    <2> HIDE DEF r
    <2>1. GetAmountsOut(l, a, r) = CHOOSE g : g = [i \in 1 .. Len(r) + 1 |-> Code(g, i)]
      BY DEF GetAmountsOut
    <2> HIDE DEF Code
    <2> QED
      BY <1>1, <2>1
  <1> HIDE DEF f, Code
  <1>14. f = k
    <2> DEFINE Same == {i \in 0 .. n : f[i + 1] = k[i + 1]}
    <2>1. \A i \in 1 .. n + 1 : f[i] = Amount(f, i)
      <3> HIDE DEF Amount
      <3> QED
        BY <1>12
    <2>2. 0 \in Same
      <3>1. 1 \in 1 .. n + 1 /\ 0 + 1 = 1
        BY <1>1
      <3>2. f[1] = k[1]
        BY <1>5, <2>1, <3>1
      <3> QED
        BY <1>1, <3>1, <3>2
    <2>3. ASSUME NEW i \in 0 .. n - 1, i \in Same PROVE i + 1 \in Same
      <3>1. i + 1 \in 0 .. n /\ (i + 1) + 1 \in 1 .. n + 1 /\ (i + 1) + 1 # 1 /\ ((i + 1) + 1) - 1 = i + 1
        BY <1>1
      <3>2. f[(i + 1) + 1] = Give(i + 1, f[i + 1]) /\ k[(i + 1) + 1] = Give(i + 1, k[i + 1])
        BY <1>8, <2>1, <3>1
      <3> QED
        BY <2>3, <3>1, <3>2
    <2> HIDE DEF Same
    <2>4. \A i \in 0 .. n : i \in Same
      BY <1>1, <2>2, <2>3, Induction
    <2>5. ASSUME NEW i \in 1 .. n + 1 PROVE f[i] = k[i]
      <3>1. i - 1 \in 0 .. n /\ (i - 1) + 1 = i
        BY <1>1
      <3>2. f[(i - 1) + 1] = k[(i - 1) + 1]
        BY <2>4, <3>1 DEF Same
      <3> QED
        BY <3>1, <3>2
    <2> HIDE DEF Amount
    <2> QED
      BY <1>5, <1>12, <2>5
  <1>15. Last(k) = k[n + 1]
    <2>1. Len(k) = n + 1
      BY <1>1, <1>5
    <2> QED
      BY <2>1 DEF Last
  <1>16. GetAmountsOut(l, a, Routes(s)) = k
    BY <1>13, <1>14
  <1> QED
    BY <1>5, <1>6, <1>15, <1>16 DEF Quotes, Give, n

(* Leg i is one its pool lets through.                                     *)
Allowed(l, c, amounts, i) ==
  LET in  == l[c.path[i]][Tok(c, i)]
      out == l[c.path[i]][Tok(c, i + 1)]
  IN /\ amounts[i] > 0 /\ amounts[i + 1] > 0 /\ amounts[i + 1] < out
     /\ Passes(in, out, amounts[i], amounts[i + 1], TrueFee[c.path[i]])

(* The balances of the pool of leg i, and the account's, after the leg.    *)
After(l, c, amounts, i) ==
  [l[c.path[i]] EXCEPT ![Tok(c, i)] = l[c.path[i]][Tok(c, i)] + amounts[i],
                       ![Tok(c, i + 1)] = l[c.path[i]][Tok(c, i + 1)] - amounts[i + 1]]

AccountAfter(l, c, amounts, i) ==
  [l[Account] EXCEPT ![WETH] = IF i = Len(c.path) THEN l[Account][WETH] - amounts[1] + amounts[i + 1]
                               ELSE l[Account][WETH] - amounts[1]]

(* A transaction that has done its first i legs.                           *)
Traded(l, c, amounts, m, i) ==
  /\ m \in Middles /\ m.error = "none"
  /\ \A j \in 1 .. i : /\ Allowed(l, c, amounts, j)
                       /\ m.bal[c.path[j]] = After(l, c, amounts, j)
                       /\ m.reserve[c.path[j]] = After(l, c, amounts, j)
  /\ \A p \in Pool : (\A j \in 1 .. i : p # c.path[j]) =>
       /\ m.reserve[p] = l[p]
       /\ i = Len(c.path) \/ p # c.path[i + 1] => m.bal[p] = l[p]
  /\ i < Len(c.path) =>
       m.bal[c.path[i + 1]] = [l[c.path[i + 1]] EXCEPT ![Tok(c, i + 1)] = l[c.path[i + 1]][Tok(c, i + 1)] + amounts[i + 1]]
  /\ m.bal[Account] = AccountAfter(l, c, amounts, i)

(* Whom leg i pays.                                                        *)
To(c, i) == IF i = Len(c.path) THEN Account ELSE c.path[i + 1]

LEMMA PairSwapType ==
  ASSUME NEW m \in Middles, NEW c, IsTrade(c), NEW s, NEW v, Reads(s, v, c),
         NEW i \in 1 .. Len(c.path), NEW a \in Int
  PROVE  PairSwap(m, Routes(s)[i], a, To(c, i)) \in Middles
  <1> DEFINE g == Routes(s)[i]
             p == At(g.pair)
             to == To(c, i)
             bal == Transfer(m.bal, p, to, Out(g), a)
  <1>1. p = c.path[i] /\ Out(g) = Tok(c, i + 1)
    BY DEF Reads, Tok
  <1>2. p \in Holders /\ Out(g) \in Token
    BY <1>1, TokIs
  <1>3. to \in Holders /\ to # p
    <2>1. CASE i = Len(c.path)
      BY <1>1, <2>1, TokIs DEF To, Holders
    <2>2. CASE i # Len(c.path)
      <3>1. i + 1 \in 1 .. Len(c.path) /\ i + 1 # i
        BY <2>2, TokIs
      <3> QED
        BY <1>1, <2>2, <3>1, TokIs DEF To
    <2> QED
      BY <2>1, <2>2
  <1>4. m.bal \in Books /\ m.reserve \in Books
    BY DEF Middles
  <1>5. bal \in Books
    <2> HIDE DEF g, p, to
    <2> QED
      BY <1>2, <1>3, <1>4, TransferIs
  <1>6. bal[p] \in [Token -> Int]
    <2> HIDE DEF bal
    <2> QED
      BY <1>2, <1>5 DEF Books
  <1>7. [m.reserve EXCEPT ![p] = bal[p]] \in Books
    <2> HIDE DEF bal
    <2> QED
      BY <1>4, <1>6 DEF Books
  <1> DEFINE done == [bal |-> bal, reserve |-> [m.reserve EXCEPT ![p] = bal[p]], error |-> "none"]
             failed == [m EXCEPT !.error = "pair"]
  <1>8. done \in Middles /\ failed \in Middles
    <2> HIDE DEF bal
    <2> QED
      BY <1>5, <1>7 DEF Middles
  <1>9. PairSwap(m, g, a, to) \in {m, done, failed}
    BY DEF PairSwap
  <1> HIDE DEF done, failed, g, to
  <1> QED
    BY <1>8, <1>9 DEF g, to

LEMMA LegIs ==
  ASSUME NEW l \in Ledgers, NEW c, IsTrade(c), NEW s, NEW v, Reads(s, v, c),
         NEW a \in Nat, NEW amounts, Quotes(l, c, a, amounts),
         NEW i \in 1 .. Len(c.path), NEW m, Traded(l, c, amounts, m, i - 1)
  PROVE  LET next == PairSwap(m, Routes(s)[i], amounts[i + 1], To(c, i))
         IN /\ Allowed(l, c, amounts, i) => Traded(l, c, amounts, next, i)
            /\ ~ Allowed(l, c, amounts, i) => next.error = "pair"
  <1> DEFINE n == Len(c.path)
             g == Routes(s)[i]
             p == c.path[i]
             x == Tok(c, i)
             y == Tok(c, i + 1)
             in == l[p][x]
             out == l[p][y]
             u == amounts[i]
             b == amounts[i + 1]
             own == TrueFee[p]
             to == To(c, i)
             bal == Transfer(m.bal, p, to, y, b)
             next == PairSwap(m, g, b, to)
  <1>1. /\ p \in Pool /\ p \in Holders /\ p # Account /\ x \in Token /\ y \in Token /\ x # y
        /\ own \in 0 .. Base - 1 /\ n \in Nat \ {0}
    BY TokIs
  <1>2. At(g.pair) = p /\ In(g) = x /\ Out(g) = y
    BY DEF Reads, Tok
  <1>3. l[p] \in [Token -> Nat] /\ in \in Nat /\ out \in Nat
    <2> HIDE DEF p, x, y
    <2> QED
      BY <1>1 DEF Ledgers
  <1>4. u \in Nat /\ b \in 0 .. out
    <2>1. i \in 1 .. n + 1 /\ i + 1 \in 1 .. n + 1
      BY <1>1
    <2>2. u \in Nat /\ b = GetAmountOut(u, in, out, c.fees[i])
      BY <2>1 DEF Quotes
    <2>3. c.fees[i] \in 0 .. Base - 1
      BY TokIs
    <2> HIDE DEF u, b, in, out
    <2> QED
      BY <1>3, <2>2, <2>3, QuoteBounds
  <1>5. to \in Holders /\ to # p /\ (i # n => to = c.path[i + 1]) /\ (i = n => to = Account)
    <2>1. CASE i = n
      BY <1>1, <2>1 DEF To, Holders
    <2>2. CASE i # n
      <3>1. i + 1 \in 1 .. n /\ i + 1 # i
        BY <1>1, <2>2
      <3> QED
        BY <2>2, <3>1, TokIs DEF To
    <2> QED
      BY <2>1, <2>2
  <1>6. m \in Middles /\ m.error = "none" /\ m.bal \in Books /\ m.reserve \in Books
    BY DEF Traded, Middles
  <1>7. \A j \in 1 .. i - 1 : p # c.path[j]
    <2>1. \A j \in 1 .. i - 1 : j \in 1 .. n /\ j # i
      BY <1>1
    <2> QED
      BY <2>1, TokIs
  <1>8. m.reserve[p] = l[p]
    BY <1>1, <1>7 DEF Traded
  <1>9. m.bal[p] = [l[p] EXCEPT ![x] = in + u]
    <2>1. i - 1 < n /\ (i - 1) + 1 = i
      BY <1>1
    <2> QED
      BY <2>1 DEF Traded
  <1>10. /\ bal \in Books
         /\ bal[p] = [m.bal[p] EXCEPT ![y] = m.bal[p][y] - b]
         /\ bal[to] = [m.bal[to] EXCEPT ![y] = m.bal[to][y] + b]
         /\ \A h \in Holders : h # p /\ h # to => bal[h] = m.bal[h]
    <2> HIDE DEF p, x, y, to, b, out
    <2> DEFINE old == m.bal
    <2>1. b \in Int /\ old \in Books /\ p # to
      BY <1>3, <1>4, <1>5, <1>6
    <2> HIDE DEF old
    <2>2. /\ Transfer(old, p, to, y, b) \in Books
          /\ Transfer(old, p, to, y, b)[p] = [old[p] EXCEPT ![y] = old[p][y] - b]
          /\ Transfer(old, p, to, y, b)[to] = [old[to] EXCEPT ![y] = old[to][y] + b]
          /\ \A h \in Holders : h # p /\ h # to => Transfer(old, p, to, y, b)[h] = old[h]
      BY <1>1, <1>5, <2>1, TransferIs
    <2> QED
      BY <2>2 DEF old
  <1>11. bal[p] = After(l, c, amounts, i) /\ bal[p][x] = in + u /\ bal[p][y] = out - b
    <2>1. After(l, c, amounts, i) = [l[p] EXCEPT ![x] = in + u, ![y] = out - b]
      BY DEF After
    <2> HIDE DEF bal, p, x, y, u, b
    <2>2. m.bal[p][y] = out
      BY <1>1, <1>3, <1>9
    <2> QED
      BY <1>1, <1>3, <1>9, <1>10, <2>1, <2>2
  <1> DEFINE paidIn == Excess(bal[p][x], in)
             paidOut == Excess(bal[p][y], out - b)
             k == Adjusted(bal[p][x], paidIn, own) * Adjusted(bal[p][y], paidOut, own)
             passed == [bal |-> bal, reserve |-> [m.reserve EXCEPT ![p] = bal[p]], error |-> "none"]
             failed == [m EXCEPT !.error = "pair"]
  <1>12. next = IF b > 0 /\ b < out /\ (paidIn > 0 \/ paidOut > 0) /\ k >= in * out * Base * Base
                THEN passed ELSE failed
    <2>1. m.reserve[p][x] = in /\ m.reserve[p][y] = out
      BY <1>8
    <2> HIDE DEF g, p, x, y, in, out, b, to
    <2> QED
      BY <1>2, <1>6, <2>1 DEF PairSwap
  <1>13. paidIn = u /\ paidOut = 0
    <2> HIDE DEF bal, in, out, u, b
    <2>1. bal[p][x] = in + u /\ bal[p][y] = out - b
      BY <1>11
    <2> QED
      BY <1>3, <1>4, <2>1 DEF Excess
  <1>14. k >= in * out * Base * Base <=> Passes(in, out, u, b, own)
    <2>1. k = Adjusted(in + u, u, own) * Adjusted(out - b, 0, own)
      BY <1>11, <1>13
    <2> HIDE DEF k, in, out, u, b, own
    <2>2. Adjusted(in + u, u, own) = Kept(in, u, own)
      BY <1>1, <1>3, <1>4, AdjustedIs
    <2>3. Adjusted(out - b, 0, own) = (out - b) * Base
      <3>1. 0 * own = 0 /\ (out - b) * Base \in Int
        <4>1. own \in Int /\ Base \in Int /\ out - b \in Int
          <5>1. Base \in Nat
            BY PoolAssumption
          <5>2. own \in Int
            <6>1. own \in 0 .. Base - 1
              BY <1>1
            <6> QED
              BY <5>1, <6>1
          <5>3. out - b \in Int
            BY <1>3, <1>4
          <5> QED
            BY <5>1, <5>2, <5>3
        <4> QED
          BY <4>1
      <3> QED
        BY <3>1 DEF Adjusted
    <2>4. k = Kept(in, u, own) * ((out - b) * Base)
      BY <2>1, <2>2, <2>3
    <2> QED
      BY <1>1, <1>3, <1>4, <2>4, CheckIs
  <1>15. Allowed(l, c, amounts, i) <=> u > 0 /\ b > 0 /\ b < out /\ Passes(in, out, u, b, own)
    BY DEF Allowed
  <1> HIDE DEF k, paidIn, paidOut, passed, failed
  <1>16. ASSUME ~ Allowed(l, c, amounts, i) PROVE next.error = "pair"
    <2>1. next = failed
      <3> HIDE DEF next, u, b, in, out
      <3>1. ~(b > 0 /\ b < out /\ (paidIn > 0 \/ paidOut > 0) /\ k >= in * out * Base * Base)
        BY <1>13, <1>14, <1>15, <1>16
      <3> QED
        BY <1>12, <3>1
    <2>2. failed.error = "pair"
      BY <1>6 DEF failed, Middles
    <2> QED
      BY <2>1, <2>2
  <1>17. ASSUME Allowed(l, c, amounts, i) PROVE Traded(l, c, amounts, next, i)
    <2>1. next = passed
      <3> HIDE DEF next, u, b, in, out
      <3>1. b > 0 /\ b < out /\ (paidIn > 0 \/ paidOut > 0) /\ k >= in * out * Base * Base
        BY <1>13, <1>14, <1>15, <1>17
      <3> QED
        BY <1>12, <3>1
    <2>2. next \in Middles /\ next.error = "none" /\ next.bal = bal /\ next.reserve = [m.reserve EXCEPT ![p] = bal[p]]
      <3>1. b \in Int
        BY <1>3, <1>4
      <3>2. next \in Middles
        <4> HIDE DEF b, g, to
        <4> QED
          BY <1>6, <3>1, PairSwapType DEF g, to
      <3> QED
        BY <2>1, <3>2 DEF passed
    <2> HIDE DEF next, bal
    <2>3. ASSUME NEW j \in 1 .. i
          PROVE  /\ Allowed(l, c, amounts, j)
                 /\ next.bal[c.path[j]] = After(l, c, amounts, j)
                 /\ next.reserve[c.path[j]] = After(l, c, amounts, j)
      <3>1. CASE j = i
        BY <1>1, <1>6, <1>11, <1>17, <2>2, <3>1 DEF Books
      <3>2. CASE j # i
        <4>1. j \in 1 .. i - 1 /\ j \in 1 .. n
          BY <1>1, <3>2
        <4>2. c.path[j] \in Holders /\ c.path[j] # p /\ c.path[j] # to
          <5>1. c.path[j] \in Holders /\ c.path[j] # p /\ c.path[j] # Account
            BY <3>2, <4>1, TokIs
          <5>2. i # n => c.path[j] # c.path[i + 1]
            <6>1. i # n => i + 1 \in 1 .. n /\ j # i + 1
              BY <1>1, <4>1
            <6> QED
              BY <4>1, <6>1, TokIs
          <5> QED
            BY <1>5, <5>1, <5>2
        <4>3. /\ Allowed(l, c, amounts, j)
              /\ m.bal[c.path[j]] = After(l, c, amounts, j)
              /\ m.reserve[c.path[j]] = After(l, c, amounts, j)
          BY <4>1 DEF Traded
        <4> HIDE DEF p, to
        <4> QED
          BY <1>6, <1>10, <2>2, <4>2, <4>3 DEF Books
      <3> QED
        BY <3>1, <3>2
    <2>4. ASSUME NEW q \in Pool, \A j \in 1 .. i : q # c.path[j]
          PROVE  next.reserve[q] = l[q] /\ (i = n \/ q # c.path[i + 1] => next.bal[q] = l[q])
      <3>1. q # p /\ (\A j \in 1 .. i - 1 : q # c.path[j]) /\ q \in Holders /\ q # Account
        <4>1. i \in 1 .. i /\ \A j \in 1 .. i - 1 : j \in 1 .. i
          OBVIOUS
        <4> QED
          BY <2>4, <4>1, PoolAssumption DEF Holders
      <3>2. m.reserve[q] = l[q] /\ m.bal[q] = l[q]
        <4>1. (i - 1) + 1 = i
          OBVIOUS
        <4> QED
          BY <3>1, <4>1 DEF Traded
      <3>3. i = n \/ q # c.path[i + 1] => q # to
        BY <1>5, <3>1
      <3> HIDE DEF p, to
      <3> QED
        BY <1>6, <1>10, <2>2, <3>1, <3>2, <3>3 DEF Books
    <2>5. ASSUME i < n
          PROVE  next.bal[c.path[i + 1]] =
                   [l[c.path[i + 1]] EXCEPT ![Tok(c, i + 1)] = l[c.path[i + 1]][Tok(c, i + 1)] + amounts[i + 1]]
      <3>1. to = c.path[i + 1] /\ i + 1 \in 1 .. n /\ to \in Pool
        <4>1. i # n /\ i + 1 \in 1 .. n
          BY <1>1, <2>5
        <4> QED
          BY <1>5, <4>1, TokIs
      <3>2. \A j \in 1 .. i - 1 : to # c.path[j]
        <4>1. \A j \in 1 .. i - 1 : j \in 1 .. n /\ j # i + 1
          BY <1>1
        <4> QED
          BY <3>1, <4>1, TokIs
      <3>3. m.bal[to] = l[to]
        <4>1. (i - 1) + 1 = i
          OBVIOUS
        <4> HIDE DEF to
        <4> QED
          BY <1>5, <3>1, <3>2, <4>1 DEF Traded
      <3> QED
        BY <1>10, <2>2, <3>1, <3>3
    <2>6. next.bal[Account] = AccountAfter(l, c, amounts, i)
      <3>1. m.bal[Account] = AccountAfter(l, c, amounts, i - 1) /\ i - 1 # n
        BY <1>1 DEF Traded
      <3>2. m.bal[Account] = [l[Account] EXCEPT ![WETH] = l[Account][WETH] - amounts[1]]
        BY <3>1 DEF AccountAfter
      <3>3. Account \in Holders /\ l[Account] \in [Token -> Nat] /\ WETH \in Token
        BY PoolAssumption DEF Holders, Ledgers
      <3>4. CASE i = n
        <4>1. to = Account /\ y = WETH
          BY <1>5, <3>4, TokIs
        <4>2. next.bal[Account] = [m.bal[Account] EXCEPT ![WETH] = m.bal[Account][WETH] + b]
          BY <1>10, <2>2, <4>1
        <4>3. m.bal[Account][WETH] = l[Account][WETH] - amounts[1]
          BY <3>2, <3>3
        <4> QED
          BY <3>2, <3>3, <3>4, <4>2, <4>3 DEF AccountAfter
      <3>5. CASE i # n
        <4>1. to # Account
          <5>1. i + 1 \in 1 .. n
            BY <1>1, <3>5
          <5> QED
            BY <1>5, <3>5, <5>1, TokIs
        <4>2. next.bal[Account] = m.bal[Account]
          BY <1>1, <1>10, <2>2, <3>3, <4>1
        <4> QED
          BY <3>2, <3>5, <4>2 DEF AccountAfter
      <3> QED
        BY <3>4, <3>5
    <2> QED
      BY <2>2, <2>3, <2>4, <2>5, <2>6 DEF Traded
  <1> QED
    BY <1>16, <1>17

LEMMA PaidIs ==
  ASSUME NEW l \in Ledgers, NEW c, IsTrade(c), NEW s, NEW v, Reads(s, v, c),
         NEW a \in 0 .. l[Account][WETH], NEW amounts, Quotes(l, c, a, amounts)
  PROVE  Traded(l, c, amounts, Paid(l, a, Routes(s)), 0)
  <1> DEFINE p == c.path[1]
             m == Paid(l, a, Routes(s))
             bal == Transfer(l, Account, p, WETH, a)
  <1>1. /\ 1 \in 1 .. Len(c.path) /\ p \in Pool /\ p \in Holders /\ p # Account
        /\ Tok(c, 1) = WETH /\ WETH \in Token /\ Len(c.path) \in Nat \ {0}
    BY TokIs, PoolAssumption
  <1>2. At(Routes(s)[1].pair) = p
    BY <1>1 DEF Reads
  <1>3. l \in Books /\ Account \in Holders
    BY DEF Ledgers, Books, Holders
  <1>4. l[Account][WETH] \in Nat /\ a \in Int
    BY <1>1, <1>3 DEF Ledgers
  <1>5. /\ bal \in Books
        /\ bal[Account] = [l[Account] EXCEPT ![WETH] = l[Account][WETH] - a]
        /\ bal[p] = [l[p] EXCEPT ![WETH] = l[p][WETH] + a]
        /\ \A h \in Holders : h # Account /\ h # p => bal[h] = l[h]
    <2> HIDE DEF p
    <2> QED
      BY <1>1, <1>3, <1>4, TransferIs
  <1>6. m = [bal |-> bal, reserve |-> l, error |-> "none"]
    BY <1>2, <1>4 DEF Paid
  <1> HIDE DEF bal, m
  <1>7. m \in Middles /\ m.error = "none" /\ m.bal = bal /\ m.reserve = l
    BY <1>3, <1>5, <1>6 DEF Middles
  <1>8. amounts[1] = a /\ 0 # Len(c.path) /\ 0 + 1 = 1
    BY <1>1 DEF Quotes
  <1>9. \A q \in Pool : m.reserve[q] = l[q] /\ (q # c.path[0 + 1] => m.bal[q] = l[q])
    BY <1>5, <1>7, <1>8, PoolAssumption DEF Holders
  <1>10. m.bal[c.path[0 + 1]] =
           [l[c.path[0 + 1]] EXCEPT ![Tok(c, 0 + 1)] = l[c.path[0 + 1]][Tok(c, 0 + 1)] + amounts[0 + 1]]
    BY <1>1, <1>5, <1>7, <1>8
  <1>11. m.bal[Account] = AccountAfter(l, c, amounts, 0)
    BY <1>5, <1>7, <1>8 DEF AccountAfter
  <1>12. \A j \in 1 .. 0 : FALSE
    OBVIOUS
  <1>13. \A j \in 1 .. 0 : /\ Allowed(l, c, amounts, j)
                          /\ m.bal[c.path[j]] = After(l, c, amounts, j)
                          /\ m.reserve[c.path[j]] = After(l, c, amounts, j)
    BY <1>12
  <1>14. Traded(l, c, amounts, m, 0)
    BY <1>7, <1>8, <1>9, <1>10, <1>11, <1>13 DEF Traded
  <1> QED
    BY <1>14 DEF m

LEMMA LegsAre ==
  ASSUME NEW l \in Ledgers, NEW c, IsTrade(c), NEW s, NEW v, Reads(s, v, c),
         NEW a \in Nat, NEW amounts, Quotes(l, c, a, amounts),
         NEW m, Traded(l, c, amounts, m, 0)
  PROVE  LET last == Legs(m, Routes(s), amounts)
         IN /\ last \in Middles
            /\ last.error = "none" => Traded(l, c, amounts, last, Len(c.path))
            /\ (\A i \in 1 .. Len(c.path) : Allowed(l, c, amounts, i)) => last.error = "none"
  <1> DEFINE n == Len(c.path)
             r == Routes(s)
             Swapped(i, z) == PairSwap(z, r[i], amounts[i + 1], To(c, i))
             Leg(g, i) == IF i = 0 THEN m ELSE Swapped(i, g[i - 1])
             S == Middles
             step == [i \in 1 .. n |-> [z \in S |-> Swapped(i, z)]]
  <1>1. n \in Nat /\ Len(r) = n
    BY TokIs DEF Reads
  <1>2. ASSUME NEW i \in 1 .. n, NEW z \in Middles PROVE Swapped(i, z) \in Middles
    <2> DEFINE b == amounts[i + 1]
    <2>1. b \in Int
      <3>1. i + 1 \in 1 .. n + 1
        BY <1>1
      <3> QED
        BY <3>1 DEF Quotes
    <2> HIDE DEF b
    <2>2. PairSwap(z, Routes(s)[i], b, To(c, i)) \in Middles
      BY <2>1, PairSwapType
    <2> QED
      BY <2>2 DEF b
  <1>3. m \in Middles /\ m.error = "none"
    BY DEF Traded
  <1>4. \A i \in 1 .. n : To(c, i) = IF i = n THEN Account ELSE At(r[i + 1].pair)
    <2>1. ASSUME NEW i \in 1 .. n, i # n PROVE At(r[i + 1].pair) = c.path[i + 1]
      <3>1. i + 1 \in 1 .. n
        BY <1>1, <2>1
      <3> QED
        BY <3>1 DEF Reads
    <2> QED
      BY <2>1 DEF To
  <1> HIDE DEF n, Swapped
  <1>5. m \in S /\ step \in Steps(n, S)
    BY <1>2, <1>3 DEF Steps
  <1>6. PICK h \in [0 .. n -> Middles] : h[0] = m /\ \A i \in 1 .. n : h[i] = step[i][h[i - 1]]
    <2> HIDE DEF step, S
    <2>1. \E h : Runs(n, S, m, step, h)
      BY <1>1, <1>5, Recursion
    <2> QED
      BY <2>1 DEF S, Runs
  <1>7. ASSUME NEW i \in 1 .. n PROVE h[i] = Swapped(i, h[i - 1]) /\ h[i - 1] \in Middles
    <2>1. i - 1 \in 0 .. n
      BY <1>1
    <2>2. h[i - 1] \in S
      BY <1>6, <2>1
    <2>3. step[i][h[i - 1]] = Swapped(i, h[i - 1])
      BY <2>2
    <2> HIDE DEF step
    <2> QED
      BY <1>6, <2>2, <2>3
  <1> HIDE DEF step
  <1>8. \A i \in 0 .. n : h[i] = Leg(h, i)
    <2>1. ASSUME NEW i \in 0 .. n, i # 0 PROVE h[i] = Swapped(i, h[i - 1])
      <3>1. i \in 1 .. n
        BY <1>1, <2>1
      <3> QED
        BY <1>7, <3>1
    <2> QED
      BY <1>6, <2>1
  <1>9. h = [i \in 0 .. n |-> Leg(h, i)]
    <2> HIDE DEF Leg
    <2> QED
      BY <1>6, <1>8
  <1> DEFINE Code(g, i) == IF i = 0 THEN m
                           ELSE PairSwap(g[i - 1], r[i], amounts[i + 1], IF i = n THEN Account ELSE At(r[i + 1].pair))
  <1>10. \A g : [i \in 0 .. n |-> Code(g, i)] = [i \in 0 .. n |-> Leg(g, i)]
    <2>1. ASSUME NEW g, NEW i \in 0 .. n PROVE Code(g, i) = Leg(g, i)
      <3>1. CASE i = 0
        BY <3>1
      <3>2. CASE i # 0
        <4>1. i \in 1 .. n
          BY <1>1, <3>2
        <4>2. (IF i = n THEN Account ELSE At(r[i + 1].pair)) = To(c, i)
          BY <1>4, <4>1
        <4> QED
          BY <3>2, <4>2 DEF Swapped
      <3> QED
        BY <3>1, <3>2
    <2> HIDE DEF Code, Leg
    <2> QED
      BY <2>1
  <1>11. \A g : (g = [i \in 0 .. n |-> Code(g, i)]) <=> (g = [i \in 0 .. n |-> Leg(g, i)])
    <2> HIDE DEF Code, Leg
    <2> QED
      BY <1>10
  <1> DEFINE f == CHOOSE g : g = [i \in 0 .. n |-> Code(g, i)]
  <1>12. f = [i \in 0 .. n |-> Leg(f, i)]
    <2> HIDE DEF Code, Leg
    <2>1. h = [i \in 0 .. n |-> Code(h, i)]
      BY <1>9, <1>11
    <2>2. f = [i \in 0 .. n |-> Code(f, i)]
      BY <2>1
    <2> QED
      BY <1>11, <2>2
  <1>13. Legs(m, Routes(s), amounts) = f[n]
    <2>1. Legs(m, r, amounts) = LET legs == CHOOSE g : g = [i \in 0 .. Len(r) |->
                                    IF i = 0 THEN m
                                    ELSE PairSwap(g[i - 1], r[i], amounts[i + 1],
                                                  IF i = Len(r) THEN Account ELSE At(r[i + 1].pair))]
                                IN legs[Len(r)]
      BY DEF Legs
    <2> QED
      BY <1>1, <2>1
  <1> HIDE DEF f, Code
  <1>14. f = h
    <2> DEFINE Same == {i \in 0 .. n : f[i] = h[i]}
    <2>1. \A i \in 0 .. n : f[i] = Leg(f, i)
      <3> HIDE DEF Leg
      <3> QED
        BY <1>12
    <2>2. 0 \in Same
      BY <1>1, <1>6, <2>1
    <2>3. ASSUME NEW i \in 0 .. n - 1, i \in Same PROVE i + 1 \in Same
      <3>1. i + 1 \in 0 .. n /\ i + 1 # 0 /\ (i + 1) - 1 = i
        BY <1>1
      <3>2. f[i + 1] = Swapped(i + 1, f[i]) /\ h[i + 1] = Swapped(i + 1, h[i])
        BY <1>8, <2>1, <3>1
      <3> QED
        BY <2>3, <3>1, <3>2
    <2> HIDE DEF Same
    <2>4. \A i \in 0 .. n : i \in Same
      BY <1>1, <2>2, <2>3, Induction
    <2> HIDE DEF Leg
    <2> QED
      BY <1>6, <1>12, <2>4 DEF Same
  <1> DEFINE Good == {i \in 0 .. n :
                        \/ h[i].error = "none" /\ Traded(l, c, amounts, h[i], i)
                        \/ h[i].error = "pair" /\ \E j \in 1 .. n : ~ Allowed(l, c, amounts, j)}
  <1>15. 0 \in Good
    BY <1>1, <1>3, <1>6
  <1>16. ASSUME NEW i \in 0 .. n - 1, i \in Good PROVE i + 1 \in Good
    <2>1. i + 1 \in 0 .. n /\ i + 1 \in 1 .. n /\ (i + 1) - 1 = i
      BY <1>1
    <2>2. h[i + 1] = PairSwap(h[i], Routes(s)[i + 1], amounts[(i + 1) + 1], To(c, i + 1)) /\ h[i + 1] \in Middles
      BY <1>6, <1>7, <2>1 DEF Swapped
    <2>3. CASE h[i].error = "none" /\ Traded(l, c, amounts, h[i], i)
      <3> DEFINE k == i + 1
      <3>1. k \in 1 .. Len(c.path) /\ Traded(l, c, amounts, h[i], k - 1)
        BY <2>1, <2>3 DEF n
      <3>2. h[k] = PairSwap(h[i], Routes(s)[k], amounts[k + 1], To(c, k))
        BY <2>2
      <3> HIDE DEF k
      <3>3. /\ Allowed(l, c, amounts, k) => Traded(l, c, amounts, h[k], k)
            /\ ~ Allowed(l, c, amounts, k) => h[k].error = "pair"
        BY <3>1, <3>2, LegIs
      <3>4. Traded(l, c, amounts, h[k], k) => h[k].error = "none"
        BY DEF Traded
      <3>5. k \in Good
        BY <2>1, <3>1, <3>3, <3>4 DEF k, n
      <3> QED
        BY <3>5 DEF k
    <2>4. CASE h[i].error = "pair" /\ \E j \in 1 .. n : ~ Allowed(l, c, amounts, j)
      <3>1. h[i + 1] = h[i]
        BY <2>2, <2>4 DEF PairSwap
      <3> QED
        BY <2>1, <2>4, <3>1
    <2> QED
      BY <1>16, <2>3, <2>4
  <1>17. n \in Good
    <2> HIDE DEF Good
    <2>1. \A i \in 0 .. n : i \in Good
      BY <1>1, <1>15, <1>16, Induction
    <2> QED
      BY <1>1, <2>1
  <1>18. h[n] \in Middles
    BY <1>1, <1>6
  <1> QED
    BY <1>13, <1>14, <1>17, <1>18 DEF n

(* What a trade that goes through leaves.                                  *)
Result(l, c, amounts, bal) ==
  /\ bal \in Books
  /\ \A j \in 1 .. Len(c.path) : Allowed(l, c, amounts, j) /\ bal[c.path[j]] = After(l, c, amounts, j)
  /\ \A p \in Pool : (\A j \in 1 .. Len(c.path) : p # c.path[j]) => bal[p] = l[p]
  /\ bal[Account] = [l[Account] EXCEPT ![WETH] = l[Account][WETH] - amounts[1] + amounts[Len(c.path) + 1]]
  /\ amounts[1] <= l[Account][WETH] /\ amounts[1] < amounts[Len(c.path) + 1]

LEMMA ExecuteIs ==
  ASSUME NEW l \in Ledgers, NEW c, IsTrade(c), NEW s, NEW v \in Nat, Reads(s, v, c)
  PROVE  \E a \in 0 .. v : \E amounts :
           /\ Quotes(l, c, a, amounts)
           /\ Execute(l, s).error = "none" => Result(l, c, amounts, Execute(l, s).bal)
           /\ amounts[Len(c.path) + 1] <= a => Execute(l, s).error = "quote"
           /\ /\ amounts[Len(c.path) + 1] > a
              /\ \A i \in 1 .. Len(c.path) : Allowed(l, c, amounts, i)
              => Execute(l, s).error = "none"
  <1> DEFINE n == Len(c.path)
             r == Routes(s)
             balance == l[Account][WETH]
             a == Capped(v, balance)
             amounts == GetAmountsOut(l, a, r)
             last == Legs(Paid(l, a, r), r, amounts)
             e == Swap(l, v, r)
             error == IF Last(amounts) <= a THEN "quote"
                      ELSE IF last.error = "none" /\ last.bal[Account][WETH] <= balance THEN "balance"
                      ELSE last.error
  <1>1. n \in Nat \ {0} /\ balance \in Nat /\ WETH \in Token /\ l[Account] \in [Token -> Nat]
    BY TokIs, PoolAssumption DEF Ledgers, Holders
  <1>2. a \in 0 .. v /\ a \in 0 .. balance /\ a \in Nat
    BY <1>1 DEF Capped
  <1>3. Execute(l, s) = e
    <2>1. Len(s) >= AmountBytes + LegBytes /\ LegCount(s) = n /\ AmountIn(s) = v
      BY DEF Reads
    <2>2. \A i \in 1 .. LegCount(s) : \E p \in Pool : Address[p] = Routes(s)[i].pair
      <3>1. ASSUME NEW i \in 1 .. n PROVE \E p \in Pool : Address[p] = r[i].pair
        <4>1. c.path[i] \in Pool
          BY TokIs
        <4>2. r[i].pair = Address[c.path[i]]
          BY DEF Reads
        <4> QED
          BY <4>1, <4>2
      <3> QED
        BY <2>1, <3>1
    <2> QED
      BY <2>1, <2>2 DEF Execute
  <1> HIDE DEF a
  <1>4. Quotes(l, c, a, amounts)
    BY <1>2, QuotesAre
  <1>5. e = [last EXCEPT !.error = error]
    BY DEF Swap, a
  <1>6. Traded(l, c, amounts, Paid(l, a, r), 0)
    <2> HIDE DEF amounts
    <2> QED
      BY <1>2, <1>4, PaidIs
  <1>7. /\ last \in Middles
        /\ last.error = "none" => Traded(l, c, amounts, last, n)
        /\ (\A i \in 1 .. n : Allowed(l, c, amounts, i)) => last.error = "none"
    <2> DEFINE m == Paid(l, a, r)
    <2>1. Traded(l, c, amounts, m, 0)
      BY <1>6
    <2> HIDE DEF amounts, m
    <2>2. /\ Legs(m, Routes(s), amounts) \in Middles
          /\ Legs(m, Routes(s), amounts).error = "none" => Traded(l, c, amounts, Legs(m, Routes(s), amounts), Len(c.path))
          /\ (\A i \in 1 .. Len(c.path) : Allowed(l, c, amounts, i)) => Legs(m, Routes(s), amounts).error = "none"
      BY <1>2, <1>4, <2>1, LegsAre
    <2> QED
      BY <2>2 DEF m
  <1>8. Last(amounts) = amounts[n + 1] /\ amounts[1] = a /\ amounts[n + 1] \in Nat
    <2>1. n + 1 \in 1 .. n + 1
      BY <1>1
    <2> QED
      BY <1>4, <2>1 DEF Quotes
  <1> HIDE DEF amounts, last, e
  <1>9. last.error = "none" =>
          /\ last.bal[Account] = [l[Account] EXCEPT ![WETH] = balance - a + amounts[n + 1]]
          /\ last.bal[Account][WETH] = balance - a + amounts[n + 1]
    BY <1>1, <1>7, <1>8 DEF Traded, AccountAfter
  <1>10. e.error = error /\ e.bal = last.bal
    BY <1>5, <1>7 DEF Middles
  <1>11. ASSUME e.error = "none" PROVE Result(l, c, amounts, e.bal)
    <2>1. last.error = "none" /\ ~(amounts[n + 1] <= a)
      BY <1>7, <1>8, <1>10, <1>11 DEF Middles
    <2>2. Traded(l, c, amounts, last, n)
      BY <1>7, <2>1
    <2>3. amounts[1] <= balance /\ amounts[1] < amounts[n + 1]
      BY <1>1, <1>2, <1>8, <2>1
    <2> QED
      BY <1>7, <1>8, <1>9, <1>10, <2>1, <2>2, <2>3 DEF Traded, Result, Middles
  <1>12. amounts[n + 1] <= a => e.error = "quote"
    BY <1>8, <1>10
  <1>13. ASSUME amounts[n + 1] > a, \A i \in 1 .. n : Allowed(l, c, amounts, i) PROVE e.error = "none"
    <2>1. last.error = "none" /\ last.bal[Account][WETH] = balance - a + amounts[n + 1]
      BY <1>7, <1>9, <1>13
    <2>2. ~(last.bal[Account][WETH] <= balance) /\ ~(Last(amounts) <= a)
      BY <1>1, <1>2, <1>8, <1>13, <2>1
    <2> QED
      BY <1>10, <2>1, <2>2
  <1> QED
    BY <1>2, <1>3, <1>4, <1>11, <1>12, <1>13

(* A pool that has been paid a and has given b, and stays within its check.*)
Moved(l, next, p) ==
  \E x \in {Token0(p), Token1(p)}, a \in Nat \ {0}, b \in Nat \ {0} :
    /\ l[p][x] # 0 /\ b < l[p][Opposite(p, x)]
    /\ next[p] = [l[p] EXCEPT ![x] = l[p][x] + a, ![Opposite(p, x)] = l[p][Opposite(p, x)] - b]
    /\ Passes(l[p][x], l[p][Opposite(p, x)], a, b, TrueFee[p])

StockedIn(l) == \A p \in Pool : l[p][Token0(p)] = 0 <=> l[p][Token1(p)] = 0

LEMMA Stock ==
  ASSUME NEW l, StockedIn(l), NEW p \in Pool, NEW x \in {Token0(p), Token1(p)}
  PROVE  l[p][x] = 0 <=> l[p][Opposite(p, x)] = 0
  BY Sides DEF StockedIn, Opposite

LEMMA MovedKeeps ==
  ASSUME NEW l \in Ledgers, NEW next, NEW p \in Pool, Moved(l, next, p)
  PROVE  /\ next[p] \in [Token -> Nat]
         /\ next[p][Token0(p)] # 0 /\ next[p][Token1(p)] # 0
  <1>1. PICK x \in {Token0(p), Token1(p)}, a \in Nat \ {0}, b \in Nat \ {0} :
          /\ l[p][x] # 0 /\ b < l[p][Opposite(p, x)]
          /\ next[p] = [l[p] EXCEPT ![x] = l[p][x] + a, ![Opposite(p, x)] = l[p][Opposite(p, x)] - b]
    BY DEF Moved
  <1> DEFINE y == Opposite(p, x)
             in == l[p][x]
             out == l[p][y]
  <1>2. /\ x \in Token /\ y \in Token /\ x # y /\ {Token0(p), Token1(p)} = {x, y}
        /\ l[p] \in [Token -> Nat]
    BY Sides DEF Ledgers, Holders
  <1> HIDE DEF y
  <1>3. in \in Nat /\ out \in Nat
    BY <1>2
  <1>4. in + a \in Nat \ {0} /\ out - b \in Nat \ {0} /\ next[p] = [l[p] EXCEPT ![x] = in + a, ![y] = out - b]
    BY <1>1, <1>3 DEF y
  <1> HIDE DEF in, out
  <1>5. next[p] \in [Token -> Nat] /\ next[p][x] = in + a /\ next[p][y] = out - b
    BY <1>2, <1>4
  <1> QED
    BY <1>2, <1>4, <1>5

LEMMA ResultMoved ==
  ASSUME NEW l \in Ledgers, StockedIn(l), NEW c, IsTrade(c), NEW a \in Nat, NEW amounts, Quotes(l, c, a, amounts),
         NEW next, Result(l, c, amounts, next)
  PROVE  /\ \A i \in 1 .. Len(c.path) : Moved(l, next, c.path[i])
         /\ next \in Ledgers /\ StockedIn(next)
         /\ \A p \in Pool : next[p] # l[p] => Moved(l, next, p)
  <1>1. ASSUME NEW i \in 1 .. Len(c.path) PROVE Moved(l, next, c.path[i])
    <2> DEFINE p == c.path[i]
               x == Tok(c, i)
               y == Tok(c, i + 1)
               u == amounts[i]
               b == amounts[i + 1]
    <2>1. Allowed(l, c, amounts, i) /\ next[p] = After(l, c, amounts, i)
      BY DEF Result
    <2>2. p \in Pool /\ p \in Holders /\ x \in {Token0(p), Token1(p)} /\ y = Opposite(p, x) /\ x \in Token /\ y \in Token
      BY TokIs
    <2>3. u \in Nat /\ b \in Nat
      <3>1. i \in 1 .. Len(c.path) + 1 /\ i + 1 \in 1 .. Len(c.path) + 1
        BY TokIs
      <3> QED
        BY <3>1 DEF Quotes
    <2>4. next[p] = [l[p] EXCEPT ![x] = l[p][x] + u, ![y] = l[p][y] - b]
      BY <2>1 DEF After
    <2>5. u > 0 /\ b > 0 /\ b < l[p][y] /\ Passes(l[p][x], l[p][y], u, b, TrueFee[p])
      BY <2>1 DEF Allowed
    <2> HIDE DEF p, x, y, u, b
    <2>6. l[p][x] \in Nat /\ l[p][y] \in Nat
      BY <2>2 DEF Ledgers
    <2>7. l[p][x] # 0
      BY <2>2, <2>3, <2>5, <2>6, Stock
    <2>8. u \in Nat \ {0} /\ b \in Nat \ {0}
      BY <2>3, <2>5
    <2>9. Moved(l, next, p)
      BY <2>2, <2>4, <2>5, <2>7, <2>8 DEF Moved
    <2> QED
      BY <2>9 DEF p
  <1>2. ASSUME NEW p \in Pool
        PROVE  /\ next[p] # l[p] => Moved(l, next, p)
               /\ next[p] = l[p] \/ Moved(l, next, p)
    <2>1. CASE \E i \in 1 .. Len(c.path) : p = c.path[i]
      BY <1>1, <2>1
    <2>2. CASE \A i \in 1 .. Len(c.path) : p # c.path[i]
      BY <2>2 DEF Result
    <2> QED
      BY <2>1, <2>2
  <1>3. next[Account] \in [Token -> Nat]
    <2> DEFINE w == l[Account][WETH] - amounts[1] + amounts[Len(c.path) + 1]
    <2>1. l[Account] \in [Token -> Nat] /\ WETH \in Token
      BY PoolAssumption DEF Ledgers, Holders
    <2>2. l[Account][WETH] \in Nat
      BY <2>1
    <2>3. amounts[1] \in Nat /\ amounts[Len(c.path) + 1] \in Nat
      <3>1. 1 \in 1 .. Len(c.path) + 1 /\ Len(c.path) + 1 \in 1 .. Len(c.path) + 1
        BY TokIs
      <3> QED
        BY <3>1 DEF Quotes
    <2>4. w \in Nat
      BY <2>2, <2>3 DEF Result
    <2>5. next[Account] = [l[Account] EXCEPT ![WETH] = w]
      BY DEF Result
    <2> HIDE DEF w
    <2> QED
      BY <2>1, <2>4, <2>5
  <1>4. ASSUME NEW p \in Pool PROVE next[p] \in [Token -> Nat]
    <2>1. l[p] \in [Token -> Nat]
      BY DEF Ledgers, Holders
    <2> QED
      BY <1>2, <2>1, MovedKeeps
  <1>5. next \in Ledgers
    <2>1. next \in [Holders -> [Token -> Int]]
      BY DEF Result, Books
    <2>2. \A h \in Holders : next[h] \in [Token -> Nat]
      BY <1>3, <1>4 DEF Holders
    <2> QED
      BY <2>1, <2>2 DEF Ledgers
  <1>6. StockedIn(next)
    <2>1. ASSUME NEW p \in Pool PROVE next[p][Token0(p)] = 0 <=> next[p][Token1(p)] = 0
      <3>1. CASE next[p] = l[p]
        BY <3>1 DEF StockedIn
      <3>2. CASE Moved(l, next, p)
        BY <3>2, MovedKeeps
      <3> QED
        BY <1>2, <3>1, <3>2
    <2> QED
      BY <2>1 DEF StockedIn
  <1> QED
    BY <1>1, <1>2, <1>5, <1>6

(* Another's swap.                                                         *)
LEMMA SomeoneMoves ==
  ASSUME NEW p \in Pool, NEW x \in {Token0(p), Token1(p)}, NEW a \in Nat \ {0},
         ledger \in Ledgers, StockedIn(ledger), Someone(p, x, a)
  PROVE  /\ Moved(ledger, ledger', p) /\ ledger' \in Ledgers /\ StockedIn(ledger')
         /\ \A q \in Pool : q # p => ledger'[q] = ledger[q]
         /\ ledger'[Account] = ledger[Account]
  <1> DEFINE y == Opposite(p, x)
             in == ledger[p][x]
             out == ledger[p][y]
             b == GetAmountOut(a, in, out, TrueFee[p])
             paid == [ledger[p] EXCEPT ![x] = in + a, ![y] = out - b]
  <1>1. /\ x \in Token /\ y \in Token /\ x # y /\ p \in Holders
        /\ y = Opposite(p, x) /\ {Token0(p), Token1(p)} = {x, y}
    BY Sides DEF Holders
  <1>2. ledger[p] \in [Token -> Nat] /\ in \in Nat /\ out \in Nat
    <2> HIDE DEF y
    <2> QED
      BY <1>1 DEF Ledgers
  <1>3. b > 0 /\ b \in 0 .. out /\ (in # 0 /\ out # 0 => b < out) /\ Passes(in, out, a, b, TrueFee[p])
    <2> DEFINE fee == TrueFee[p]
    <2>1. b > 0
      BY DEF Someone
    <2>2. fee \in 0 .. Base - 1 /\ fee <= fee
      <3>1. fee \in 0 .. Base - 1
        BY PoolAssumption
      <3>2. \A z \in 0 .. Base - 1 : z <= z
        BY PoolAssumption
      <3> HIDE DEF fee
      <3> QED
        BY <3>1, <3>2
    <2> HIDE DEF in, out, fee
    <2>3. a \in Nat
      OBVIOUS
    <2>4. /\ GetAmountOut(a, in, out, fee) \in 0 .. out
          /\ in # 0 /\ out # 0 => GetAmountOut(a, in, out, fee) < out
      BY <1>2, <2>2, <2>3, QuoteBounds
    <2>5. Passes(in, out, a, GetAmountOut(a, in, out, fee), fee)
      BY <1>2, <2>2, <2>3, QuotePasses
    <2> QED
      BY <2>1, <2>4, <2>5 DEF fee
  <1>4. in # 0 /\ b < out /\ b \in Nat \ {0}
    <2>1. in = 0 <=> out = 0
      <3> QED
        BY Stock
    <2> HIDE DEF in, out, b
    <2> QED
      BY <1>2, <1>3, <2>1
  <1>5. ledger' = [ledger EXCEPT ![p] = paid]
    <2> HIDE DEF b
    <2>1. ledger' = [ledger EXCEPT ![p][x] = @ + a, ![p][y] = @ - b]
      BY DEF Someone, b
    <2> HIDE DEF y
    <2> QED
      BY <1>1, <1>2, <2>1 DEF Ledgers
  <1>6. ledger'[p] = paid /\ \A h \in Holders : h # p => ledger'[h] = ledger[h]
    <2> HIDE DEF paid
    <2> QED
      BY <1>1, <1>5 DEF Ledgers
  <1>7. Moved(ledger, ledger', p)
    <2> HIDE DEF b
    <2> QED
      BY <1>3, <1>4, <1>6 DEF Moved
  <1>8. ledger'[p] \in [Token -> Nat] /\ ledger'[p][Token0(p)] # 0 /\ ledger'[p][Token1(p)] # 0
    BY <1>7, MovedKeeps
  <1>9. \A q \in Pool : q # p => ledger'[q] = ledger[q]
    BY <1>6 DEF Holders
  <1>10. ledger' \in Ledgers
    <2> HIDE DEF paid
    <2>1. paid \in [Token -> Nat]
      BY <1>6, <1>8
    <2> QED
      BY <1>5, <2>1 DEF Ledgers
  <1>11. StockedIn(ledger')
    BY <1>8, <1>9 DEF StockedIn
  <1> QED
    BY <1>6, <1>7, <1>9, <1>10, <1>11, PoolAssumption DEF Holders

-----------------------------------------------------------------------------
(***************************************************************************)
(* The invariant.                                                          *)
(***************************************************************************)
Basis == TypeOK /\ Sealed /\ Stocked

LEMMA TradeOf ==
  ASSUME TypeOK, NEW t \in Trader, Under(t)
  PROVE  IsTrade(chosen[t]) /\ chosen[t] \in Trades
  <1> DEFINE c == chosen[t]
  <1>1. c \in Trades
    BY DEF TypeOK
  <1> HIDE DEF c
  <1>2. c.input \in Nat /\ c.path \in Path /\ c.fees \in Seq(0 .. Base - 1) /\ Len(c.fees) = Len(c.path)
    BY <1>1, WidthAssumption DEF Trades
  <1>3. c.fees \in [DOMAIN c.path -> 0 .. Base - 1]
    <2> DEFINE F == 0 .. Base - 1
    <2> HIDE DEF F
    <2>1. c.fees \in [1 .. Len(c.fees) -> F]
      BY <1>2, LenProperties DEF F
    <2>2. DOMAIN c.path = 1 .. Len(c.path)
      BY <1>2, PathType
    <2> QED
      BY <1>2, <2>1, <2>2 DEF F
  <1> QED
    BY <1>1, <1>2, <1>3 DEF IsTrade, c

LEMMA RouteFollows == TypeOK /\ Sealed => RouteKept
  <1> SUFFICES ASSUME TypeOK, Sealed, NEW t \in Trader, Under(t), Fits(t)
               PROVE  LET r == Routes(param[t])
                          n == Len(chosen[t].path)
                      IN /\ AmountIn(param[t]) = chosen[t].input
                         /\ Len(r) = n
                         /\ \A i \in 1 .. n : r[i].pair = Address[chosen[t].path[i]] /\ r[i].fee = chosen[t].fees[i]
                         /\ In(r[1]) = WETH /\ Out(r[n]) = WETH
                         /\ \A i \in 2 .. n : In(r[i]) = Out(r[i - 1])
    BY DEF RouteKept
  <1> DEFINE c == chosen[t]
             s == param[t]
             n == Len(c.path)
  <1>1. IsTrade(c)
    BY TradeOf
  <1>2. s \in Params(c) /\ c.input <= MaxInt
    BY DEF Sealed, Fits
  <1> HIDE DEF c, s
  <1>3. Reads(s, c.input, c)
    BY <1>1, <1>2, Decoded
  <1>4. n \in Nat \ {0} /\ Tok(c, 1) = WETH /\ Tok(c, n + 1) = WETH
    BY <1>1, TokIs
  <1>5. \A i \in 1 .. n : In(Routes(s)[i]) = Tok(c, i) /\ Out(Routes(s)[i]) = Tok(c, i + 1)
    BY <1>3 DEF Reads, Tok
  <1>6. In(Routes(s)[1]) = WETH /\ Out(Routes(s)[n]) = WETH
    <2>1. 1 \in 1 .. n /\ n \in 1 .. n
      BY <1>4
    <2> HIDE DEF n
    <2> QED
      BY <1>4, <1>5, <2>1
  <1>7. ASSUME NEW i \in 2 .. n PROVE In(Routes(s)[i]) = Out(Routes(s)[i - 1])
    <2>1. i \in 1 .. n /\ i - 1 \in 1 .. n /\ (i - 1) + 1 = i
      BY <1>4
    <2>2. Out(Routes(s)[i - 1]) = Tok(c, (i - 1) + 1)
      BY <1>5, <2>1
    <2> QED
      BY <1>5, <2>1, <2>2
  <1> QED
    BY <1>3, <1>6, <1>7 DEF Reads, c, s

(* A trade that is mined.                                                  *)
LEMMA MineIs ==
  ASSUME Basis, NEW t \in Trader, Mine(t)
  PROVE  /\ IsTrade(chosen[t])
         /\ \/ ledger' = ledger
            \/ \E a \in 0 .. chosen[t].input : \E amounts :
                 /\ Quotes(ledger, chosen[t], a, amounts) /\ Result(ledger, chosen[t], amounts, ledger')
  <1> DEFINE c == chosen[t]
             s == param[t]
  <1>1. Under(t) /\ ledger \in Ledgers
    BY DEF Mine, Under, Basis, TypeOK, Ledgers, Holders
  <1>2. IsTrade(c) /\ s \in Params(c)
    BY <1>1, TradeOf DEF Basis, Sealed
  <1>3. ledger' = IF Execute(ledger, s).error # "none" THEN ledger ELSE Execute(ledger, s).bal
    BY DEF Mine, Reverts
  <1> HIDE DEF c, s
  <1>4. CASE s = <<>>
    <2>1. Len(s) = 0
      BY <1>4
    <2>2. ~(Len(s) >= AmountBytes + LegBytes)
      BY <2>1, Widths
    <2>3. Execute(ledger, s).error = "params"
      BY <2>2 DEF Execute
    <2> QED
      BY <1>2, <1>3, <2>3 DEF c
  <1>5. CASE \E v \in Nat : v <= c.input /\ Reads(s, v, c)
    <2>1. PICK v \in Nat : v <= c.input /\ Reads(s, v, c)
      BY <1>5
    <2>2. PICK a, amounts :
            /\ a \in 0 .. v
            /\ Quotes(ledger, c, a, amounts)
            /\ Execute(ledger, s).error = "none" => Result(ledger, c, amounts, Execute(ledger, s).bal)
      BY <1>1, <1>2, <2>1, ExecuteIs
    <2>3. a \in 0 .. c.input
      <3>1. c.input \in Nat
        BY <1>2 DEF IsTrade
      <3> QED
        BY <2>1, <2>2, <3>1
    <2>4. ledger' = ledger \/ Result(ledger, c, amounts, ledger')
      BY <1>3, <2>2
    <2> QED
      BY <1>2, <2>2, <2>3, <2>4 DEF c
  <1> QED
    BY <1>2, <1>4, <1>5, Decoded

LEMMA LedgerMoves ==
  ASSUME Basis, NEW t \in Trader, Mine(t)
  PROVE  /\ ledger' \in Ledgers /\ StockedIn(ledger')
         /\ \A p \in Pool : ledger'[p] # ledger[p] => Moved(ledger, ledger', p)
  <1>1. ledger \in Ledgers /\ StockedIn(ledger)
    BY DEF Basis, TypeOK, Ledgers, Holders, Stocked, StockedIn
  <1>2. CASE ledger' = ledger
    BY <1>1, <1>2
  <1>3. CASE ledger' # ledger
    <2>1. PICK a, amounts :
            /\ a \in 0 .. chosen[t].input
            /\ Quotes(ledger, chosen[t], a, amounts) /\ Result(ledger, chosen[t], amounts, ledger')
      BY <1>3, MineIs
    <2>2. IsTrade(chosen[t]) /\ a \in Nat
      <3>1. IsTrade(chosen[t])
        BY MineIs
      <3>2. chosen[t].input \in Nat
        BY <3>1 DEF IsTrade
      <3> QED
        BY <2>1, <3>1, <3>2
    <2> DEFINE c == chosen[t]
               next == ledger'
    <2>3. /\ next \in Ledgers /\ StockedIn(next)
          /\ \A p \in Pool : next[p] # ledger[p] => Moved(ledger, next, p)
      <3>1. IsTrade(c) /\ Quotes(ledger, c, a, amounts) /\ Result(ledger, c, amounts, next)
        BY <2>1, <2>2
      <3> HIDE DEF c, next
      <3> QED
        BY <1>1, <2>2, <3>1, ResultMoved
    <2> QED
      BY <2>3
  <1> QED
    BY <1>2, <1>3

LEMMA LearnType ==
  ASSUME learned \in [Pool -> 0 .. Base - 1], NEW l, Learn(l)
  PROVE  /\ learned' \in [Pool -> 0 .. Base - 1]
         /\ \A p \in Pool : learned'[p] # learned[p] =>
              l[p] # ledger[p] /\ learned'[p] \in CalculatePairFee(p, ledger[p], l[p])
  <1> DEFINE swapped == {p \in Pool : l[p] # ledger[p]}
             fees == [p \in swapped |-> {learned[p]} \cup CalculatePairFee(p, ledger[p], l[p])]
  <1>1. PICK now :
          /\ \A p \in swapped : now[p] \in fees[p]
          /\ learned' = [p \in Pool |-> IF p \in swapped THEN now[p] ELSE learned[p]]
    BY DEF Learn
  <1>2. \A p \in swapped : now[p] \in {learned[p]} \cup CalculatePairFee(p, ledger[p], l[p])
    BY <1>1
  <1>3. \A p \in Pool : CalculatePairFee(p, ledger[p], l[p]) \subseteq 0 .. Base - 1
    BY FeeType
  <1> QED
    BY <1>1, <1>2, <1>3

LEMMA InitBasis == Init => Basis
  <1> SUFFICES ASSUME Init PROVE Basis
    OBVIOUS
  <1>1. ledger = Start /\ moves = 0 /\ \A t \in Trader : ~ Under(t)
    BY DEF Init, Under
  <1>2. learned \in [Pool -> 0 .. Base - 1]
    <2>1. learned \in [Pool -> UNION {Fee[p] : p \in Pool}] /\ \A p \in Pool : learned[p] \in Fee[p]
      BY DEF Init
    <2>2. \A p \in Pool : Fee[p] \subseteq 0 .. Base - 1
      BY PoolAssumption
    <2> QED
      BY <2>1, <2>2
  <1>3. <<>> \in Seq(0 .. Byte - 1)
    OBVIOUS
  <1>4. TypeOK
    <2>1. ledger \in [Pool \cup {Account} -> [Token -> Nat]]
      BY <1>1, PoolAssumption
    <2>2. moves \in 0 .. MaxMoves
      BY <1>1, PoolAssumption
    <2>3. /\ pc \in [Trader -> {"idle", "packed", "sent"}]
          /\ chosen \in [Trader -> {<<>>} \cup Trades] /\ param \in [Trader -> Seq(0 .. Byte - 1)]
      BY <1>3 DEF Init
    <2> QED
      BY <1>1, <1>2, <2>1, <2>2, <2>3 DEF TypeOK
  <1>5. Sealed
    BY <1>1 DEF Sealed
  <1>6. Stocked
    BY <1>1, PoolAssumption DEF Stocked, Token0, Token1
  <1> QED
    BY <1>4, <1>5, <1>6 DEF Basis

LEMMA PackKeeps ==
  ASSUME Basis, NEW t \in Trader, NEW v \in Input, NEW path \in Path, Pack(t, v, path)
  PROVE  Basis'
  <1> DEFINE c == [input |-> v, path |-> path, fees |-> [i \in DOMAIN path |-> learned[path[i]]]]
  <1>1. PICK s \in Params(c) : param' = [param EXCEPT ![t] = s]
    BY DEF Pack
  <1>2. c \in Trades /\ IsTrade(c)
    <2> DEFINE f == [i \in DOMAIN path |-> learned[path[i]]]
               F == 0 .. Base - 1
    <2>1. Len(path) \in Nat /\ DOMAIN path = 1 .. Len(path) /\ \A i \in 1 .. Len(path) : path[i] \in Pool
      BY PathType
    <2>2. learned \in [Pool -> F]
      BY DEF Basis, TypeOK
    <2> HIDE DEF F
    <2>3. f \in [1 .. Len(path) -> F]
      BY <2>1, <2>2
    <2> HIDE DEF f
    <2>4. f \in Seq(F) /\ Len(f) = Len(path)
      BY <2>1, <2>3
    <2>5. c = [input |-> v, path |-> path, fees |-> f]
      BY DEF f
    <2> HIDE DEF c
    <2>6. c.input = v /\ c.path = path /\ c.fees = f /\ v \in Nat
      BY <2>5, WidthAssumption
    <2>7. c \in Trades
      BY <2>4, <2>5 DEF Trades, F
    <2>8. IsTrade(c)
      BY <2>1, <2>3, <2>6 DEF IsTrade, F
    <2> QED
      BY <2>7, <2>8
  <1> HIDE DEF c
  <1>3. s \in Seq(0 .. Byte - 1)
    BY <1>1, <1>2, Decoded DEF Chars
  <1>4. /\ pc' = [pc EXCEPT ![t] = "packed"] /\ chosen' = [chosen EXCEPT ![t] = c]
        /\ UNCHANGED <<ledger, learned, moves>>
    BY DEF Pack, c
  <1>5. TypeOK'
    BY <1>1, <1>2, <1>3, <1>4 DEF Basis, TypeOK, Under
  <1>6. Sealed'
    BY <1>1, <1>4 DEF Basis, TypeOK, Sealed, Under
  <1>7. Stocked'
    BY <1>4 DEF Basis, Stocked
  <1> QED
    BY <1>5, <1>6, <1>7 DEF Basis

LEMMA ReturnKeeps ==
  ASSUME Basis, NEW t \in Trader, Return(t), moves' = moves,
         ledger' \in Ledgers, StockedIn(ledger)', learned' \in [Pool -> 0 .. Base - 1]
  PROVE  Basis'
  <1>1. /\ pc' = [pc EXCEPT ![t] = "idle"] /\ chosen' = [chosen EXCEPT ![t] = <<>>]
        /\ param' = [param EXCEPT ![t] = <<>>]
    BY DEF Return
  <1>2. <<>> \in Seq(0 .. Byte - 1)
    OBVIOUS
  <1>3. TypeOK'
    <2>1. ledger' \in [Pool \cup {Account} -> [Token -> Nat]]
      BY DEF Ledgers, Holders
    <2>2. /\ pc' \in [Trader -> {"idle", "packed", "sent"}]
          /\ chosen' \in [Trader -> {<<>>} \cup Trades] /\ param' \in [Trader -> Seq(0 .. Byte - 1)]
      BY <1>1, <1>2 DEF Basis, TypeOK
    <2>3. \A u \in Trader : Under(u)' => chosen'[u] \in Trades
      BY <1>1 DEF Basis, TypeOK, Under
    <2>4. moves' \in 0 .. MaxMoves
      BY DEF Basis, TypeOK
    <2> QED
      BY <2>1, <2>2, <2>3, <2>4 DEF TypeOK
  <1>4. Sealed'
    BY <1>1 DEF Basis, TypeOK, Sealed, Under
  <1>5. Stocked'
    BY DEF StockedIn, Stocked
  <1> QED
    BY <1>3, <1>4, <1>5 DEF Basis

LEMMA NextBasis == Basis /\ [Next]_vars => Basis'
  <1> SUFFICES ASSUME Basis, [Next]_vars PROVE Basis'
    OBVIOUS
  <1>1. ledger \in Ledgers /\ StockedIn(ledger) /\ learned \in [Pool -> 0 .. Base - 1]
    BY DEF Basis, TypeOK, Ledgers, Holders, Stocked, StockedIn
  <1>2. ASSUME NEW t \in Trader, NEW v \in Input, NEW path \in Path, Pack(t, v, path) PROVE Basis'
    BY <1>2, PackKeeps
  <1>3. ASSUME NEW t \in Trader, Estimate(t) PROVE Basis'
    BY <1>3 DEF Estimate, Basis, TypeOK, Sealed, Stocked, Under
  <1>4. ASSUME NEW t \in Trader, Dropped(t) PROVE Basis'
    <2>1. Return(t) /\ UNCHANGED <<ledger, learned, moves>>
      BY <1>4 DEF Dropped
    <2>2. StockedIn(ledger)'
      BY <1>1, <2>1 DEF StockedIn
    <2> QED
      BY <1>1, <2>1, <2>2, ReturnKeeps
  <1>5. ASSUME NEW t \in Trader, Mine(t) PROVE Basis'
    <2>1. Return(t) /\ moves' = moves /\ Learn(ledger')
      BY <1>5 DEF Mine
    <2>2. ledger' \in Ledgers /\ StockedIn(ledger')
      BY <1>5, LedgerMoves
    <2>3. learned' \in [Pool -> 0 .. Base - 1]
      BY <1>1, <2>1, LearnType
    <2>4. StockedIn(ledger)'
      BY <2>2 DEF StockedIn
    <2> QED
      BY <2>1, <2>2, <2>3, <2>4, ReturnKeeps
  <1>6. ASSUME NEW a \in Other[Account], TopUp(a) PROVE Basis'
    <2>1. /\ ledger' = [ledger EXCEPT ![Account][WETH] = @ + a] /\ moves < MaxMoves /\ moves' = moves + 1
          /\ UNCHANGED <<learned, pc, chosen, param>>
      BY <1>6 DEF TopUp
    <2>2. a \in Nat /\ WETH \in Token /\ Account \in Holders /\ Account \notin Pool
      BY PoolAssumption DEF Holders
    <2> DEFINE more == [ledger[Account] EXCEPT ![WETH] = ledger[Account][WETH] + a]
    <2>3. ledger' = [ledger EXCEPT ![Account] = more] /\ more \in [Token -> Nat]
      BY <1>1, <2>1, <2>2 DEF Ledgers
    <2> HIDE DEF more
    <2>4. ledger' \in Ledgers /\ \A p \in Pool : ledger'[p] = ledger[p]
      BY <1>1, <2>2, <2>3 DEF Ledgers, Holders
    <2>5. moves' \in 0 .. MaxMoves
      BY <2>1, PoolAssumption DEF Basis, TypeOK
    <2>6. TypeOK'
      BY <2>1, <2>4, <2>5 DEF Basis, TypeOK, Under, Ledgers, Holders
    <2>7. Sealed'
      BY <2>1 DEF Basis, Sealed, Under
    <2>8. Stocked'
      BY <2>4 DEF Basis, Stocked
    <2> QED
      BY <2>6, <2>7, <2>8 DEF Basis
  <1>7. ASSUME NEW p \in Pool, NEW a \in Other[p], NEW x \in {Token0(p), Token1(p)}, Someone(p, x, a) PROVE Basis'
    <2>1. moves < MaxMoves /\ moves' = moves + 1 /\ Learn(ledger') /\ UNCHANGED <<pc, chosen, param>>
      BY <1>7 DEF Someone
    <2>2. a \in Nat \ {0}
      BY PoolAssumption
    <2>3. ledger' \in Ledgers /\ StockedIn(ledger')
      BY <1>1, <1>7, <2>2, SomeoneMoves
    <2>4. learned' \in [Pool -> 0 .. Base - 1]
      BY <1>1, <2>1, LearnType
    <2>5. moves' \in 0 .. MaxMoves
      BY <2>1, PoolAssumption DEF Basis, TypeOK
    <2>6. TypeOK'
      BY <2>1, <2>3, <2>4, <2>5 DEF Basis, TypeOK, Under, Ledgers, Holders
    <2>7. Sealed'
      BY <2>1 DEF Basis, Sealed, Under
    <2>8. Stocked'
      BY <2>3 DEF StockedIn, Stocked
    <2> QED
      BY <2>6, <2>7, <2>8 DEF Basis
  <1>8. ASSUME UNCHANGED vars PROVE Basis'
    BY <1>8 DEF vars, Basis, TypeOK, Sealed, Stocked, Under
  <1> QED
    BY <1>2, <1>3, <1>4, <1>5, <1>6, <1>7, <1>8 DEF Next

(* The types of the variables.                                             *)
THEOREM TypeCorrect == Spec => []TypeOK
  <1>1. Basis => TypeOK
    BY DEF Basis
  <1> QED
    BY <1>1, InitBasis, NextBasis, PTL DEF Spec

(* Swaper.sol reads back the amount, the pools in their order, their fees  *)
(* and the directions that SwapV2 (trader.go) has packed, for amounts,     *)
(* addresses and fees of any width: with the state well typed, parameters  *)
(* left as they were packed, and no pool out of one token only.            *)
THEOREM Invariant == Spec => []IInv
  <1>1. Basis => IInv
    BY RouteFollows DEF Basis, IInv
  <1> QED
    BY <1>1, InitBasis, NextBasis, PTL DEF Spec

-----------------------------------------------------------------------------
(***************************************************************************)
(* What trades come to.                                                    *)
(***************************************************************************)
LEMMA AllAllowed ==
  ASSUME NEW l \in Ledgers, StockedIn(l), NEW c, IsTrade(c), NEW a \in Nat, NEW amounts,
         Quotes(l, c, a, amounts), amounts[Len(c.path) + 1] > a,
         \A i \in 1 .. Len(c.path) : TrueFee[c.path[i]] <= c.fees[i]
  PROVE  \A i \in 1 .. Len(c.path) : Allowed(l, c, amounts, i)
  <1> DEFINE n == Len(c.path)
             in(i) == l[c.path[i]][Tok(c, i)]
             out(i) == l[c.path[i]][Tok(c, i + 1)]
             Full == {i \in 0 .. n : amounts[(n + 1) - i] > 0}
  <1>1. n \in Nat \ {0} /\ \A i \in 1 .. n + 1 : amounts[i] \in Nat
    BY TokIs DEF Quotes
  <1>2. ASSUME NEW i \in 1 .. n
        PROVE  /\ c.path[i] \in Pool /\ in(i) \in Nat /\ out(i) \in Nat /\ c.fees[i] \in 0 .. Base - 1
               /\ TrueFee[c.path[i]] \in 0 .. Base - 1
               /\ amounts[i + 1] = GetAmountOut(amounts[i], in(i), out(i), c.fees[i])
               /\ in(i) = 0 <=> out(i) = 0
    <2> DEFINE p == c.path[i]
    <2>1. /\ p \in Pool /\ p \in Holders /\ Tok(c, i) \in Token /\ Tok(c, i + 1) \in Token
          /\ Tok(c, i) \in {Token0(p), Token1(p)} /\ Tok(c, i + 1) = Opposite(p, Tok(c, i))
          /\ c.fees[i] \in 0 .. Base - 1 /\ TrueFee[p] \in 0 .. Base - 1
      BY TokIs
    <2>2. amounts[i + 1] = GetAmountOut(amounts[i], in(i), out(i), c.fees[i])
      BY DEF Quotes
    <2> HIDE DEF p
    <2>3. l[p][Tok(c, i)] \in Nat /\ l[p][Tok(c, i + 1)] \in Nat
      BY <2>1 DEF Ledgers
    <2>4. l[p][Tok(c, i)] = 0 <=> l[p][Tok(c, i + 1)] = 0
      BY <2>1, Stock
    <2> QED
      BY <2>1, <2>2, <2>3, <2>4 DEF p
  <1>3. \A i \in 1 .. n : TrueFee[c.path[i]] <= c.fees[i]
    OBVIOUS
  <1>4. amounts[n + 1] > a
    OBVIOUS
  <1> HIDE DEF n, in, out
  <1>5. 0 \in Full
    BY <1>1, <1>4
  <1>6. ASSUME NEW i \in 0 .. n - 1, i \in Full PROVE i + 1 \in Full
    <2> DEFINE k == n - i
    <2>1. k \in 1 .. n /\ (n + 1) - i = k + 1 /\ (n + 1) - (i + 1) = k /\ i + 1 \in 0 .. n /\ k \in 1 .. n + 1
      BY <1>1
    <2>2. amounts[k + 1] > 0
      BY <1>6, <2>1
    <2> HIDE DEF k
    <2> DEFINE u == amounts[k]
               x == in(k)
               y == out(k)
               fee == c.fees[k]
    <2>3. u \in Nat /\ x \in Nat /\ y \in Nat /\ fee \in 0 .. Base - 1 /\ amounts[k + 1] = GetAmountOut(u, x, y, fee)
      BY <1>1, <1>2, <2>1
    <2> HIDE DEF u, x, y, fee
    <2>4. u = 0 => GetAmountOut(u, x, y, fee) = 0
      BY <2>3, QuoteBounds
    <2>5. u > 0
      BY <2>2, <2>3, <2>4
    <2> QED
      BY <2>1, <2>5 DEF u
  <1>7. \A i \in 0 .. n : i \in Full
    <2> HIDE DEF Full
    <2> QED
      BY <1>1, <1>5, <1>6, Induction
  <1>8. ASSUME NEW i \in 1 .. n + 1 PROVE amounts[i] > 0
    <2>1. (n + 1) - i \in 0 .. n /\ (n + 1) - ((n + 1) - i) = i
      BY <1>1
    <2> DEFINE k == (n + 1) - i
    <2>2. k \in Full /\ (n + 1) - k = i
      BY <1>7, <2>1
    <2> HIDE DEF k
    <2> QED
      BY <2>2
  <1>9. ASSUME NEW i \in 1 .. n PROVE Allowed(l, c, amounts, i)
    <2> DEFINE u == amounts[i]
               b == amounts[i + 1]
               x == in(i)
               y == out(i)
               fee == c.fees[i]
               own == TrueFee[c.path[i]]
    <2>1. i \in 1 .. n + 1 /\ i + 1 \in 1 .. n + 1
      BY <1>1
    <2>2. u \in Nat /\ u > 0 /\ b > 0
      BY <1>1, <1>8, <2>1
    <2>3. /\ x \in Nat /\ y \in Nat /\ fee \in 0 .. Base - 1 /\ own \in 0 .. Base - 1 /\ own <= fee
          /\ b = GetAmountOut(u, x, y, fee) /\ (x = 0 <=> y = 0)
      BY <1>2, <1>3
    <2> HIDE DEF u, b, x, y, fee, own
    <2>4. b \in 0 .. y /\ (x # 0 /\ y # 0 => b < y)
      BY <2>2, <2>3, QuoteBounds
    <2>5. Passes(x, y, u, b, own)
      BY <2>2, <2>3, QuotePasses
    <2>6. b < y
      BY <2>2, <2>3, <2>4
    <2> QED
      BY <2>2, <2>5, <2>6 DEF Allowed, u, b, x, y, own, in, out
  <1> QED
    BY <1>9 DEF n

(* A trade whose learned fees are not below the true ones is turned down   *)
(* by _swap (Swaper.sol) for its price only, whatever has happened to the  *)
(* pools since it was packed: no pool of its path can refuse it.           *)
THEOREM PriceOnly == Spec => []FailsOnlyOnPrice
  <1>1. ASSUME Basis, NEW t \in Trader, Under(t), Fits(t), FeesCovered(t)
        PROVE  Execute(ledger, param[t]).error \in {"none", "quote"}
    <2> DEFINE c == chosen[t]
               s == param[t]
    <2>1. IsTrade(c) /\ s \in Params(c) /\ c.input <= MaxInt
      BY <1>1, TradeOf DEF Basis, Sealed, Fits
    <2>2. \A i \in DOMAIN c.path : c.fees[i] >= TrueFee[c.path[i]]
      BY <1>1 DEF FeesCovered
    <2> HIDE DEF c, s
    <2>3. Reads(s, c.input, c) /\ c.input \in Nat
      BY <2>1, Decoded DEF IsTrade
    <2>4. ledger \in Ledgers /\ StockedIn(ledger)
      BY <1>1 DEF Basis, TypeOK, Ledgers, Holders, Stocked, StockedIn
    <2>5. PICK a, amounts :
            /\ a \in 0 .. c.input
            /\ Quotes(ledger, c, a, amounts)
            /\ amounts[Len(c.path) + 1] <= a => Execute(ledger, s).error = "quote"
            /\ /\ amounts[Len(c.path) + 1] > a
               /\ \A i \in 1 .. Len(c.path) : Allowed(ledger, c, amounts, i)
               => Execute(ledger, s).error = "none"
      BY <2>1, <2>3, <2>4, ExecuteIs
    <2>6. a \in Nat /\ amounts[Len(c.path) + 1] \in Nat
      <3>1. Len(c.path) + 1 \in 1 .. Len(c.path) + 1
        BY <2>1, TokIs
      <3> QED
        BY <2>3, <2>5, <3>1 DEF Quotes
    <2>7. \A i \in 1 .. Len(c.path) : TrueFee[c.path[i]] <= c.fees[i]
      <3>1. ASSUME NEW i \in 1 .. Len(c.path) PROVE TrueFee[c.path[i]] <= c.fees[i]
        <4>1. c.fees[i] >= TrueFee[c.path[i]]
          BY <2>1, <2>2, TokIs
        <4>2. c.fees[i] \in 0 .. Base - 1 /\ TrueFee[c.path[i]] \in 0 .. Base - 1
          BY <2>1, TokIs
        <4>3. \A x, y \in 0 .. Base - 1 : x >= y => y <= x
          BY PoolAssumption
        <4> QED
          BY <4>1, <4>2, <4>3
      <3> QED
        BY <3>1
    <2>8. CASE amounts[Len(c.path) + 1] <= a
      BY <2>5, <2>8 DEF s
    <2>9. CASE amounts[Len(c.path) + 1] > a
      <3>1. \A i \in 1 .. Len(c.path) : Allowed(ledger, c, amounts, i)
        BY <2>1, <2>4, <2>5, <2>6, <2>7, <2>9, AllAllowed
      <3> QED
        BY <2>5, <2>9, <3>1 DEF s
    <2> QED
      BY <2>6, <2>8, <2>9
  <1>2. Basis => FailsOnlyOnPrice
    BY <1>1 DEF FailsOnlyOnPrice
  <1> QED
    BY <1>2, InitBasis, NextBasis, PTL DEF Spec

(* What ends a trade that has been sent.                                   *)
LEMMA Ended ==
  ASSUME Basis, [Next]_vars, NEW t \in Trader, pc[t] = "sent", pc'[t] = "idle"
  PROVE  Mine(t) \/ ledger' = ledger
  <1>1. pc \in [Trader -> {"idle", "packed", "sent"}]
    BY DEF Basis, TypeOK
  <1>2. ASSUME NEW u \in Trader, NEW v \in Input, NEW path \in Path, Pack(u, v, path) PROVE ledger' = ledger
    BY <1>2 DEF Pack
  <1>3. ASSUME NEW u \in Trader, Estimate(u) \/ Dropped(u) PROVE ledger' = ledger
    BY <1>3 DEF Estimate, Dropped
  <1>4. ASSUME NEW u \in Trader, Mine(u) PROVE Mine(t)
    <2>1. pc' = [pc EXCEPT ![u] = "idle"]
      BY <1>4 DEF Mine, Return
    <2>2. u = t
      BY <1>1, <2>1
    <2> QED
      BY <1>4, <2>2
  <1>5. ASSUME NEW a \in Other[Account], TopUp(a) PROVE FALSE
    BY <1>5 DEF TopUp
  <1>6. ASSUME NEW p \in Pool, NEW a \in Other[p], NEW x \in {Token0(p), Token1(p)}, Someone(p, x, a) PROVE FALSE
    BY <1>6 DEF Someone
  <1>7. ASSUME UNCHANGED vars PROVE FALSE
    BY <1>7 DEF vars
  <1> QED
    BY <1>2, <1>3, <1>4, <1>5, <1>6, <1>7 DEF Next

LEMMA GoneThrough ==
  ASSUME Basis, [Next]_vars, NEW t \in Trader, pc[t] = "sent", pc'[t] = "idle", ledger' # ledger
  PROVE  /\ Mine(t) /\ IsTrade(chosen[t])
         /\ \E a \in 0 .. chosen[t].input : \E amounts :
              /\ Quotes(ledger, chosen[t], a, amounts) /\ Result(ledger, chosen[t], amounts, ledger')
  BY Ended, MineIs

LEMMA AccountGains ==
  ASSUME NEW l \in Ledgers, NEW c, IsTrade(c), NEW a \in Nat, NEW amounts, Quotes(l, c, a, amounts),
         NEW next, Result(l, c, amounts, next)
  PROVE  /\ next[Account][WETH] = l[Account][WETH] - a + amounts[Len(c.path) + 1]
         /\ next[Account][WETH] > l[Account][WETH]
         /\ \A x \in Token \ {WETH} : next[Account][x] = l[Account][x]
         /\ next[c.path[1]][WETH] = l[c.path[1]][WETH] + a
  <1> DEFINE b == amounts[Len(c.path) + 1]
             p == c.path[1]
  <1>1. l[Account] \in [Token -> Nat] /\ WETH \in Token
    BY PoolAssumption DEF Ledgers, Holders
  <1>2. next[Account] = [l[Account] EXCEPT ![WETH] = l[Account][WETH] - a + b]
    BY DEF Result, Quotes
  <1>3. a < b /\ b \in Nat
    <2>1. Len(c.path) + 1 \in 1 .. Len(c.path) + 1
      BY TokIs
    <2> QED
      BY <2>1 DEF Result, Quotes
  <1>4. next[p][WETH] = l[p][WETH] + a
    <2>1. /\ 1 \in 1 .. Len(c.path) /\ Tok(c, 1) = WETH /\ Tok(c, 1 + 1) # WETH /\ p \in Holders
          /\ Tok(c, 1 + 1) \in Token
      BY TokIs
    <2>2. next[p] = [l[p] EXCEPT ![WETH] = l[p][WETH] + a, ![Tok(c, 1 + 1)] = l[p][Tok(c, 1 + 1)] - amounts[1 + 1]]
      BY <2>1 DEF Result, After, Quotes
    <2>3. l[p] \in [Token -> Nat]
      BY <2>1 DEF Ledgers
    <2> HIDE DEF p
    <2> QED
      BY <1>1, <2>1, <2>2, <2>3
  <1> HIDE DEF b
  <1>5. l[Account][WETH] \in Nat
    BY <1>1
  <1>6. next[Account][WETH] = l[Account][WETH] - a + b
    BY <1>1, <1>2
  <1>7. \A x \in Token \ {WETH} : next[Account][x] = l[Account][x]
    BY <1>1, <1>2
  <1>8. next[Account][WETH] > l[Account][WETH]
    BY <1>3, <1>5, <1>6
  <1> QED
    BY <1>4, <1>6, <1>7, <1>8 DEF b

(* A trade that goes through leaves the account with more WETH and as much *)
(* of every other token: the check of _swap at the end (Swaper.sol) and    *)
(* the balances it compares are those of the whole trade.                  *)
THEOREM AccountGainsOnly == Spec => NeverLoses
  <1> DEFINE Gains == \A t \in Trader : pc[t] = "sent" /\ pc'[t] = "idle" /\ ledger' # ledger =>
                        /\ ledger'[Account][WETH] > ledger[Account][WETH]
                        /\ \A x \in Token \ {WETH} : ledger'[Account][x] = ledger[Account][x]
  <1>1. Basis /\ [Next]_vars => Gains
    <2> SUFFICES ASSUME Basis, [Next]_vars, NEW t \in Trader, pc[t] = "sent", pc'[t] = "idle", ledger' # ledger
                 PROVE  /\ ledger'[Account][WETH] > ledger[Account][WETH]
                        /\ \A x \in Token \ {WETH} : ledger'[Account][x] = ledger[Account][x]
      OBVIOUS
    <2> DEFINE c == chosen[t]
               next == ledger'
    <2>1. IsTrade(c) /\ ledger \in Ledgers /\ c.input \in Nat
      BY GoneThrough DEF Basis, TypeOK, Ledgers, Holders, IsTrade
    <2>2. PICK a, amounts : a \in 0 .. c.input /\ Quotes(ledger, c, a, amounts) /\ Result(ledger, c, amounts, next)
      BY GoneThrough
    <2>3. a \in Nat
      BY <2>1, <2>2
    <2> HIDE DEF c, next
    <2>4. next[Account][WETH] > ledger[Account][WETH] /\ \A x \in Token \ {WETH} : next[Account][x] = ledger[Account][x]
      BY <2>1, <2>2, <2>3, AccountGains
    <2> QED
      BY <2>4 DEF next
  <1>2. Basis /\ [Next]_vars => [Gains]_vars
    BY <1>1
  <1> HIDE DEF Gains
  <1>3. Spec => [][Gains]_vars
    BY <1>2, InitBasis, NextBasis, PTL DEF Spec
  <1> QED
    BY <1>3 DEF NeverLoses, Gains

(* No trade puts in more than SwapV2 was told to, whatever int64() makes   *)
(* of an amount that is too large (trader.go).                             *)
THEOREM PutsInAtMost == Spec => PutsInNoMore
  <1> DEFINE NoMore == \A t \in Trader : pc[t] = "sent" /\ pc'[t] = "idle" =>
                         LET p == chosen[t].path[1] IN ledger'[p][WETH] <= ledger[p][WETH] + chosen[t].input
  <1>1. Basis /\ [Next]_vars => NoMore
    <2> SUFFICES ASSUME Basis, [Next]_vars, NEW t \in Trader, pc[t] = "sent", pc'[t] = "idle"
                 PROVE  ledger'[chosen[t].path[1]][WETH] <= ledger[chosen[t].path[1]][WETH] + chosen[t].input
      OBVIOUS
    <2> DEFINE c == chosen[t]
               p == c.path[1]
               next == ledger'
    <2>1. IsTrade(c) /\ ledger \in Ledgers
      BY TradeOf DEF Basis, TypeOK, Ledgers, Holders, Under
    <2>2. c.input \in Nat /\ p \in Holders
      <3>1. 1 \in 1 .. Len(c.path)
        BY <2>1, TokIs
      <3> QED
        BY <2>1, <3>1, TokIs DEF IsTrade
    <2>3. ledger[p][WETH] \in Nat
      <3>1. WETH \in Token
        BY PoolAssumption
      <3> HIDE DEF p
      <3> QED
        BY <2>1, <2>2, <3>1 DEF Ledgers
    <2>4. CASE ledger' = ledger
      <3>1. \A x, y \in Nat : x <= x + y
        OBVIOUS
      <3> HIDE DEF p, c
      <3>2. ledger[p][WETH] <= ledger[p][WETH] + c.input
        BY <2>2, <2>3, <3>1
      <3> QED
        BY <2>4, <3>2 DEF p, c
    <2>5. CASE ledger' # ledger
      <3>1. PICK a, amounts : a \in 0 .. c.input /\ Quotes(ledger, c, a, amounts) /\ Result(ledger, c, amounts, next)
        BY <2>5, GoneThrough
      <3>2. a \in Nat /\ a <= c.input
        BY <2>2, <3>1
      <3> HIDE DEF c, next
      <3>3. next[p][WETH] = ledger[p][WETH] + a
        BY <2>1, <3>1, <3>2, AccountGains
      <3> HIDE DEF p
      <3>4. next[p][WETH] <= ledger[p][WETH] + c.input
        BY <2>2, <2>3, <3>2, <3>3
      <3> QED
        BY <3>4 DEF c, p, next
    <2> QED
      BY <2>4, <2>5
  <1>2. Basis /\ [Next]_vars => [NoMore]_vars
    BY <1>1
  <1> HIDE DEF NoMore
  <1>3. Spec => [][NoMore]_vars
    BY <1>2, InitBasis, NextBasis, PTL DEF Spec
  <1> QED
    BY <1>3 DEF PutsInNoMore, NoMore

LEMMA MovedFee ==
  ASSUME ledger \in Ledgers, NEW p \in Pool, Moved(ledger, ledger', p),
         NEW fee \in CalculatePairFee(p, ledger[p], ledger'[p]), fee < TrueFee[p]
  PROVE  \/ fee \in {DefaultFee, StableFee}
         \/ \E s \in Smaller(p, ledger[p]) : Deep(p, s) \/ Dust(p, s)
  <1>1. PICK x \in {Token0(p), Token1(p)}, a \in Nat \ {0}, b \in Nat \ {0} :
          /\ ledger[p][x] # 0 /\ b < ledger[p][Opposite(p, x)]
          /\ ledger'[p] = [ledger[p] EXCEPT ![x] = ledger[p][x] + a, ![Opposite(p, x)] = ledger[p][Opposite(p, x)] - b]
          /\ Passes(ledger[p][x], ledger[p][Opposite(p, x)], a, b, TrueFee[p])
    BY DEF Moved
  <1> DEFINE y == Opposite(p, x)
             in == ledger[p][x]
             out == ledger[p][y]
             pr == ledger[p]
             r == ledger'[p]
  <1>2. x \in Token /\ y \in Token /\ x # y /\ pr \in [Token -> Nat]
    BY Sides DEF Ledgers, Holders
  <1> HIDE DEF r, pr
  <1>3. pr[x] = in /\ pr[y] = out
    BY DEF pr
  <1>4. in \in Nat \ {0} /\ out \in Nat \ {0} /\ b \in 1 .. out - 1
    <2>1. in \in Nat /\ out \in Nat
      BY <1>2, <1>3
    <2>2. b < out /\ in # 0
      BY <1>1
    <2> HIDE DEF in, out
    <2> QED
      BY <2>1, <2>2
  <1>5. r[x] = in + a /\ r[y] = out - b
    <2>1. r = [pr EXCEPT ![x] = in + a, ![y] = out - b]
      BY <1>1 DEF r, pr
    <2> HIDE DEF y, in, out
    <2> QED
      BY <1>2, <2>1
  <1>6. fee \in CalculatePairFee(p, pr, r) /\ Passes(in, out, a, b, TrueFee[p])
    BY <1>1 DEF pr, r
  <1> HIDE DEF in, out, y
  <1>7. SUFFICES ASSUME fee \notin {DefaultFee, StableFee}
                 PROVE  \E s \in Smaller(p, ledger[p]) : Deep(p, s) \/ Dust(p, s)
    OBVIOUS
  <1>8. \E s \in Smaller(p, pr) :
           \/ 2 * TrueFee[p] * (r[s] - pr[s]) * (Base - TrueFee[p]) >= pr[s] * Base
           \/ Gap(r[s], pr[s]) * Precision < 4 * Base * pr[s]
    <2>1. pr[Opposite(p, x)] = out /\ r[Opposite(p, x)] = out - b
      BY <1>3, <1>5 DEF y
    <2> QED
      BY <1>3, <1>4, <1>5, <1>6, <1>7, <2>1, FeeCovers
  <1> QED
    BY <1>8 DEF Deep, Dust, pr, r

(* A fee that protocol/uniswapv2.go learns from a swap covers the pool's   *)
(* own, the default and the fee of stable pools apart, unless the swap has *)
(* put in much of the smaller reserve or has hardly changed it: its floats *)
(* may be off by one part in Precision of the reserve.                     *)
THEOREM FeesCover == Spec => LearnedCovers
  <1> DEFINE Covers == \A p \in Pool : learned'[p] # learned[p] /\ learned'[p] < TrueFee[p] =>
                         \/ learned'[p] \in {DefaultFee, StableFee}
                         \/ \E x \in Smaller(p, ledger[p]) : Deep(p, x) \/ Dust(p, x)
             Sound(p) == \/ learned'[p] \in {DefaultFee, StableFee}
                         \/ \E x \in Smaller(p, ledger[p]) : Deep(p, x) \/ Dust(p, x)
  <1>1. Basis /\ [Next]_vars => Covers
    <2> SUFFICES ASSUME Basis, [Next]_vars, NEW p \in Pool, learned'[p] # learned[p], learned'[p] < TrueFee[p]
                 PROVE  Sound(p)
      OBVIOUS
    <2>1. ledger \in Ledgers /\ StockedIn(ledger) /\ learned \in [Pool -> 0 .. Base - 1]
      BY DEF Basis, TypeOK, Ledgers, Holders, Stocked, StockedIn
    <2>2. ASSUME Learn(ledger'), ledger'[p] # ledger[p] => Moved(ledger, ledger', p)
          PROVE  Sound(p)
      <3>1. ledger'[p] # ledger[p] /\ learned'[p] \in CalculatePairFee(p, ledger[p], ledger'[p])
        BY <2>1, <2>2, LearnType
      <3>2. Moved(ledger, ledger', p)
        BY <2>2, <3>1
      <3> DEFINE fee == learned'[p]
      <3>3. fee \in CalculatePairFee(p, ledger[p], ledger'[p]) /\ fee < TrueFee[p]
        BY <3>1
      <3> HIDE DEF fee
      <3>4. \/ fee \in {DefaultFee, StableFee}
            \/ \E s \in Smaller(p, ledger[p]) : Deep(p, s) \/ Dust(p, s)
        BY <2>1, <3>2, <3>3, MovedFee
      <3> QED
        BY <3>4 DEF fee
    <2>3. ASSUME NEW t \in Trader, Mine(t) PROVE Sound(p)
      <3>1. Learn(ledger')
        BY <2>3 DEF Mine
      <3>2. ledger'[p] # ledger[p] => Moved(ledger, ledger', p)
        BY <2>3, LedgerMoves
      <3> QED
        BY <2>2, <3>1, <3>2
    <2>4. ASSUME NEW q \in Pool, NEW a \in Other[q], NEW x \in {Token0(q), Token1(q)}, Someone(q, x, a)
          PROVE  Sound(p)
      <3>1. Learn(ledger')
        BY <2>4 DEF Someone
      <3>2. a \in Nat \ {0}
        BY PoolAssumption
      <3>3. Moved(ledger, ledger', q) /\ \A o \in Pool : o # q => ledger'[o] = ledger[o]
        BY <2>1, <2>4, <3>2, SomeoneMoves
      <3>4. ledger'[p] # ledger[p] => Moved(ledger, ledger', p)
        BY <3>3
      <3> QED
        BY <2>2, <3>1, <3>4
    <2>5. ASSUME UNCHANGED learned PROVE FALSE
      BY <2>5
    <2> QED
      BY <2>3, <2>4, <2>5 DEF Next, Pack, Estimate, Dropped, TopUp, vars
  <1>2. Basis /\ [Next]_vars => [Covers]_vars
    BY <1>1
  <1> HIDE DEF Covers
  <1>3. Spec => [][Covers]_vars
    BY <1>2, InitBasis, NextBasis, PTL DEF Spec
  <1> QED
    BY <1>3 DEF LearnedCovers, Covers

(* What the pool of a leg gives is the most its check allows.              *)
LEMMA MostIs ==
  ASSUME NEW l \in Ledgers, StockedIn(l), NEW c, IsTrade(c), NEW a \in Nat, NEW amounts, Quotes(l, c, a, amounts),
         NEW i \in 1 .. Len(c.path), Allowed(l, c, amounts, i), c.fees[i] = TrueFee[c.path[i]]
  PROVE  Most(l, c.path[i], Tok(c, i), amounts[i]) = amounts[i + 1]
  <1> DEFINE p == c.path[i]
             x == Tok(c, i)
             y == Tok(c, i + 1)
             in == l[p][x]
             out == l[p][y]
             u == amounts[i]
             b == amounts[i + 1]
             fee == TrueFee[p]
             Fair == {z \in 0 .. out - 1 : Adjusted(in + u, u, fee) * (out - z) * Base >= in * out * Base * Base}
  <1>1. /\ p \in Pool /\ p \in Holders /\ x \in {Token0(p), Token1(p)} /\ y = Opposite(p, x)
        /\ x \in Token /\ y \in Token /\ fee \in 0 .. Base - 1
    BY TokIs
  <1>2. in \in Nat /\ out \in Nat
    <2> HIDE DEF p, x, y
    <2> QED
      BY <1>1 DEF Ledgers
  <1>3. u \in Nat /\ b = GetAmountOut(u, in, out, fee) /\ b > 0 /\ b < out /\ Passes(in, out, u, b, fee)
    <2>1. i \in 1 .. Len(c.path) + 1
      BY TokIs
    <2> QED
      BY <2>1 DEF Quotes, Allowed
  <1>4. in # 0
    <2>1. in = 0 <=> out = 0
      <3> HIDE DEF p, x, y
      <3> QED
        BY <1>1, Stock
    <2>2. b \in 0 .. out
      <3> HIDE DEF in, out, u, b, fee
      <3> QED
        BY <1>1, <1>2, <1>3, QuoteBounds
    <2> HIDE DEF in, out, b
    <2> QED
      BY <1>2, <1>3, <2>1, <2>2
  <1>5. Most(l, p, x, u) = Max(Fair)
    BY <1>1 DEF Most
  <1> HIDE DEF p, x, y, in, out, u, b, fee
  <1>6. \A z \in 0 .. out - 1 : z \in Fair <=> Passes(in, out, u, z, fee)
    <2>1. Adjusted(in + u, u, fee) = Kept(in, u, fee)
      BY <1>1, <1>2, <1>3, AdjustedIs
    <2>2. ASSUME NEW z \in 0 .. out - 1
          PROVE  Kept(in, u, fee) * (out - z) * Base >= in * out * Base * Base <=> Passes(in, out, u, z, fee)
      <3>1. z \in 0 .. out
        BY <1>2
      <3> QED
        BY <1>1, <1>2, <1>3, <3>1, CheckIs
    <2>3. Fair = {z \in 0 .. out - 1 : Kept(in, u, fee) * (out - z) * Base >= in * out * Base * Base}
      BY <2>1
    <2> HIDE DEF Fair
    <2> QED
      BY <2>2, <2>3
  <1>7. Fair \subseteq 0 .. out - 1
    OBVIOUS
  <1> HIDE DEF Fair
  <1>8. b \in 0 .. out - 1 /\ b \in Fair
    <2>1. b \in 0 .. out
      BY <1>1, <1>2, <1>3, QuoteBounds
    <2>2. b \in 0 .. out - 1
      BY <1>2, <1>3, <2>1
    <2> QED
      BY <1>3, <1>6, <2>2
  <1>9. ASSUME NEW z \in Fair PROVE b >= z
    <2>1. z \in 0 .. out - 1 /\ Passes(in, out, u, z, fee)
      BY <1>6, <1>7
    <2>2. in \in Nat \ {0} /\ out \in Nat \ {0}
      BY <1>2, <1>4, <1>8
    <2>3. z <= GetAmountOut(u, in, out, fee)
      BY <1>1, <1>3, <2>1, <2>2, QuoteIsMost
    <2> QED
      BY <1>2, <1>3, <1>8, <2>1, <2>3
  <1>10. Max(Fair) = b
    <2>1. Max(Fair) \in Fair /\ \A z \in Fair : Max(Fair) >= z
      BY <1>8, <1>9 DEF Max
    <2>2. Max(Fair) \in 0 .. out - 1
      BY <1>7, <2>1
    <2>3. Max(Fair) \in Int /\ b \in Int
      <3> DEFINE m == Max(Fair)
      <3>1. m \in 0 .. out - 1
        BY <2>2
      <3> HIDE DEF m
      <3>2. m \in Int /\ b \in Int
        BY <1>2, <1>8, <3>1
      <3> QED
        BY <3>2 DEF m
    <2>4. Max(Fair) >= b /\ b >= Max(Fair)
      BY <1>8, <1>9, <2>1
    <2> QED
      BY <2>3, <2>4
  <1> QED
    BY <1>5, <1>10 DEF p, x, u, b

(* The most the pools of a path give, one after the other.                 *)
LEMMA MostOfIs ==
  ASSUME NEW l \in Ledgers, StockedIn(l), NEW c, IsTrade(c), NEW a \in Nat, NEW amounts, Quotes(l, c, a, amounts),
         \A i \in 1 .. Len(c.path) : Allowed(l, c, amounts, i) /\ c.fees[i] = TrueFee[c.path[i]]
  PROVE  MostOf(l, c.path, a) = amounts[Len(c.path) + 1]
  <1> DEFINE n == Len(c.path)
             Get(g, i) == IF i = 0 THEN a ELSE Most(l, c.path[i], InAddr(c.path)[i], g[i - 1])
             h == [i \in 0 .. n |-> amounts[i + 1]]
             f == CHOOSE g : g = [i \in 0 .. n |-> Get(g, i)]
  <1>1. n \in Nat /\ amounts[1] = a
    BY TokIs DEF Quotes
  <1>2. ASSUME NEW i \in 1 .. n PROVE Most(l, c.path[i], InAddr(c.path)[i], amounts[i]) = amounts[i + 1]
    BY MostIs DEF Tok
  <1> HIDE DEF n
  <1>3. \A i \in 0 .. n : h[i] = Get(h, i)
    <2>1. h[0] = a
      BY <1>1
    <2>2. ASSUME NEW i \in 0 .. n, i # 0 PROVE h[i] = Most(l, c.path[i], InAddr(c.path)[i], h[i - 1])
      <3>1. i \in 1 .. n /\ i - 1 \in 0 .. n /\ (i - 1) + 1 = i
        BY <1>1, <2>2
      <3>2. h[i] = amounts[i + 1] /\ h[i - 1] = amounts[i]
        BY <3>1
      <3> HIDE DEF h
      <3> QED
        BY <1>2, <3>1, <3>2
    <2> HIDE DEF h
    <2> QED
      BY <2>1, <2>2
  <1>4. h = [i \in 0 .. n |-> Get(h, i)]
    <2> HIDE DEF Get
    <2> QED
      BY <1>3
  <1>5. f = [i \in 0 .. n |-> Get(f, i)]
    <2> HIDE DEF Get, h
    <2> QED
      BY <1>4
  <1>6. h[n] = amounts[n + 1]
    BY <1>1
  <1> HIDE DEF f, h
  <1>7. f[n] = h[n]
    <2> DEFINE Same == {i \in 0 .. n : f[i] = h[i]}
    <2>1. \A i \in 0 .. n : f[i] = Get(f, i)
      <3> HIDE DEF Get
      <3> QED
        BY <1>5
    <2>2. 0 \in Same
      <3>1. f[0] = a /\ h[0] = a
        BY <1>1, <1>3, <2>1
      <3> QED
        BY <1>1, <3>1
    <2>3. ASSUME NEW i \in 0 .. n - 1, i \in Same PROVE i + 1 \in Same
      <3>1. i + 1 \in 0 .. n /\ i + 1 # 0 /\ (i + 1) - 1 = i
        BY <1>1
      <3>2. f[i + 1] = Most(l, c.path[i + 1], InAddr(c.path)[i + 1], f[i])
        BY <2>1, <3>1
      <3>3. h[i + 1] = Most(l, c.path[i + 1], InAddr(c.path)[i + 1], h[i])
        BY <1>3, <3>1
      <3> QED
        BY <2>3, <3>1, <3>2, <3>3
    <2> HIDE DEF Same
    <2>4. \A i \in 0 .. n : i \in Same
      BY <1>1, <2>2, <2>3, Induction
    <2> QED
      BY <1>1, <2>4 DEF Same
  <1> QED
    BY <1>6, <1>7 DEF MostOf, f, n

(* Where the learned fees are the true ones, a trade gets of every pool    *)
(* the most the pool would have given: GetAmountOut (Swaper.sol) rounds as *)
(* the check of Pair.sol does.                                             *)
THEOREM NothingLeft == Spec => TakesAll
  <1> DEFINE All == \A t \in Trader :
                      pc[t] = "sent" /\ pc'[t] = "idle" /\ ledger' # ledger /\ FeesExact(t) =>
                      LET path == chosen[t].path
                          put  == ledger'[path[1]][WETH] - ledger[path[1]][WETH]
                      IN ledger'[Account][WETH] = ledger[Account][WETH] - put + MostOf(ledger, path, put)
  <1>1. Basis /\ [Next]_vars => All
    <2> SUFFICES ASSUME Basis, [Next]_vars, NEW t \in Trader,
                        pc[t] = "sent", pc'[t] = "idle", ledger' # ledger, FeesExact(t)
                 PROVE  LET path == chosen[t].path
                            put  == ledger'[path[1]][WETH] - ledger[path[1]][WETH]
                        IN ledger'[Account][WETH] = ledger[Account][WETH] - put + MostOf(ledger, path, put)
      OBVIOUS
    <2> DEFINE c == chosen[t]
               next == ledger'
               p == c.path[1]
    <2>1. IsTrade(c) /\ ledger \in Ledgers /\ StockedIn(ledger) /\ c.input \in Nat
      BY GoneThrough DEF Basis, TypeOK, Ledgers, Holders, Stocked, StockedIn, IsTrade
    <2>2. PICK a, amounts : a \in 0 .. c.input /\ Quotes(ledger, c, a, amounts) /\ Result(ledger, c, amounts, next)
      BY GoneThrough
    <2>3. a \in Nat
      BY <2>1, <2>2
    <2>4. \A i \in DOMAIN c.path : c.fees[i] = TrueFee[c.path[i]]
      BY DEF FeesExact
    <2> HIDE DEF c, next
    <2>5. \A i \in 1 .. Len(c.path) : Allowed(ledger, c, amounts, i) /\ c.fees[i] = TrueFee[c.path[i]]
      BY <2>1, <2>2, <2>4, TokIs DEF Result
    <2>6. MostOf(ledger, c.path, a) = amounts[Len(c.path) + 1]
      BY <2>1, <2>2, <2>3, <2>5, MostOfIs
    <2>7. /\ next[Account][WETH] = ledger[Account][WETH] - a + amounts[Len(c.path) + 1]
          /\ next[p][WETH] = ledger[p][WETH] + a
      BY <2>1, <2>2, <2>3, AccountGains
    <2>8. ledger[p][WETH] \in Nat
      <3>1. 1 \in 1 .. Len(c.path) /\ WETH \in Token /\ p \in Holders
        BY <2>1, TokIs, PoolAssumption
      <3> HIDE DEF p
      <3> QED
        BY <2>1, <3>1 DEF Ledgers
    <2>9. next[p][WETH] - ledger[p][WETH] = a
      <3> HIDE DEF p
      <3> QED
        BY <2>3, <2>7, <2>8
    <2>10. LET put == next[p][WETH] - ledger[p][WETH]
           IN next[Account][WETH] = ledger[Account][WETH] - put + MostOf(ledger, c.path, put)
      BY <2>6, <2>7, <2>9
    <2> QED
      BY <2>10 DEF c, next
  <1>2. Basis /\ [Next]_vars => [All]_vars
    BY <1>1
  <1> HIDE DEF All
  <1>3. Spec => [][All]_vars
    BY <1>2, InitBasis, NextBasis, PTL DEF Spec
  <1> QED
    BY <1>3 DEF TakesAll, All

=============================================================================
