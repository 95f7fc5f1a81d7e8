--------------------------- MODULE Analysis_proofs --------------------------
(***************************************************************************)
(* Theorems about Analysis for any requests, defaults, rates, stamp duty   *)
(* bands, corporation tax thresholds and column scales.                    *)
(***************************************************************************)
EXTENDS Analysis, TLAPS

-----------------------------------------------------------------------------
(* Rounding                                                                *)

LEMMA QuotType ==
  ASSUME NEW a \in Int, NEW b \in Nat \ {0}
  PROVE  Quot(a, b) \in Int
BY DEF Quot

LEMMA QuotMonotone ==
  ASSUME NEW a \in Int, NEW c \in Int, a <= c, NEW b \in Nat \ {0}
  PROVE  Quot(a, b) <= Quot(c, b)
BY DEF Quot

LEMMA QuotNatural ==
  ASSUME NEW a \in Nat, NEW b \in Nat \ {0}
  PROVE  Quot(a, b) \in Nat
BY DEF Quot

LEMMA HalfUpType ==
  ASSUME NEW a \in Int, NEW b \in Nat \ {0}
  PROVE  HalfUp(a, b) \in Int
BY QuotType DEF HalfUp

LEMMA ColumnType ==
  ASSUME NEW v \in Int
  PROVE  Column(v) \in Int
BY HalfUpType, GridAssumption DEF Column

LEMMA RateColumnType ==
  ASSUME NEW v \in Int
  PROVE  RateColumn(v) \in Int
<1>1. RateGrain \in Nat \ {0}
  BY GridAssumption
<1> QED BY <1>1, HalfUpType DEF RateColumn

\* The nearest whole number is at most half off.
LEMMA QuotNearest ==
  ASSUME NEW a \in Int, NEW b \in Nat \ {0}
  PROVE  2 * (b * Quot(a, b)) - 2 * a <= b /\ 2 * a - 2 * (b * Quot(a, b)) <= b
<1> DEFINE q == (2 * a + b) \div (2 * b)
<1>1. q \in Int /\ (2 * b) * q <= 2 * a + b /\ 2 * a + b < (2 * b) * q + 2 * b
  OBVIOUS
<1>2. (2 * b) * q = 2 * (b * q)
  <2> HIDE DEF q
  <2> QED BY <1>1
<1> HIDE DEF q
<1>3. b * q \in Int
  BY <1>1
<1>4. Quot(a, b) = q
  BY DEF Quot, q
<1> QED BY <1>1, <1>2, <1>3, <1>4

\* A figure is at most half a penny off when it is rounded.
LEMMA PennyNearest ==
  ASSUME NEW v \in Int
  PROVE  /\ RoundPenny(v) \in Int
         /\ 2 * (RoundPenny(v) - v) <= Cent /\ 2 * (v - RoundPenny(v)) <= Cent
<1>1. Cent \in Nat \ {0}
  BY GridAssumption
<1>2. CASE v >= 0
  <2>1. HalfUp(v, Cent) = Quot(v, Cent)
    BY <1>2 DEF HalfUp
  <2>2. Quot(v, Cent) \in Int /\ Cent * Quot(v, Cent) \in Int
    BY <1>1, QuotType
  <2>3. /\ 2 * (Cent * Quot(v, Cent)) - 2 * v <= Cent
        /\ 2 * v - 2 * (Cent * Quot(v, Cent)) <= Cent
    BY <1>1, QuotNearest
  <2> QED BY <1>1, <2>1, <2>2, <2>3 DEF RoundPenny
<1>3. CASE v < 0
  <2>1. HalfUp(v, Cent) = -Quot(-v, Cent)
    BY <1>3 DEF HalfUp
  <2>2. Quot(-v, Cent) \in Int /\ -v \in Int
    BY <1>1, QuotType
  <2>3. Cent * (-Quot(-v, Cent)) = -(Cent * Quot(-v, Cent))
    BY <2>2, <1>1
  <2>4. Cent * Quot(-v, Cent) \in Int
    BY <2>2, <1>1
  <2>5. /\ 2 * (Cent * Quot(-v, Cent)) - 2 * (-v) <= Cent
        /\ 2 * (-v) - 2 * (Cent * Quot(-v, Cent)) <= Cent
    BY <1>1, <2>2, QuotNearest
  <2> QED BY <1>1, <2>1, <2>3, <2>4, <2>5 DEF RoundPenny
<1> QED BY <1>2, <1>3

\* Rounding to a multiple of a second time changes nothing.
LEMMA QuotOfProduct ==
  ASSUME NEW n \in Int, NEW b \in Nat \ {0}
  PROVE  Quot(b * n, b) = n
<1> DEFINE q == Quot(b * n, b)
<1>1. q \in Int /\ b * n \in Int
  BY QuotType
<1>2. 2 * (b * q) - 2 * (b * n) <= b /\ 2 * (b * n) - 2 * (b * q) <= b
  BY <1>1, QuotNearest
<1> HIDE DEF q
<1>3. CASE q <= n - 1
  <2>1. b * q <= b * (n - 1)
    BY <1>1, <1>3
  <2>2. b * (n - 1) = b * n - b
    OBVIOUS
  <2> QED BY <1>1, <1>2, <2>1, <2>2
<1>4. CASE q >= n + 1
  <2>1. b * q >= b * (n + 1)
    BY <1>1, <1>4
  <2>2. b * (n + 1) = b * n + b
    OBVIOUS
  <2> QED BY <1>1, <1>2, <2>1, <2>2
<1> QED BY <1>1, <1>3, <1>4 DEF q

LEMMA HalfUpOfProduct ==
  ASSUME NEW n \in Int, NEW g \in Nat \ {0}
  PROVE  HalfUp(g * n, g) = n
<1>1. g * n \in Int
  OBVIOUS
<1>2. CASE g * n >= 0
  BY <1>2, QuotOfProduct DEF HalfUp
<1>3. CASE g * n < 0
  <2>1. -(g * n) = g * (-n)
    OBVIOUS
  <2>2. Quot(g * (-n), g) = -n
    BY QuotOfProduct
  <2> QED BY <1>3, <2>1, <2>2 DEF HalfUp
<1> QED BY <1>1, <1>2, <1>3

LEMMA ColumnTwice ==
  ASSUME NEW v \in Int
  PROVE  Column(Column(v)) = Column(v) /\ RateColumn(RateColumn(v)) = RateColumn(v)
<1>1. Grain \in Nat \ {0} /\ RateGrain \in Nat \ {0}
  BY GridAssumption
<1>2. HalfUp(v, Grain) \in Int /\ HalfUp(v, RateGrain) \in Int
  BY <1>1, HalfUpType
<1> QED BY <1>1, <1>2, HalfUpOfProduct DEF Column, RateColumn

\* A ratio is at most half a part off.
LEMMA PartsNearest ==
  ASSUME NEW a \in Int, NEW b \in Nat \ {0}
  PROVE  /\ InParts(a, b) \in Int
         /\ 2 * (b * InParts(a, b)) - 2 * ((Parts \div 100) * (100 * a)) <= b
         /\ 2 * ((Parts \div 100) * (100 * a)) - 2 * (b * InParts(a, b)) <= b
<1> DEFINE c == Parts \div 100
           whole == (100 * a) \div b
           rest == (100 * a) % b
           q == Quot(rest * c, b)
<1>1. c \in Nat /\ whole \in Int /\ rest \in Nat /\ 100 * a = b * whole + rest
  BY PartsAssumption
<1>2. InParts(a, b) = whole * c + q
  BY DEF InParts
<1> HIDE DEF c, whole, rest, q
<1>3. rest * c \in Int
  BY <1>1
<1>4. q \in Int /\ 2 * (b * q) - 2 * (rest * c) <= b /\ 2 * (rest * c) - 2 * (b * q) <= b
  BY <1>3, QuotType, QuotNearest DEF q
<1>5. whole * c \in Int /\ b * q \in Int /\ c * (b * whole) \in Int
  BY <1>1, <1>4
<1>6. b * (whole * c + q) = c * (b * whole) + b * q
  BY <1>1, <1>4
<1>7. c * (100 * a) = c * (b * whole) + rest * c
  <2>1. c * (b * whole + rest) = c * (b * whole) + rest * c
    BY <1>1
  <2> QED BY <1>1, <2>1
<1> QED BY <1>2, <1>3, <1>4, <1>5, <1>6, <1>7 DEF c

\* Where the rounded loan to value says that a loan is more than n percent, it
\* is; where it does not, the loan is more by half a part at most.
LEMMA LeverageLine ==
  ASSUME NEW a \in Int, NEW b \in Nat \ {0}, NEW n \in Nat
  PROVE  /\ Above(f05_ltv_percent(a, b), n) => 100 * a - n * b > 0
         /\ ~ Above(f05_ltv_percent(a, b), n) =>
              (100 * a - n * b) * (Parts \div 100) * 2 <= b
<1> DEFINE c == Parts \div 100
           r == InParts(a, b)
           s == 100 * a - n * b
<1>1. c \in Nat \ {0}
  BY PartsAssumption
<1>2. /\ r \in Int /\ 2 * (b * r) - 2 * (c * (100 * a)) <= b
      /\ 2 * (c * (100 * a)) - 2 * (b * r) <= b
  BY PartsNearest
<1>3. Above(f05_ltv_percent(a, b), n) <=> r > n * c
  BY DEF Above, f05_ltv_percent
<1>4. n * b \in Int /\ s \in Int
  OBVIOUS
<1>5. c * (100 * a) = c * s + b * (n * c)
  <2>1. 100 * a = s + n * b
    BY <1>4
  <2> HIDE DEF s, c
  <2>2. c * (s + n * b) = c * s + b * (n * c)
    BY <1>1, <1>4
  <2> QED BY <2>1, <2>2
<1> HIDE DEF c, r, s
<1>6. n * c \in Int /\ b * (n * c) \in Int /\ b * r \in Int /\ c * s \in Int
  BY <1>1, <1>2, <1>4
<1>7. CASE r > n * c
  <2>1. b * r >= b * (n * c + 1)
    BY <1>2, <1>6, <1>7
  <2>2. b * (n * c + 1) = b * (n * c) + b
    BY <1>6
  <2>3. c * s > 0
    BY <1>2, <1>5, <1>6, <2>1, <2>2
  <2>4. s > 0
    BY <1>1, <1>4, <2>3
  <2> QED BY <1>3, <1>7, <2>4 DEF s
<1>8. CASE ~ (r > n * c)
  <2>1. b * r <= b * (n * c)
    BY <1>2, <1>6, <1>8
  <2>2. 2 * (c * s) <= b
    BY <1>2, <1>5, <1>6, <2>1
  <2>3. s * c * 2 = 2 * (c * s)
    BY <1>1, <1>4
  <2> QED BY <1>3, <1>8, <2>2, <2>3 DEF s, c
<1> QED BY <1>7, <1>8

\* A deposit that reaches the rounded share of the price misses the exact one by
\* half a unit at most.
LEMMA DepositLine ==
  ASSUME NEW p \in Int, NEW d \in Int, NEW n \in Nat, ~ (d < Quot(n * p, 100))
  PROVE  n * p - 100 * d <= 50
<1>1. n * p \in Int
  OBVIOUS
<1>2. Quot(n * p, 100) \in Int /\ 2 * (n * p) - 2 * (100 * Quot(n * p, 100)) <= 100
  BY <1>1, QuotType, QuotNearest
<1> QED BY <1>1, <1>2

-----------------------------------------------------------------------------
(* Corporation tax                                                         *)

\* What is left of a profit, in hundredths of ReliefDen-ths of a unit.
Left(p) == (100 * ReliefDen) * p - BandedTax(p)

\* A tax rate of at most a whole unit takes no more of the larger profit.
LEMMA SlopeMonotone ==
  ASSUME NEW q \in Int, NEW p \in Int, q <= p, NEW d \in Nat, NEW s \in Int, s <= d
  PROVE  d * q - s * q <= d * p - s * p
<1>1. (d - s) * q <= (d - s) * p
  <2>1. d - s \in Nat /\ p - q \in Nat
    OBVIOUS
  <2>2. (d - s) * (p - q) >= 0
    BY <2>1
  <2>3. (d - s) * (p - q) = (d - s) * p - (d - s) * q
    OBVIOUS
  <2>4. (d - s) * p \in Int /\ (d - s) * q \in Int
    OBVIOUS
  <2> QED BY <2>2, <2>3, <2>4
<1>2. (d - s) * q = d * q - s * q /\ (d - s) * p = d * p - s * p
  OBVIOUS
<1> QED BY <1>1, <1>2

\* The three rates as slopes, and the curve on each stretch.
LEMMA TaxSlopes ==
  /\ ReliefDen \in Nat \ {0} /\ 100 * ReliefDen \in Nat \ {0}
  /\ SmallUpper \in Nat /\ MainLower \in Nat /\ SmallUpper <= MainLower
  /\ SmallRate * ReliefDen \in Nat /\ SmallRate * ReliefDen <= 100 * ReliefDen
  /\ MainRate * ReliefDen \in Nat /\ MainRate * ReliefDen <= 100 * ReliefDen
  /\ MainRate * ReliefDen + 100 * ReliefNum \in Nat
  /\ MainRate * ReliefDen + 100 * ReliefNum <= 100 * ReliefDen
  /\ (100 * ReliefNum) * MainLower \in Nat
<1>1. /\ SmallRate \in Nat /\ SmallUpper \in Nat /\ MainRate \in Nat
      /\ MainLower \in Nat /\ ReliefNum \in Nat /\ ReliefDen \in Nat \ {0}
  BY CorporationTaxAssumption
<1>2. SmallRate <= 100
  BY CorporationTaxAssumption
<1>3. SmallRate * ReliefDen <= 100 * ReliefDen
  <2>1. (100 - SmallRate) * ReliefDen >= 0
    BY <1>1, <1>2
  <2>2. (100 - SmallRate) * ReliefDen = 100 * ReliefDen - SmallRate * ReliefDen
    BY <1>1
  <2>3. SmallRate * ReliefDen \in Int
    BY <1>1
  <2> QED BY <1>1, <2>1, <2>2, <2>3
<1>4. MainRate * ReliefDen \in Nat /\ SmallRate * ReliefDen \in Nat
  BY <1>1
<1>5. (100 * ReliefNum) * MainLower \in Nat
  BY <1>1
<1> QED BY <1>1, <1>3, <1>4, <1>5, CorporationTaxAssumption

LEMMA TaxCurve ==
  ASSUME NEW p \in Int
  PROVE  /\ BandedTax(p) \in Int /\ Left(p) \in Int
         /\ p <= 0 => Left(p) = (100 * ReliefDen) * p
         /\ 0 <= p /\ p <= SmallUpper =>
              Left(p) = (100 * ReliefDen) * p - (SmallRate * ReliefDen) * p
         /\ SmallUpper <= p /\ p <= MainLower =>
              Left(p) = (100 * ReliefDen) * p - (MainRate * ReliefDen + 100 * ReliefNum) * p
                          + (100 * ReliefNum) * MainLower
         /\ MainLower <= p => Left(p) = (100 * ReliefDen) * p - (MainRate * ReliefDen) * p
<1> DEFINE small == p * SmallRate * ReliefDen
           main == p * MainRate * ReliefDen
           relief == 100 * (MainLower - p) * ReliefNum
<1>1. /\ SmallRate \in Nat /\ SmallUpper \in Nat /\ MainRate \in Nat
      /\ MainLower \in Nat /\ ReliefNum \in Nat /\ ReliefDen \in Nat \ {0}
      /\ SmallUpper <= MainLower
  BY CorporationTaxAssumption
<1>2. small \in Int /\ main \in Int /\ relief \in Int /\ (100 * ReliefDen) * p \in Int
  BY <1>1
<1>3. small = (SmallRate * ReliefDen) * p /\ main = (MainRate * ReliefDen) * p
  BY <1>1
<1>4. main - relief = (MainRate * ReliefDen + 100 * ReliefNum) * p - (100 * ReliefNum) * MainLower
  <2>1. relief = (100 * ReliefNum) * MainLower - (100 * ReliefNum) * p
    BY <1>1
  <2>2. (MainRate * ReliefDen + 100 * ReliefNum) * p
          = (MainRate * ReliefDen) * p + (100 * ReliefNum) * p
    BY <1>1
  <2>3. /\ (100 * ReliefNum) * MainLower \in Int /\ (100 * ReliefNum) * p \in Int
        /\ (MainRate * ReliefDen) * p \in Int
    BY <1>1
  <2> QED BY <1>3, <2>1, <2>2, <2>3
<1>5. BandedTax(p) = IF p <= 0 THEN 0
                     ELSE IF p <= SmallUpper THEN small
                     ELSE IF p > MainLower THEN main
                     ELSE main - relief
  BY DEF BandedTax
<1>6. (100 * ReliefNum) * MainLower \in Int /\ (MainRate * ReliefDen + 100 * ReliefNum) * p \in Int
  BY <1>1
<1>7. p = SmallUpper => small = main - relief
  BY <1>1, ReliefMeetsSmallRate
<1>8. p = MainLower => relief = 0
  BY <1>1
<1>9. p = 0 => small = 0 /\ (SmallRate * ReliefDen) * p = 0 /\ (100 * ReliefDen) * p = 0
  BY <1>1
<1> HIDE DEF small, main, relief
<1>10. BandedTax(p) \in Int /\ Left(p) \in Int
  BY <1>2, <1>5 DEF Left
<1>11. Left(p) = (100 * ReliefDen) * p - BandedTax(p)
  BY DEF Left
<1>12. p <= 0 => Left(p) = (100 * ReliefDen) * p
  BY <1>2, <1>5, <1>11
<1>13. 0 <= p /\ p <= SmallUpper => Left(p) = (100 * ReliefDen) * p - (SmallRate * ReliefDen) * p
  BY <1>1, <1>2, <1>3, <1>5, <1>9, <1>11
<1>14. SmallUpper <= p /\ p <= MainLower => BandedTax(p) = main - relief
  BY <1>1, <1>2, <1>3, <1>5, <1>7, <1>9
<1>15. MainLower <= p => BandedTax(p) = main
  BY <1>1, <1>2, <1>3, <1>5, <1>7, <1>8, <1>9
<1> QED BY <1>2, <1>3, <1>4, <1>6, <1>10, <1>11, <1>12, <1>13, <1>14, <1>15

\* Two profits on one stretch of the curve.
Same(a, b) == \/ b <= 0
              \/ 0 <= a /\ b <= SmallUpper
              \/ SmallUpper <= a /\ b <= MainLower
              \/ MainLower <= a

\* On one stretch of the curve, and then across the ends of the stretches, a
\* larger profit leaves no less.
LEMMA LeftMonotone ==
  ASSUME NEW q \in Int, NEW p \in Int, q <= p
  PROVE  Left(q) <= Left(p)
<1>1. SmallUpper \in Nat /\ MainLower \in Nat /\ SmallUpper <= MainLower
  BY TaxSlopes
<1>2. ASSUME NEW a \in Int, NEW b \in Int, a <= b, Same(a, b)
      PROVE  Left(a) <= Left(b)
  <2> DEFINE D == 100 * ReliefDen
             small == SmallRate * ReliefDen
             steep == MainRate * ReliefDen + 100 * ReliefNum
             main == MainRate * ReliefDen
             shift == (100 * ReliefNum) * MainLower
  <2>1. /\ D \in Nat /\ small \in Nat /\ steep \in Nat /\ main \in Nat /\ shift \in Nat
        /\ small <= D /\ steep <= D /\ main <= D
    BY TaxSlopes
  <2>2. /\ D * a - small * a <= D * b - small * b
        /\ D * a - steep * a <= D * b - steep * b
        /\ D * a - main * a <= D * b - main * b
        /\ D * a - 0 * a <= D * b - 0 * b
    <3> HIDE DEF D, small, steep, main
    <3> QED BY <1>2, <2>1, SlopeMonotone
  <2>3. CASE b <= 0
    <3>1. Left(a) = D * a /\ Left(b) = D * b
      BY <1>2, <2>3, TaxCurve
    <3> HIDE DEF D
    <3> QED BY <2>1, <2>2, <3>1
  <2>4. CASE 0 <= a /\ b <= SmallUpper
    <3>1. Left(a) = D * a - small * a /\ Left(b) = D * b - small * b
      BY <1>1, <1>2, <2>4, TaxCurve
    <3> QED BY <2>2, <3>1
  <2>5. CASE SmallUpper <= a /\ b <= MainLower
    <3>1. Left(a) = D * a - steep * a + shift /\ Left(b) = D * b - steep * b + shift
      BY <1>1, <1>2, <2>5, TaxCurve
    <3>2. D * a \in Int /\ D * b \in Int /\ steep * a \in Int /\ steep * b \in Int
      BY <2>1
    <3> HIDE DEF D, steep, shift
    <3> QED BY <2>1, <2>2, <3>1, <3>2
  <2>6. CASE MainLower <= a
    <3>1. Left(a) = D * a - main * a /\ Left(b) = D * b - main * b
      BY <1>1, <1>2, <2>6, TaxCurve
    <3> QED BY <2>2, <3>1
  <2> QED BY <1>2, <2>3, <2>4, <2>5, <2>6 DEF Same
<1>3. \A a \in Int : Left(a) \in Int
  BY TaxCurve
<1>5. ASSUME NEW a \in Int, a <= MainLower PROVE Left(a) <= Left(MainLower)
  <2>1. CASE SmallUpper <= a
    BY <1>1, <1>2, <1>5, <2>1 DEF Same
  <2>2. Left(SmallUpper) <= Left(MainLower)
    BY <1>1, <1>2 DEF Same
  <2>3. CASE 0 <= a /\ a <= SmallUpper
    <3>1. Left(a) <= Left(SmallUpper)
      BY <1>1, <1>2, <2>3 DEF Same
    <3> QED BY <1>1, <1>3, <2>2, <3>1
  <2>4. CASE a <= 0
    <3>1. Left(a) <= Left(0) /\ Left(0) <= Left(SmallUpper)
      BY <1>1, <1>2, <2>4 DEF Same
    <3> QED BY <1>1, <1>3, <2>2, <3>1
  <2> QED BY <1>1, <2>1, <2>3, <2>4
<1>6. ASSUME NEW a \in Int, a <= SmallUpper PROVE Left(a) <= Left(SmallUpper)
  <2>1. CASE 0 <= a
    BY <1>1, <1>2, <1>6, <2>1 DEF Same
  <2>2. CASE a <= 0
    <3>1. Left(a) <= Left(0) /\ Left(0) <= Left(SmallUpper)
      BY <1>1, <1>2, <2>2 DEF Same
    <3> QED BY <1>1, <1>3, <3>1
  <2> QED BY <2>1, <2>2
<1>7. CASE MainLower <= p
  <2>1. CASE MainLower <= q
    BY <1>2, <2>1 DEF Same
  <2>2. CASE q <= MainLower
    <3>1. Left(q) <= Left(MainLower) /\ Left(MainLower) <= Left(p)
      BY <1>1, <1>2, <1>5, <1>7, <2>2 DEF Same
    <3> QED BY <1>1, <1>3, <3>1
  <2> QED BY <1>1, <2>1, <2>2
<1>8. CASE SmallUpper <= p /\ p <= MainLower
  <2>1. CASE SmallUpper <= q
    BY <1>2, <1>8, <2>1 DEF Same
  <2>2. CASE q <= SmallUpper
    <3>1. Left(q) <= Left(SmallUpper) /\ Left(SmallUpper) <= Left(p)
      BY <1>1, <1>2, <1>6, <1>8, <2>2 DEF Same
    <3> QED BY <1>1, <1>3, <3>1
  <2> QED BY <1>1, <2>1, <2>2
<1>9. CASE p <= SmallUpper
  <2>1. CASE 0 <= q
    <3>1. Same(q, p)
      BY <1>9, <2>1 DEF Same
    <3> QED BY <1>2, <3>1
  <2>2. CASE q <= 0 /\ 0 <= p
    <3>1. Left(q) <= Left(0) /\ Left(0) <= Left(p)
      BY <1>1, <1>2, <1>9, <2>2 DEF Same
    <3> QED BY <1>3, <3>1
  <2>3. CASE p <= 0
    <3>1. Same(q, p)
      BY <2>3 DEF Same
    <3> QED BY <1>2, <3>1
  <2> QED BY <2>1, <2>2, <2>3
<1> QED BY <1>1, <1>7, <1>8, <1>9

\* The same of the rounded tax: no profit is worth less than a smaller one.
LEMMA RetainedMonotone ==
  ASSUME NEW q \in Int, NEW p \in Int, q <= p
  PROVE  Retained(q) <= Retained(p)
<1> DEFINE D == 100 * ReliefDen
<1>1. D \in Nat \ {0} /\ BandedTax(q) \in Int /\ BandedTax(p) \in Int
  BY TaxSlopes, TaxCurve
<1>2. Left(q) <= Left(p)
  BY LeftMonotone
<1>3. D * q - BandedTax(q) <= D * p - BandedTax(p)
  BY <1>2 DEF Left
<1> HIDE DEF D
<1>4. BandedTax(p) <= BandedTax(q) + D * (p - q)
  <2>1. D * (p - q) = D * p - D * q /\ D * p \in Int /\ D * q \in Int
    BY <1>1
  <2> QED BY <1>1, <1>3, <2>1
<1>5. Quot(BandedTax(p), D) <= Quot(BandedTax(q) + D * (p - q), D)
  BY <1>1, <1>4, QuotMonotone
<1>6. Quot(BandedTax(q) + D * (p - q), D) = Quot(BandedTax(q), D) + (p - q)
  <2> DEFINE a == 2 * BandedTax(q) + D
  <2>1. 2 * (BandedTax(q) + D * (p - q)) + D = a + (2 * D) * (p - q)
    BY <1>1
  <2>2. a \in Int /\ 2 * D \in Nat \ {0} /\ p - q \in Int
    BY <1>1
  <2> HIDE DEF a
  <2>3. ASSUME NEW x \in Int, NEW d \in Nat \ {0}, NEW k \in Int
        PROVE  (x + d * k) \div d = x \div d + k
    OBVIOUS
  <2>4. (a + (2 * D) * (p - q)) \div (2 * D) = a \div (2 * D) + (p - q)
    BY <2>2, <2>3
  <2> QED BY <2>1, <2>4 DEF Quot, a
<1>7. Quot(BandedTax(p), D) \in Int /\ Quot(BandedTax(q), D) \in Int
  BY <1>1, QuotType
<1> QED BY <1>5, <1>6, <1>7 DEF Retained, CorporationTax, Max0, D

\* Corporation tax is never below zero.
LEMMA CorporationTaxNatural ==
  ASSUME NEW p \in Int
  PROVE  CorporationTax(p) \in Nat
<1> DEFINE D == 100 * ReliefDen
           small == SmallRate * ReliefDen
           steep == MainRate * ReliefDen + 100 * ReliefNum
           main == MainRate * ReliefDen
           shift == (100 * ReliefNum) * MainLower
<1>1. /\ D \in Nat \ {0} /\ small \in Nat /\ steep \in Nat /\ main \in Nat /\ shift \in Nat
      /\ SmallUpper \in Nat /\ MainLower \in Nat /\ SmallUpper <= MainLower
  BY TaxSlopes
<1>2. \A x \in Int :
        /\ BandedTax(x) \in Int /\ BandedTax(x) = D * x - Left(x) /\ Left(x) \in Int
        /\ x <= 0 => Left(x) = D * x
        /\ 0 <= x /\ x <= SmallUpper => Left(x) = D * x - small * x
        /\ SmallUpper <= x /\ x <= MainLower => Left(x) = D * x - steep * x + shift
        /\ MainLower <= x => Left(x) = D * x - main * x
  <2> SUFFICES ASSUME NEW x \in Int
               PROVE  /\ BandedTax(x) \in Int /\ BandedTax(x) = D * x - Left(x) /\ Left(x) \in Int
                      /\ x <= 0 => Left(x) = D * x
                      /\ 0 <= x /\ x <= SmallUpper => Left(x) = D * x - small * x
                      /\ SmallUpper <= x /\ x <= MainLower =>
                           Left(x) = D * x - steep * x + shift
                      /\ MainLower <= x => Left(x) = D * x - main * x
    OBVIOUS
  <2>1. BandedTax(x) \in Int /\ D * x \in Int /\ Left(x) = D * x - BandedTax(x)
    <3>1. BandedTax(x) \in Int
      BY TaxCurve
    <3>2. Left(x) = D * x - BandedTax(x)
      BY DEF Left
    <3> HIDE DEF D
    <3> QED BY <1>1, <3>1, <3>2
  <2>2. BandedTax(x) = D * x - Left(x) /\ Left(x) \in Int
    <3> HIDE DEF D
    <3> QED BY <2>1
  <2> QED BY <2>1, <2>2, TaxCurve
<1>3. /\ D * p \in Int /\ small * p \in Int /\ steep * p \in Int /\ main * p \in Int
      /\ small * SmallUpper \in Nat /\ steep * SmallUpper \in Int /\ D * SmallUpper \in Int
  BY <1>1
<1>4. BandedTax(p) \in Nat
  <2> HIDE DEF D, small, steep, main, shift
  <2>1. CASE p <= 0
    BY <1>2, <1>3, <2>1
  <2>2. CASE 0 <= p /\ p <= SmallUpper
    <3>1. small * p \in Nat
      BY <1>1, <2>2
    <3> QED BY <1>2, <1>3, <2>2, <3>1
  <2>3. CASE SmallUpper <= p /\ p <= MainLower
    <3>1. steep * SmallUpper <= steep * p
      BY <1>1, <2>3
    <3>2. steep * SmallUpper - shift = small * SmallUpper
      <4>1. Left(SmallUpper) = D * SmallUpper - small * SmallUpper
        BY <1>1, <1>2
      <4>2. Left(SmallUpper) = D * SmallUpper - steep * SmallUpper + shift
        BY <1>1, <1>2
      <4> QED BY <1>1, <1>3, <4>1, <4>2
    <3>3. BandedTax(p) = steep * p - shift
      BY <1>1, <1>2, <1>3, <2>3
    <3> QED BY <1>1, <1>3, <3>1, <3>2, <3>3
  <2>4. CASE MainLower <= p
    <3>1. main * p \in Nat
      BY <1>1, <2>4
    <3> QED BY <1>2, <1>3, <2>4, <3>1
  <2> QED BY <1>1, <2>1, <2>2, <2>3, <2>4
<1> QED BY <1>1, <1>4, QuotNatural DEF CorporationTax

-----------------------------------------------------------------------------
(* Income tax                                                              *)

\* What a band of income tax takes of a profit lowered by its interest is no
\* more than what it takes of the profit less the credit.
LEMMA CreditBelowDeduction ==
  ASSUME NEW p \in Int, NEW yearly \in Nat,
         NEW b \in {"BASIC_RATE", "HIGHER_RATE", "ADDITIONAL_RATE"}
  PROVE  Quot(IncomeTax(p - yearly, b), 100) <= Credited(IncomeTax(p, b), yearly * CreditRate)
<1> DEFINE r == IncomeTaxRate(b)
<1>1. r \in {20, 40, 45}
  BY DEF IncomeTaxRate
<1> HIDE DEF r
<1>2. IncomeTax(p - yearly, b) = Max0(p - yearly) * r /\ IncomeTax(p, b) = Max0(p) * r
  BY DEF IncomeTax, r
<1>3. Max0(p - yearly) \in Nat /\ Max0(p) \in Nat
  BY DEF Max0
<1>4. Max0(p - yearly) * r \in Int /\ Max0(p) * r \in Int /\ yearly * 20 \in Int
  BY <1>1, <1>3
<1>5. CASE p - yearly <= 0
  <2>1. Max0(p - yearly) * r = 0
    BY <1>1, <1>5 DEF Max0
  <2>2. Quot(0, 100) = 0
    BY DEF Quot
  <2>3. Quot(Max0(p) * r - yearly * 20, 100) \in Int
    BY <1>4, QuotType
  <2> QED BY <1>2, <2>1, <2>2, <2>3 DEF Credited, CreditRate, Max0
<1>6. CASE p - yearly > 0
  <2>1. Max0(p - yearly) = p - yearly /\ Max0(p) = p
    BY <1>6 DEF Max0
  <2>2. (p - yearly) * r <= p * r - yearly * 20
    BY <1>1
  <2>3. Quot((p - yearly) * r, 100) <= Quot(p * r - yearly * 20, 100)
    BY <1>4, <2>1, <2>2, QuotMonotone
  <2>4. Quot(p * r - yearly * 20, 100) \in Int /\ Quot((p - yearly) * r, 100) \in Int
    BY <1>4, <2>1, QuotType
  <2>5. Quot(p * r - yearly * 20, 100) <= Max0(Quot(p * r - yearly * 20, 100))
    BY <2>4 DEF Max0
  <2>6. Max0(Quot(p * r - yearly * 20, 100)) \in Int
    BY <2>4 DEF Max0
  <2> QED BY <1>2, <2>1, <2>3, <2>4, <2>5, <2>6 DEF Credited, CreditRate
<1> QED BY <1>5, <1>6

-----------------------------------------------------------------------------
(* Inputs                                                                  *)

LEMMA EnumeratedNames ==
  /\ DOMAIN EnumeratedInputs = {"mortgage_type", "ownership_structure", "income_tax_band",
                                "is_additional_dwelling", "tenure"}
  /\ EnumeratedInputs["ownership_structure"] = OwnershipStructure
  /\ EnumeratedInputs["mortgage_type"] = {"INTEREST_ONLY", "REPAYMENT"}
  /\ EnumeratedInputs["income_tax_band"]
       = {"BASIC_RATE", "HIGHER_RATE", "ADDITIONAL_RATE", None}
BY DEF EnumeratedInputs

\* The numbers of an engine input, one by one.
LEMMA InputNumbers ==
  ASSUME NEW i, EngineInput(i)
  PROVE  /\ i.purchase_price \in Int /\ i.monthly_rent \in Int /\ i.deposit_amount \in Int
         /\ i.mortgage_interest_rate \in Int /\ i.mortgage_term_years \in Int
         /\ i.void_rate_percent \in Int /\ i.letting_agent_fee_percent \in Int
         /\ i.maintenance_reserve_percent \in Int /\ i.landlord_insurance_annual \in Int
         /\ i.purchase_legal_costs \in Int /\ i.refurbishment_cost \in Int
         /\ i.annual_service_charge \in Int /\ i.annual_ground_rent \in Int
         /\ i.annual_accountancy_cost \in Int
         /\ i.ownership_structure \in OwnershipStructure
         /\ i.mortgage_type \in {"INTEREST_ONLY", "REPAYMENT"}
         /\ i.income_tax_band \in {"BASIC_RATE", "HIGHER_RATE", "ADDITIONAL_RATE", None}
<1>1. \A f \in NumericInputs : i[f] \in Int
  BY DEF EngineInput
<1>2. \A f \in DOMAIN EnumeratedInputs : i[f] \in EnumeratedInputs[f]
  BY DEF EngineInput
<1> QED BY <1>1, <1>2, EnumeratedNames DEF NumericInputs, MoneyInputs, PercentInputs

\* Every default is a number.
LEMMA DefaultType ==
  ASSUME NEW f \in OptionalInputs, NEW ownership
  PROVE  Default(f, ownership) \in Int
BY ConfigurationAssumption DEF Default, OptionalInputs

LEMMA ResolvedType ==
  ASSUME NEW r \in RawInputs
  PROVE  EngineInput(Resolved(r))
<1>1. /\ DOMAIN r = NumericInputs \cup DOMAIN EnumeratedInputs \cup {"lease_years_remaining"}
      /\ \A f \in NumericInputs : r[f] \in Int \/ (f \in OptionalInputs /\ r[f] = None)
      /\ \A f \in DOMAIN EnumeratedInputs : r[f] \in EnumeratedInputs[f]
  BY RequestAssumption
<1>2. DOMAIN Resolved(r) = DOMAIN r
  BY DEF Resolved
<1>3. \A f \in DOMAIN r : Resolved(r)[f] = IF f \in OptionalInputs /\ r[f] = None
                                          THEN Default(f, r.ownership_structure)
                                          ELSE r[f]
  BY DEF Resolved
<1>4. \A f \in NumericInputs : Resolved(r)[f] \in Int
  BY <1>1, <1>3, DefaultType, NoneAssumption
<1>5. \A f \in DOMAIN EnumeratedInputs : Resolved(r)[f] \in EnumeratedInputs[f]
  BY <1>1, <1>3, EnumeratedNames DEF OptionalInputs
<1> QED BY <1>1, <1>2, <1>4, <1>5 DEF EngineInput

\* A row's inputs are an engine input again.
LEMMA RowType ==
  ASSUME NEW i, EngineInput(i)
  PROVE  EngineInput(InputsRow(i))
<1>1. /\ DOMAIN i = NumericInputs \cup DOMAIN EnumeratedInputs \cup {"lease_years_remaining"}
      /\ \A f \in NumericInputs : i[f] \in Int
      /\ \A f \in DOMAIN EnumeratedInputs : i[f] \in EnumeratedInputs[f]
  BY DEF EngineInput
<1>2. DOMAIN InputsRow(i) = DOMAIN i
  BY DEF InputsRow
<1>3. \A f \in DOMAIN i : InputsRow(i)[f] \in {Column(i[f]), RateColumn(i[f]), i[f]}
  BY DEF InputsRow
<1>4. \A f \in NumericInputs : InputsRow(i)[f] \in Int
  BY <1>1, <1>3, ColumnType, RateColumnType
<1>5. \A f \in DOMAIN EnumeratedInputs : InputsRow(i)[f] \in EnumeratedInputs[f]
  <2>1. \A f \in DOMAIN EnumeratedInputs : f \notin MoneyInputs /\ f # "mortgage_interest_rate"
    BY EnumeratedNames DEF MoneyInputs
  <2>2. \A f \in DOMAIN EnumeratedInputs : InputsRow(i)[f] = i[f]
    BY <1>1, <2>1 DEF InputsRow
  <2> QED BY <1>1, <2>2
<1> QED BY <1>1, <1>2, <1>4, <1>5 DEF EngineInput

\* Writing a row's inputs again changes nothing.
LEMMA RowTwice ==
  ASSUME NEW i, EngineInput(i)
  PROVE  InputsRow(InputsRow(i)) = InputsRow(i)
<1>1. DOMAIN InputsRow(i) = DOMAIN i
  BY DEF InputsRow
<1> DEFINE kept(f, v) == CASE f \in MoneyInputs -> Column(v)
                           [] f = "mortgage_interest_rate" -> RateColumn(v)
                           [] OTHER -> v
<1>2. \A f \in DOMAIN i : InputsRow(i)[f] = kept(f, i[f])
  BY DEF InputsRow
<1>3. \A f \in MoneyInputs \cup {"mortgage_interest_rate"} : f \in DOMAIN i /\ i[f] \in Int
  BY DEF EngineInput, NumericInputs, PercentInputs
<1>4. \A f \in DOMAIN i : kept(f, InputsRow(i)[f]) = InputsRow(i)[f]
  <2> SUFFICES ASSUME NEW f \in DOMAIN i PROVE kept(f, kept(f, i[f])) = kept(f, i[f])
    BY <1>2
  <2>1. "mortgage_interest_rate" \notin MoneyInputs
    BY DEF MoneyInputs
  <2>2. CASE f \in MoneyInputs
    BY <1>3, <2>2, ColumnTwice
  <2>3. CASE f = "mortgage_interest_rate"
    BY <1>3, <2>1, <2>3, ColumnTwice
  <2>4. CASE f \notin MoneyInputs /\ f # "mortgage_interest_rate"
    BY <2>4
  <2> QED BY <2>2, <2>3, <2>4
<1>5. InputsRow(InputsRow(i)) = [f \in DOMAIN i |-> InputsRow(i)[f]]
  BY <1>1, <1>4 DEF InputsRow
<1>6. InputsRow(i) = [f \in DOMAIN i |-> InputsRow(i)[f]]
  BY <1>1 DEF InputsRow
<1> QED BY <1>5, <1>6

Valid(i) == run_validation(i).is_valid

\* What the rules leave: no hard rule holds.
LEMMA RulesHold ==
  ASSUME NEW i, Valid(i)
  PROVE  /\ ~ (i.purchase_price <= 0) /\ ~ (i.monthly_rent <= 0) /\ ~ (i.deposit_amount <= 0)
         /\ ~ (i.deposit_amount >= i.purchase_price)
         /\ ~ (i.purchase_price > 0 /\ i.deposit_amount < Quot(15 * i.purchase_price, 100))
         /\ ~ (i.mortgage_interest_rate < 0)
         /\ i.mortgage_term_years \in 5 .. 35
         /\ ~ (i.ownership_structure = "INDIVIDUAL" /\ i.income_tax_band = None)
         /\ ~ (i.void_rate_percent < 0 \/ i.void_rate_percent > 100)
<1>1. /\ \A code \in DOMAIN PurchaseErrors(i) : ~ PurchaseErrors(i)[code]
      /\ \A code \in DOMAIN SettingErrors(i) : ~ SettingErrors(i)[code]
  BY DEF Valid, run_validation, Fired
<1>2. /\ {"V01", "V04", "V05", "V06", "V07", "V09", "V13"} \subseteq DOMAIN PurchaseErrors(i)
      /\ {"V17", "V18"} \subseteq DOMAIN SettingErrors(i)
  BY DEF PurchaseErrors, SettingErrors
<1>3. /\ ~ PurchaseErrors(i).V01 /\ ~ PurchaseErrors(i).V04 /\ ~ PurchaseErrors(i).V05
      /\ ~ PurchaseErrors(i).V06 /\ ~ PurchaseErrors(i).V07 /\ ~ PurchaseErrors(i).V09
      /\ ~ PurchaseErrors(i).V13
  BY <1>1, <1>2
<1>4. ~ SettingErrors(i).V17 /\ ~ SettingErrors(i).V18
  BY <1>1, <1>2
<1> QED BY <1>3, <1>4 DEF PurchaseErrors, SettingErrors

-----------------------------------------------------------------------------
(* The pipeline                                                            *)

Passed == {"validated", "repaying", "banding", "error", "computed", "refused", "stored"}
Financed == Passed \ {"validated", "error"}
Counted == Financed \ {"repaying", "banding"}

\* From the defaults on, the input is one of the engine's; from the rules on,
\* no hard rule holds of it and its warnings are kept.
InputInv ==
  /\ pc # "requested" => EngineInput(input)
  /\ pc \in Passed => Valid(input) /\ warnings = run_validation(input).warnings

\* The power (1 + r)^n has so many digits that the annuity may fall short.
LongPower(i) == i.mortgage_interest_rate * i.mortgage_term_years >= 1800 * RateScale

\* F-08: a payment that covers the interest of the whole loan lets no month add
\* to the debt, and only one that a long power made too small does not cover it.
LoopInv ==
  /\ pc = "repaying" => HasLoop(input)
  /\ pc \in Financed /\ HasLoop(input) =>
       /\ PaymentShort => LongPower(input)
       /\ (LoanOf(input) - balance) + interest = month * payment
       /\ ~ PaymentShort => balance <= LoanOf(input)

\* F-13: the bands gone through.
BandInv ==
  /\ pc \in {"repaying", "banding"} =>
       taxed = (IF band = 1 THEN 0 ELSE BelowBand(input.purchase_price, band))
  /\ pc \in Counted => taxed = input.purchase_price

\* There are figures from the computation to the next reproduction.
FiguresInv ==
  Computed => /\ pc \in {"computed", "refused", "stored"}
              /\ figures = Calculated(input, payment, interest, base)

\* The rows, and where the input of a reproduction comes from.
RowsInv ==
  /\ rows \in Seq({rows[k] : k \in 1 .. Len(rows)})
  /\ \A k \in 1 .. Len(rows) : EngineInput(rows[k].inputs)
  /\ pc # "stored" => Len(rows) < Copies

AnalysisInv ==
  /\ TypeOK
  /\ pc = "repaying" => month < 12
  /\ InputInv /\ LoopInv /\ BandInv /\ FiguresInv /\ RowsInv

\* The stamp duty bands one by one.
LEMMA BandEnds ==
  ASSUME NEW b \in 1 .. Len(Bands)
  PROVE  /\ Len(Bands) \in Nat \ {0}
         /\ Bands[b].lower \in Nat /\ Bands[b].rate \in Nat
         /\ b = 1 => Bands[b].lower = 0
         /\ b = Len(Bands) => Bands[b].upper = None
         /\ b < Len(Bands) => /\ Bands[b].upper = Bands[b + 1].lower
                              /\ Bands[b].upper \in Nat
                              /\ Bands[b].lower < Bands[b].upper
                              /\ Bands[b].upper # None
<1> DEFINE S == [lower : Nat, upper : Nat \cup {None}, rate : Nat]
<1>1. Bands \in Seq(S) /\ Len(Bands) > 0
  BY BandsAssumption
<1>2. \A c \in 1 .. Len(Bands) : Bands[c] \in S
  <2> HIDE DEF S
  <2> QED BY <1>1
<1>3. Len(Bands) \in Nat
  <2> HIDE DEF S
  <2> QED BY <1>1
<1>4. \A c \in 1 .. Len(Bands) : /\ Bands[c].lower \in Nat /\ Bands[c].rate \in Nat
                                /\ Bands[c].upper \in Nat \cup {None}
  BY <1>2
<1>5. CASE b < Len(Bands)
  <2>1. b \in 1 .. Len(Bands) - 1 /\ b + 1 \in 1 .. Len(Bands)
    BY <1>3, <1>5
  <2>2. Bands[b].upper = Bands[b + 1].lower /\ Bands[b].lower < Bands[b + 1].lower
    BY <2>1, BandsAssumption
  <2>3. Bands[b + 1].lower \in Nat /\ None \notin Nat
    BY <1>4, <2>1, NoneAssumption
  <2> QED BY <1>1, <1>3, <1>4, <1>5, <2>2, <2>3, BandsAssumption
<1>6. CASE ~ (b < Len(Bands))
  BY <1>1, <1>3, <1>4, <1>6, BandsAssumption
<1> QED BY <1>5, <1>6

LEMMA InitAnalysis == Init => AnalysisInv
<1> SUFFICES ASSUME Init PROVE AnalysisInv
  OBVIOUS
<1>1. TypeOK
  BY BandsAssumption, ConfigurationAssumption DEF Init, TypeOK, Stages
<1>2. InputInv /\ LoopInv /\ BandInv
  BY DEF Init, InputInv, LoopInv, BandInv, Passed, Financed, Counted
<1>3. FiguresInv
  BY DEF Init, FiguresInv, Computed
<1>4. RowsInv
  BY ConfigurationAssumption DEF Init, RowsInv
<1> QED BY <1>1, <1>2, <1>3, <1>4 DEF Init, AnalysisInv

LEMMA ResolveStep ==
  ASSUME AnalysisInv, resolve_defaults
  PROVE  AnalysisInv'
<1> USE DEF AnalysisInv
<1>1. /\ pc = "requested" /\ pc' = "resolved" /\ input' = Resolved(raw)
      /\ UNCHANGED <<raw, warnings, payment, month, balance, interest, band, taxed, base,
                     figures, rows>>
  BY DEF resolve_defaults, loop, bands
<1>2. TypeOK'
  BY <1>1 DEF TypeOK, Stages
<1>3. InputInv'
  BY <1>1, ResolvedType DEF InputInv, Passed, TypeOK
<1>4. LoopInv' /\ BandInv'
  BY <1>1 DEF LoopInv, BandInv, Passed, Financed, Counted
<1>5. FiguresInv' /\ RowsInv'
  BY <1>1 DEF FiguresInv, Computed, RowsInv
<1> QED BY <1>1, <1>2, <1>3, <1>4, <1>5

LEMMA ValidateStep ==
  ASSUME AnalysisInv, Validate
  PROVE  AnalysisInv'
<1> USE DEF AnalysisInv
<1>1. /\ pc = "resolved" /\ warnings' = run_validation(input).warnings
      /\ pc' = IF run_validation(input).is_valid THEN "validated" ELSE "rejected"
      /\ UNCHANGED <<raw, input, payment, month, balance, interest, band, taxed, base,
                     figures, rows>>
  BY DEF Validate, loop, bands
<1>2. TypeOK'
  BY <1>1 DEF TypeOK, Stages
<1>3. InputInv'
  BY <1>1 DEF InputInv, Passed, Valid
<1>4. LoopInv' /\ BandInv'
  BY <1>1 DEF LoopInv, BandInv, Passed, Financed, Counted
<1>5. FiguresInv' /\ RowsInv'
  BY <1>1 DEF FiguresInv, Computed, RowsInv
<1> QED BY <1>1, <1>2, <1>3, <1>4, <1>5

\* The loan of an input that passed the rules, and its payments.
LEMMA PaymentRange ==
  ASSUME NEW i, EngineInput(i), Valid(i),
         NEW x \in f06_monthly_mortgage_payments(LoanOf(i), i.mortgage_interest_rate,
                     i.mortgage_term_years, i.mortgage_type)
  PROVE  /\ x \in Nat /\ LoanOf(i) \in Nat /\ i.mortgage_interest_rate \in Nat
         /\ HasLoop(i) /\ ~ LongPower(i) =>
              MonthlyInterest(LoanOf(i), i.mortgage_interest_rate) <= x
<1> DEFINE first == MonthlyInterest(LoanOf(i), i.mortgage_interest_rate)
           error == AnnuityError(first, i.mortgage_interest_rate, i.mortgage_term_years)
           lower == Max0(first - error)
           upper == first + Quot(2 * LoanOf(i), 12 * i.mortgage_term_years) + 1 + error
<1>1. /\ i.purchase_price \in Int /\ i.deposit_amount \in Int
      /\ i.mortgage_interest_rate \in Nat /\ i.mortgage_term_years \in 5 .. 35
      /\ i.deposit_amount < i.purchase_price
      /\ i.mortgage_type \in {"INTEREST_ONLY", "REPAYMENT"}
  BY InputNumbers, RulesHold
<1>2. LoanOf(i) \in Nat
  BY <1>1 DEF LoanOf, f04_loan_amount
<1>3. first \in Nat
  <2>1. LoanOf(i) * i.mortgage_interest_rate \in Nat
    BY <1>1, <1>2
  <2> QED BY <2>1, QuotNatural, RateAssumption DEF MonthlyInterest
<1>4. error \in Int /\ (~ LongPower(i) => error = 0)
  <2>1. 20 * first \in Int /\ Parts \in Nat \ {0}
    BY <1>3, PartsAssumption
  <2>2. Quot(20 * first, Parts) \in Int
    BY <2>1, QuotType
  <2>3. /\ i.mortgage_interest_rate * i.mortgage_term_years \in Int
        /\ 1800 * RateScale \in Int
    BY <1>1, RateAssumption
  <2> HIDE DEF first
  <2> QED BY <2>2, <2>3 DEF AnnuityError, LongPower
<1>5. upper \in Int /\ lower \in Nat /\ (~ LongPower(i) => lower = first)
  <2>1. 12 * i.mortgage_term_years \in Nat \ {0} /\ 2 * LoanOf(i) \in Int
    BY <1>1, <1>2
  <2>2. Quot(2 * LoanOf(i), 12 * i.mortgage_term_years) \in Int
    BY <2>1, QuotType
  <2> HIDE DEF first, error
  <2> QED BY <1>3, <1>4, <2>2 DEF Max0
<1>6. x = 0 \/ x = first \/ x \in lower .. upper
  BY DEF f06_monthly_mortgage_payments
<1>7. HasLoop(i) => x \in lower .. upper
  BY DEF f06_monthly_mortgage_payments, HasLoop
<1> HIDE DEF first, error, lower, upper
<1>8. x \in Nat /\ (HasLoop(i) /\ ~ LongPower(i) => first <= x)
  BY <1>3, <1>5, <1>6, <1>7
<1> QED BY <1>1, <1>2, <1>8 DEF first

LEMMA FinanceStep ==
  ASSUME AnalysisInv, Finance
  PROVE  AnalysisInv'
<1> USE DEF AnalysisInv
<1>1. /\ pc = "validated"
      /\ payment' \in f06_monthly_mortgage_payments(LoanOf(input), input.mortgage_interest_rate,
                        input.mortgage_term_years, input.mortgage_type)
      /\ month' = 0 /\ balance' = LoanOf(input) /\ interest' = 0
      /\ band' = 1 /\ taxed' = 0 /\ base' = 0
      /\ pc' = IF HasLoop(input) THEN "repaying" ELSE "banding"
      /\ UNCHANGED <<raw, input, warnings, figures, rows>>
  BY DEF Finance
<1>2. EngineInput(input) /\ Valid(input)
  BY <1>1 DEF InputInv, Passed
<1>3. /\ payment' \in Nat /\ LoanOf(input) \in Nat
      /\ HasLoop(input) /\ ~ LongPower(input) =>
           MonthlyInterest(LoanOf(input), input.mortgage_interest_rate) <= payment'
      /\ MonthlyInterest(LoanOf(input), input.mortgage_interest_rate) \in Int
  <2>1. LoanOf(input) \in Nat /\ input.mortgage_interest_rate \in Nat
    BY <1>1, <1>2, PaymentRange
  <2>2. LoanOf(input) * input.mortgage_interest_rate \in Int
    BY <2>1
  <2>3. MonthlyInterest(LoanOf(input), input.mortgage_interest_rate) \in Int
    BY <2>2, QuotType, RateAssumption DEF MonthlyInterest
  <2> QED BY <1>1, <1>2, <2>3, PaymentRange
<1>4. TypeOK'
  BY <1>1, <1>3, BandsAssumption DEF TypeOK, Stages
<1>5. InputInv'
  BY <1>1, <1>2 DEF InputInv, Passed
<1>6. LoopInv'
  <2>1. input' = input /\ LoanOf(input)' = LoanOf(input) /\ HasLoop(input)' = HasLoop(input)
    BY <1>1
  <2>2. HasLoop(input) => (PaymentShort' => LongPower(input))
    BY <1>1, <1>3 DEF PaymentShort
  <2>3. (LoanOf(input) - balance') + interest' = month' * payment' /\ balance' <= LoanOf(input)
    BY <1>1, <1>3
  <2> QED BY <1>1, <2>2, <2>3 DEF LoopInv
<1>7. BandInv'
  BY <1>1 DEF BandInv, Passed, Financed, Counted
<1>8. FiguresInv' /\ RowsInv'
  BY <1>1 DEF FiguresInv, Computed, RowsInv
<1> QED BY <1>1, <1>4, <1>5, <1>6, <1>7, <1>8

LEMMA FinanceFailsStep ==
  ASSUME AnalysisInv, FinanceFails
  PROVE  AnalysisInv'
<1> USE DEF AnalysisInv
<1>1. /\ pc = "validated" /\ pc' = "error"
      /\ UNCHANGED <<raw, input, warnings, payment, month, balance, interest, band, taxed,
                     base, figures, rows>>
  BY DEF FinanceFails, loop, bands
<1>2. TypeOK' /\ InputInv'
  BY <1>1 DEF TypeOK, Stages, InputInv, Passed
<1>3. LoopInv' /\ BandInv'
  BY <1>1 DEF LoopInv, BandInv, Passed, Financed, Counted
<1>4. FiguresInv' /\ RowsInv'
  BY <1>1 DEF FiguresInv, Computed, RowsInv
<1> QED BY <1>1, <1>2, <1>3, <1>4

LEMMA RepayStep ==
  ASSUME AnalysisInv, RepayMonth
  PROVE  AnalysisInv'
<1> USE DEF AnalysisInv
<1> DEFINE monthly == MonthlyInterest(balance, input.mortgage_interest_rate)
           first == MonthlyInterest(LoanOf(input), input.mortgage_interest_rate)
<1>1. /\ pc = "repaying" /\ interest' = interest + monthly
      /\ balance' = balance - (payment - monthly) /\ month' = month + 1
      /\ pc' = IF month' = 12 THEN "banding" ELSE "repaying"
      /\ UNCHANGED <<raw, input, warnings, payment, band, taxed, base, figures, rows>>
  BY DEF RepayMonth, bands
<1>2. EngineInput(input) /\ Valid(input)
  BY <1>1 DEF InputInv, Passed
<1>3. LoanOf(input) \in Int /\ input.mortgage_interest_rate \in Nat
  BY <1>2, InputNumbers, RulesHold DEF LoanOf, f04_loan_amount
<1>4. payment \in Nat /\ interest \in Int /\ balance \in Int /\ month \in 0 .. 11
  BY <1>1 DEF TypeOK
<1>5. monthly \in Int /\ first \in Int
  <2>1. /\ balance * input.mortgage_interest_rate \in Int
        /\ LoanOf(input) * input.mortgage_interest_rate \in Int
    BY <1>3, <1>4
  <2> QED BY <2>1, QuotType, RateAssumption DEF MonthlyInterest
<1>6. TypeOK'
  <2> HIDE DEF monthly, first
  <2>1. interest' \in Int /\ balance' \in Int /\ month' \in 0 .. 12
    BY <1>1, <1>4, <1>5
  <2> QED BY <1>1, <2>1 DEF TypeOK, Stages
<1>7. InputInv'
  BY <1>1, <1>2 DEF InputInv, Passed
<1>8. LoopInv'
  <2> SUFFICES ASSUME HasLoop(input)
               PROVE  /\ PaymentShort => LongPower(input)
                      /\ (LoanOf(input) - balance') + interest' = month' * payment
                      /\ ~ PaymentShort => balance' <= LoanOf(input)
    BY <1>1 DEF LoopInv, PaymentShort
  <2>1. /\ PaymentShort => LongPower(input)
        /\ (LoanOf(input) - balance) + interest = month * payment
        /\ ~ PaymentShort => balance <= LoanOf(input)
    BY <1>1 DEF LoopInv, Financed, Passed
  <2>2. ~ PaymentShort => monthly <= first
    <3> SUFFICES ASSUME ~ PaymentShort PROVE monthly <= first
      OBVIOUS
    <3>1. balance * input.mortgage_interest_rate <= LoanOf(input) * input.mortgage_interest_rate
      BY <1>3, <1>4, <2>1
    <3>2. /\ balance * input.mortgage_interest_rate \in Int
          /\ LoanOf(input) * input.mortgage_interest_rate \in Int
      BY <1>3, <1>4
    <3> QED BY <3>1, <3>2, QuotMonotone, RateAssumption DEF MonthlyInterest
  <2>3. PaymentShort <=> payment < first
    BY DEF PaymentShort
  <2> HIDE DEF monthly, first
  <2>4. (month + 1) * payment = month * payment + payment /\ month * payment \in Int
    BY <1>4
  <2>5. (LoanOf(input) - balance') + interest' = month' * payment
    <3>1. interest' = interest + monthly /\ balance' = balance - (payment - monthly)
      BY <1>1 DEF monthly
    <3>2. month' * payment = month * payment + payment
      BY <1>1, <2>4
    <3>3. \A l, b, y, m, p, paid \in Int :
            (l - b) + y = paid => (l - (b - (p - m))) + (y + m) = paid + p
      OBVIOUS
    <3>4. (LoanOf(input) - balance) + interest = month * payment /\ payment \in Int
      BY <1>4, <2>1
    <3> QED BY <1>3, <1>4, <1>5, <2>4, <3>1, <3>2, <3>3, <3>4
  <2>6. ~ PaymentShort => balance' <= LoanOf(input)
    BY <1>1, <1>3, <1>4, <1>5, <2>1, <2>2, <2>3
  <2> QED BY <2>1, <2>5, <2>6
<1>9. BandInv'
  BY <1>1 DEF BandInv, Passed, Financed, Counted, BelowBand
<1>10. FiguresInv' /\ RowsInv'
  BY <1>1 DEF FiguresInv, Computed, RowsInv
<1> HIDE DEF monthly, first
<1>11. (pc = "repaying" => month < 12)'
  BY <1>1, <1>4
<1> QED BY <1>6, <1>7, <1>8, <1>9, <1>10, <1>11

LEMMA TaxBandStep ==
  ASSUME AnalysisInv, TaxBand
  PROVE  AnalysisInv'
<1> USE DEF AnalysisInv
<1> DEFINE price == input.purchase_price
           amount == TaxableInBand(price, Bands[band])
<1>1. /\ pc = "banding" /\ band <= Len(Bands) /\ price > Bands[band].lower
      /\ taxed' = taxed + amount /\ base' = base + amount * Bands[band].rate
      /\ band' = band + 1
      /\ UNCHANGED <<raw, pc, input, warnings, payment, month, balance, interest, figures, rows>>
  BY DEF TaxBand, MoreBands, BandReached, loop
<1>2. price \in Int /\ EngineInput(input)
  BY <1>1, InputNumbers DEF InputInv
<1>3. /\ band \in 1 .. Len(Bands) /\ Len(Bands) \in Nat \ {0}
      /\ taxed \in Nat /\ base \in Nat
  BY <1>1, BandsAssumption DEF TypeOK
<1>4. /\ Bands[band].lower \in Nat /\ Bands[band].rate \in Nat
      /\ band = 1 => Bands[band].lower = 0
      /\ band = Len(Bands) => Bands[band].upper = None
      /\ band < Len(Bands) => /\ Bands[band].upper = Bands[band + 1].lower
                              /\ Bands[band].upper \in Nat
                              /\ Bands[band].lower < Bands[band].upper
                              /\ Bands[band].upper # None
  BY <1>3, BandEnds
<1>5. taxed = Bands[band].lower
  BY <1>1, <1>3, <1>4 DEF BandInv, BelowBand
<1>6. amount = (IF band = Len(Bands) \/ price < Bands[band].upper THEN price
                                                                 ELSE Bands[band].upper)
                 - Bands[band].lower
  BY <1>2, <1>3, <1>4 DEF TaxableInBand
<1> HIDE DEF price, amount
<1>7. amount \in Nat
  <2>1. CASE band = Len(Bands)
    BY <1>1, <1>2, <1>4, <1>6, <2>1
  <2>2. CASE band < Len(Bands)
    <3>1. Bands[band].lower < Bands[band].upper /\ Bands[band].upper \in Nat
      BY <1>4, <2>2
    <3>2. CASE price < Bands[band].upper
      <4>1. amount = price - Bands[band].lower
        BY <1>6, <3>2
      <4>2. Bands[band].lower \in Nat /\ price \in Int /\ price > Bands[band].lower
        BY <1>1, <1>2, <1>4 DEF price
      <4> QED BY <4>1, <4>2
    <3>3. CASE ~ (price < Bands[band].upper)
      <4>1. amount = Bands[band].upper - Bands[band].lower
        BY <1>6, <2>2, <3>3
      <4> QED BY <1>4, <3>1, <4>1
    <3> QED BY <3>2, <3>3
  <2> QED BY <1>3, <2>1, <2>2
<1>8. amount * Bands[band].rate \in Nat
  BY <1>4, <1>7
<1>9. TypeOK'
  BY <1>1, <1>3, <1>7, <1>8 DEF TypeOK, Stages
<1>10. InputInv' /\ LoopInv'
  BY <1>1 DEF InputInv, LoopInv, PaymentShort, Passed, Financed
<1>11. BandInv'
  <2>1. taxed' = BelowBand(price, band + 1)
    BY <1>1, <1>2, <1>3, <1>4, <1>5, <1>6, <1>7 DEF BelowBand
  <2>2. price = input.purchase_price
    BY DEF price
  <2> QED BY <1>1, <1>3, <2>1, <2>2 DEF BandInv, Passed, Financed, Counted
<1>12. FiguresInv' /\ RowsInv'
  BY <1>1 DEF FiguresInv, Computed, RowsInv
<1> QED BY <1>1, <1>9, <1>10, <1>11, <1>12

\* When the loop over the bands ends, they hold the whole price.
LEMMA AllTaxed ==
  ASSUME AnalysisInv, pc = "banding", ~ MoreBands
  PROVE  taxed = input.purchase_price
<1> USE DEF AnalysisInv
<1> DEFINE price == input.purchase_price
<1>1. ~ (band <= Len(Bands) /\ price > Bands[band].lower)
  BY DEF MoreBands, BandReached
<1>2. price \in Int /\ price > 0
  BY InputNumbers, RulesHold DEF InputInv, Passed
<1>3. band \in 1 .. Len(Bands) + 1 /\ Len(Bands) \in Nat \ {0}
  BY BandsAssumption DEF TypeOK
<1>4. taxed = IF band = 1 THEN 0 ELSE BelowBand(price, band)
  BY DEF BandInv
<1>5. band = 1 => price > Bands[band].lower
  BY <1>2, BandsAssumption
<1> QED BY <1>1, <1>2, <1>3, <1>4, <1>5 DEF BelowBand

LEMMA CalculateStep ==
  ASSUME AnalysisInv, Calculate
  PROVE  AnalysisInv'
<1> USE DEF AnalysisInv
<1> DEFINE price == input.purchase_price
           fig == Calculated(input, payment, interest, base)
<1>1. /\ pc = "banding" /\ ~ (band <= Len(Bands) /\ price > Bands[band].lower)
      /\ UNCHANGED <<raw, input, warnings, payment, month, balance, interest, band, taxed,
                     base, rows>>
  BY DEF Calculate, MoreBands, BandReached, loop, bands
<1>2. \/ pc' = "error" /\ figures' = None
      \/ pc' = "computed" /\ figures' = fig
  BY DEF Calculate
<1>4. taxed = price
  BY AllTaxed DEF Calculate
<1>5. TypeOK'
  BY <1>1, <1>2 DEF TypeOK, Stages
<1>6. InputInv' /\ LoopInv'
  BY <1>1, <1>2 DEF InputInv, LoopInv, PaymentShort, Passed, Financed
<1>7. BandInv'
  BY <1>1, <1>2, <1>4 DEF BandInv
<1> HIDE DEF price
<1>8. FiguresInv'
  BY <1>1, <1>2 DEF FiguresInv, Computed
<1>9. RowsInv'
  BY <1>1 DEF RowsInv
<1> QED BY <1>2, <1>5, <1>6, <1>7, <1>8, <1>9

LEMMA SaveStep ==
  ASSUME AnalysisInv, Save
  PROVE  AnalysisInv'
<1> USE DEF AnalysisInv
<1>1. /\ pc = "computed"
      /\ \/ pc' = "stored" /\ rows' = Append(rows, Snapshot)
         \/ pc' = "refused" /\ rows' = rows
      /\ UNCHANGED <<raw, input, warnings, payment, month, balance, interest, band, taxed,
                     base, figures>>
  BY DEF Save, loop, bands
<1>2. EngineInput(input)
  BY <1>1 DEF InputInv
<1>3. InputInv' /\ LoopInv' /\ BandInv'
  BY <1>1 DEF InputInv, LoopInv, BandInv, PaymentShort, Passed, Financed, Counted
<1>4. FiguresInv'
  BY <1>1 DEF FiguresInv, Computed
<1> DEFINE s == Snapshot
<1>5. Snapshot.inputs = InputsRow(input)
  BY DEF Snapshot
<1>6. CASE pc' = "stored" /\ rows' = Append(rows, Snapshot)
  <2> HIDE DEF s
  <2>1. rows \in Seq({rows[k] : k \in 1 .. Len(rows)}) /\ rows' = Append(rows, s)
    BY <1>6 DEF RowsInv, s
  <2>2. /\ rows' \in Seq({rows'[k] : k \in 1 .. Len(rows')})
        /\ Len(rows) \in Nat /\ Len(rows') = Len(rows) + 1
        /\ \A k \in 1 .. Len(rows) : rows'[k] = rows[k]
        /\ rows'[Len(rows) + 1] = s
    BY <2>1
  <2>3. EngineInput(s.inputs)
    BY <1>2, <1>5, RowType DEF s
  <2>4. ASSUME NEW k \in 1 .. Len(rows') PROVE EngineInput(rows'[k].inputs)
    <3>1. CASE k = Len(rows) + 1
      BY <2>2, <2>3, <3>1
    <3>2. CASE k # Len(rows) + 1
      <4>1. k \in 1 .. Len(rows)
        BY <2>2, <3>2
      <4> QED BY <2>2, <4>1 DEF RowsInv
    <3> QED BY <3>1, <3>2
  <2>5. Len(rows') <= Copies
    BY <2>2, <1>1, ConfigurationAssumption DEF RowsInv
  <2>6. TypeOK'
    BY <2>5, <1>1, <1>6 DEF TypeOK, Stages
  <2>7. RowsInv'
    BY <2>2, <2>4, <1>6 DEF RowsInv
  <2> QED BY <2>6, <2>7, <1>1, <1>3, <1>4, <1>6
<1>7. CASE pc' = "refused" /\ rows' = rows
  <2>1. TypeOK' /\ RowsInv'
    BY <1>1, <1>7 DEF TypeOK, Stages, RowsInv
  <2> QED BY <1>1, <1>3, <1>4, <1>7, <2>1
<1> QED BY <1>1, <1>6, <1>7

LEMMA ReproduceStep ==
  ASSUME AnalysisInv, NEW k \in 1 .. Copies, Reproduce(k)
  PROVE  AnalysisInv'
<1> USE DEF AnalysisInv
<1>1. /\ pc = "stored" /\ Len(rows) < Copies
      /\ k \in DOMAIN rows /\ input' = rows[k].inputs
      /\ pc' = "resolved" /\ figures' = None
      /\ UNCHANGED <<raw, warnings, payment, month, balance, interest, band, taxed, base, rows>>
  BY DEF Reproduce, loop, bands
<1>2. EngineInput(input')
  BY <1>1 DEF RowsInv
<1>3. TypeOK'
  BY <1>1 DEF TypeOK, Stages
<1>4. InputInv' /\ LoopInv' /\ BandInv'
  BY <1>1, <1>2 DEF InputInv, LoopInv, BandInv, PaymentShort, Passed, Financed, Counted
<1>5. FiguresInv' /\ RowsInv'
  BY <1>1 DEF FiguresInv, Computed, RowsInv
<1> QED BY <1>1, <1>3, <1>4, <1>5

LEMMA NextAnalysis == AnalysisInv /\ [Next]_vars => AnalysisInv'
<1> SUFFICES ASSUME AnalysisInv, [Next]_vars PROVE AnalysisInv'
  OBVIOUS
<1>1. CASE UNCHANGED vars
  <2>1. UNCHANGED <<raw, pc, input, warnings, payment, month, balance, interest, band, taxed,
                    base, figures, rows>>
    BY <1>1 DEF vars, loop, bands
  <2>2. TypeOK' /\ RowsInv'
    BY <2>1 DEF AnalysisInv, TypeOK, RowsInv
  <2>3. InputInv' /\ LoopInv' /\ BandInv'
    BY <2>1 DEF AnalysisInv, InputInv, LoopInv, BandInv, PaymentShort
  <2>4. FiguresInv'
    BY <2>1 DEF AnalysisInv, FiguresInv, Computed
  <2> QED BY <2>1, <2>2, <2>3, <2>4 DEF AnalysisInv
<1> QED BY <1>1, ResolveStep, ValidateStep, FinanceStep, FinanceFailsStep, RepayStep,
           TaxBandStep, CalculateStep, SaveStep, ReproduceStep DEF Next

\* What holds in every state of an analysis.
LEMMA AnalysisHolds == Spec => []AnalysisInv
<1> QED BY InitAnalysis, NextAnalysis, PTL DEF Spec

\* The loops stay in their bounds, whatever is asked for.
THEOREM TypeCorrect == Spec => []TypeOK
<1>1. AnalysisInv => TypeOK
  BY DEF AnalysisInv
<1> QED BY <1>1, AnalysisHolds, PTL

\* Any tariff without gaps and overlaps taxes every pound of any price once.
THEOREM PoundsTaxedOnce == Spec => []EveryPoundTaxedOnce
<1>1. AnalysisInv => EveryPoundTaxedOnce
  BY DEF AnalysisInv, BandInv, EveryPoundTaxedOnce, Passed, Financed, Counted
<1> QED BY <1>1, AnalysisHolds, PTL

\* A rate that makes the power long is one that V-12 warns about: no term is
\* longer than 35 years.
LEMMA LongPowerWarned ==
  ASSUME NEW i, EngineInput(i), Valid(i), LongPower(i)
  PROVE  "V12" \in run_validation(i).warnings
<1>1. i.mortgage_interest_rate \in Nat /\ i.mortgage_term_years \in 5 .. 35
  BY InputNumbers, RulesHold
<1>2. i.mortgage_interest_rate > 10 * RateScale
  <2> DEFINE rate == i.mortgage_interest_rate
             term == i.mortgage_term_years
  <2>1. rate * term <= rate * 35
    BY <1>1
  <2>2. rate * term \in Int /\ rate * term >= 1800 * RateScale
    BY <1>1 DEF LongPower
  <2>3. RateScale \in Nat \ {0}
    BY RateAssumption
  <2> QED BY <1>1, <2>1, <2>2, <2>3
<1>3. PurchaseWarnings(i).V12 = (i.mortgage_interest_rate > 10 * RateScale)
  BY DEF PurchaseWarnings
<1>4. "V12" \in DOMAIN PurchaseWarnings(i)
  BY DEF PurchaseWarnings
<1> QED BY <1>2, <1>3, <1>4 DEF run_validation, Fired

\* The payments of any loan split into interest and capital, and none adds to
\* the debt unless the digits made it too small, at a rate that was warned about.
THEOREM SplitsHold == Spec => []InstalmentsSplit
<1>1. AnalysisInv => InstalmentsSplit
  <2> SUFFICES ASSUME AnalysisInv, HasLoop(input), pc = "repaying" \/ Computed
               PROVE  /\ (LoanOf(input) - balance) + interest = month * payment
                      /\ balance > LoanOf(input) \/ interest > month * payment =>
                           PaymentShort /\ "V12" \in warnings
    BY DEF InstalmentsSplit, AnalysisInv, LoopInv
  <2>1. /\ pc \in Financed /\ EngineInput(input) /\ Valid(input)
        /\ warnings = run_validation(input).warnings
    BY DEF AnalysisInv, FiguresInv, InputInv, Financed, Passed
  <2>2. /\ (LoanOf(input) - balance) + interest = month * payment
        /\ PaymentShort => LongPower(input)
        /\ ~ PaymentShort => balance <= LoanOf(input)
    BY <2>1 DEF AnalysisInv, LoopInv
  <2>3. /\ LoanOf(input) \in Int /\ balance \in Int /\ interest \in Int
        /\ month * payment \in Int
    BY <2>1, InputNumbers DEF AnalysisInv, TypeOK, LoanOf, f04_loan_amount
  <2>4. balance > LoanOf(input) \/ interest > month * payment => PaymentShort
    BY <2>2, <2>3
  <2>5. PaymentShort => "V12" \in warnings
    BY <2>1, <2>2, LongPowerWarned
  <2> QED BY <2>2, <2>4, <2>5
<1> QED BY <1>1, AnalysisHolds, PTL

-----------------------------------------------------------------------------
(* The figures                                                             *)

GrossRent(i) == f01_gross_annual_rent(i.monthly_rent)
Rent(i) == f03_effective_annual_rent(GrossRent(i), f02_void_rate_decimal(i.void_rate_percent))
Costs(i) == CostsOf(i, GrossRent(i))
Operating(i) ==
  f11_total_operating_costs(Costs(i).letting, Costs(i).maintenance, Costs(i).insurance,
                            Costs(i).service, Costs(i).ground, Costs(i).accountancy)
Yearly(i, looped) ==
  f08_annual_mortgage_interest(LoanOf(i), i.mortgage_interest_rate, i.mortgage_type, looped)
TaxOn(i, looped) == TaxOf(i, Rent(i), Costs(i), Yearly(i, looped))
SurchargeOn(i) == Surcharge(i.purchase_price, SurchargeRate, i.is_additional_dwelling)
Duty(i, base0) == Quot(base0 + SurchargeOn(i), 100)

\* Each figure that the theorems speak of, by itself.
LEMMA FigureFields ==
  ASSUME NEW i, NEW monthly, NEW looped, NEW base0, NEW fig,
         fig = Calculated(i, monthly, looped, base0)
  PROVE  /\ fig.money.gross_annual_rent = GrossRent(i)
         /\ fig.money.annual_mortgage_cost = 12 * monthly
         /\ fig.money.annual_mortgage_interest = Yearly(i, looped)
         /\ fig.money.net_operating_income = Rent(i) - Operating(i)
         /\ fig.money.taxable_income_or_profit = TaxOn(i, looped).taxable
         /\ fig.money.annual_tax_liability = TaxOn(i, looped).liability
         /\ fig.money.pre_tax_annual_cash_flow = fig.money.net_operating_income - 12 * monthly
         /\ fig.money.annual_cash_flow
              = fig.money.net_operating_income - 12 * monthly - fig.money.annual_tax_liability
         /\ fig.money.loan_amount = LoanOf(i)
         /\ fig.money.sdlt_base = Quot(base0, 100)
         /\ fig.money.sdlt_surcharge = Quot(SurchargeOn(i), 100)
         /\ fig.money.total_sdlt = Duty(i, base0)
         /\ fig.money.total_acquisition_cost
              = i.purchase_price + Duty(i, base0) + i.purchase_legal_costs + i.refurbishment_cost
         /\ fig.money.total_cash_deployed
              = i.deposit_amount + Duty(i, base0) + i.purchase_legal_costs + i.refurbishment_cost
         /\ fig.percent.ltv = f05_ltv_percent(LoanOf(i), i.purchase_price)
         /\ fig.percent.net_yield = PercentOf(fig.money.net_operating_income, i.purchase_price)
<1> USE DEF Calculated, GrossRent, Rent, Costs, Operating, Yearly, TaxOn, SurchargeOn, Duty, LoanOf
<1>1. /\ fig.money.gross_annual_rent = GrossRent(i)
      /\ fig.money.annual_mortgage_cost = 12 * monthly
      /\ fig.money.annual_mortgage_interest = Yearly(i, looped)
  BY DEF f07_annual_mortgage_cost
<1>2. fig.money.net_operating_income = Rent(i) - Operating(i)
  BY DEF f12_net_operating_income
<1>3. /\ fig.money.taxable_income_or_profit = TaxOn(i, looped).taxable
      /\ fig.money.annual_tax_liability = TaxOn(i, looped).liability
  OBVIOUS
<1>4. /\ fig.money.pre_tax_annual_cash_flow = fig.money.net_operating_income - 12 * monthly
      /\ fig.money.annual_cash_flow
           = fig.money.net_operating_income - 12 * monthly - fig.money.annual_tax_liability
  BY DEF f07_annual_mortgage_cost, f12_net_operating_income, f19_annual_cash_flow
<1>5. /\ fig.money.loan_amount = LoanOf(i)
      /\ fig.money.sdlt_base = Quot(base0, 100)
      /\ fig.money.sdlt_surcharge = Quot(SurchargeOn(i), 100)
      /\ fig.money.total_sdlt = Duty(i, base0)
  OBVIOUS
<1>6. /\ fig.money.total_acquisition_cost
           = i.purchase_price + Duty(i, base0) + i.purchase_legal_costs + i.refurbishment_cost
      /\ fig.money.total_cash_deployed
           = i.deposit_amount + Duty(i, base0) + i.purchase_legal_costs + i.refurbishment_cost
  BY DEF f14_total_acquisition_cost, f15_total_cash_deployed
<1>7. /\ fig.percent.ltv = f05_ltv_percent(LoanOf(i), i.purchase_price)
      /\ fig.percent.net_yield = PercentOf(fig.money.net_operating_income, i.purchase_price)
  BY DEF f17_net_yield_percent
<1> QED BY <1>1, <1>2, <1>3, <1>4, <1>5, <1>6, <1>7

\* The rent and the costs are numbers.
LEMMA FigureTypes ==
  ASSUME NEW i, EngineInput(i)
  PROVE  /\ GrossRent(i) \in Int /\ Rent(i) \in Int
         /\ Costs(i).letting \in Int /\ Costs(i).maintenance \in Int
         /\ Costs(i).insurance \in Int /\ Costs(i).service \in Int
         /\ Costs(i).ground \in Int /\ Costs(i).accountancy \in Int
         /\ Operating(i) \in Int
         /\ TaxedProfit(Rent(i), Costs(i)) = Rent(i) - Operating(i)
         /\ LoanOf(i) \in Int /\ SurchargeOn(i) \in Int
<1>1. /\ i.purchase_price \in Int /\ i.monthly_rent \in Int /\ i.deposit_amount \in Int
      /\ i.void_rate_percent \in Int /\ i.letting_agent_fee_percent \in Int
      /\ i.maintenance_reserve_percent \in Int /\ i.landlord_insurance_annual \in Int
      /\ i.annual_service_charge \in Int /\ i.annual_ground_rent \in Int
      /\ i.annual_accountancy_cost \in Int
  BY InputNumbers
<1>2. VatRate \in Nat /\ SurchargeRate \in Nat
  BY ConfigurationAssumption
<1>3. GrossRent(i) \in Int
  BY <1>1 DEF GrossRent, f01_gross_annual_rent
<1>4. Rent(i) \in Int
  <2>1. GrossRent(i) * (100 - i.void_rate_percent) \in Int
    BY <1>1, <1>3
  <2>2. Rent(i) = Quot(GrossRent(i) * (100 - i.void_rate_percent), 100)
    BY DEF Rent, f03_effective_annual_rent, f02_void_rate_decimal
  <2> QED BY <2>1, <2>2, QuotType
<1>5. Costs(i).letting \in Int
  <2>1. GrossRent(i) * i.letting_agent_fee_percent * (100 + VatRate) \in Int
    BY <1>1, <1>2, <1>3
  <2>2. Costs(i).letting = Quot(GrossRent(i) * i.letting_agent_fee_percent * (100 + VatRate), 10000)
    BY DEF Costs, CostsOf, f09_letting_agent_annual
  <2> QED BY <2>1, <2>2, QuotType
<1>6. Costs(i).maintenance \in Int
  <2>1. i.purchase_price * i.maintenance_reserve_percent \in Int
    BY <1>1
  <2>2. Costs(i).maintenance = Quot(i.purchase_price * i.maintenance_reserve_percent, 100)
    BY DEF Costs, CostsOf, f10_annual_maintenance_reserve
  <2> QED BY <2>1, <2>2, QuotType
<1>7. /\ Costs(i).insurance \in Int /\ Costs(i).service \in Int
      /\ Costs(i).ground \in Int /\ Costs(i).accountancy \in Int
  BY <1>1 DEF Costs, CostsOf
<1>8. LoanOf(i) \in Int /\ SurchargeOn(i) \in Int
  BY <1>1, <1>2 DEF LoanOf, f04_loan_amount, SurchargeOn, Surcharge
<1>9. Operating(i) = Costs(i).letting + Costs(i).maintenance + Costs(i).insurance
                      + Costs(i).service + Costs(i).ground + Costs(i).accountancy
  BY DEF Operating, f11_total_operating_costs
<1>10. TaxedProfit(Rent(i), Costs(i))
         = Rent(i) - Costs(i).letting - Costs(i).maintenance - Costs(i).insurance
             - Costs(i).service - Costs(i).ground - Costs(i).accountancy
  BY DEF TaxedProfit
<1> QED BY <1>3, <1>4, <1>5, <1>6, <1>7, <1>8, <1>9, <1>10

\* The year's interest is a number, and never below zero unless the loop's is.
LEMMA YearlyType ==
  ASSUME NEW i, EngineInput(i), Valid(i), NEW looped \in Int
  PROVE  Yearly(i, looped) \in Int /\ (looped >= 0 => Yearly(i, looped) >= 0)
<1>1. /\ i.purchase_price \in Int /\ i.deposit_amount \in Int
      /\ i.mortgage_interest_rate \in Nat /\ i.deposit_amount < i.purchase_price
  BY InputNumbers, RulesHold
<1>2. LoanOf(i) * i.mortgage_interest_rate \in Nat
  BY <1>1 DEF LoanOf, f04_loan_amount
<1>3. Quot(LoanOf(i) * i.mortgage_interest_rate, 100 * RateScale) \in Nat
  BY <1>2, QuotNatural, RateAssumption
<1> QED BY <1>3 DEF Yearly, f08_annual_mortgage_interest

\* The tax figures of the two pathways.
LEMMA TaxFields ==
  ASSUME NEW i, EngineInput(i), Valid(i), NEW looped \in Int
  PROVE  /\ i.ownership_structure = "INDIVIDUAL" =>
              /\ TaxOn(i, looped).taxable = Rent(i) - Operating(i)
              /\ TaxOn(i, looped).liability
                   = Credited(IncomeTax(Rent(i) - Operating(i), i.income_tax_band),
                              Yearly(i, looped) * CreditRate)
              /\ i.income_tax_band \in {"BASIC_RATE", "HIGHER_RATE", "ADDITIONAL_RATE"}
         /\ i.ownership_structure # "INDIVIDUAL" =>
              /\ TaxOn(i, looped).taxable = Rent(i) - Operating(i) - Yearly(i, looped)
              /\ TaxOn(i, looped).liability
                   = Max0(CorporationTax(Rent(i) - Operating(i) - Yearly(i, looped)))
         /\ TaxOn(i, looped).taxable \in Int /\ TaxOn(i, looped).liability \in Nat
<1>1. /\ Rent(i) \in Int /\ Operating(i) \in Int
      /\ TaxedProfit(Rent(i), Costs(i)) = Rent(i) - Operating(i)
      /\ Yearly(i, looped) \in Int
  BY FigureTypes, YearlyType
<1>2. CASE i.ownership_structure = "INDIVIDUAL"
  <2> DEFINE p == Rent(i) - Operating(i)
  <2>1. i.income_tax_band \in {"BASIC_RATE", "HIGHER_RATE", "ADDITIONAL_RATE"}
    BY <1>2, InputNumbers, RulesHold
  <2>2. /\ TaxOn(i, looped).taxable = p
        /\ TaxOn(i, looped).liability
             = Credited(IncomeTax(p, i.income_tax_band), Yearly(i, looped) * CreditRate)
    BY <1>1, <1>2 DEF TaxOn, TaxOf, calculate_individual_tax
  <2>3. p \in Int
    BY <1>1
  <2>4. IncomeTaxRate(i.income_tax_band) \in Nat
    BY <2>1 DEF IncomeTaxRate
  <2> HIDE DEF p
  <2>5. IncomeTax(p, i.income_tax_band) \in Int
    BY <2>3, <2>4 DEF IncomeTax, Max0
  <2>6. Quot(IncomeTax(p, i.income_tax_band) - Yearly(i, looped) * CreditRate, 100) \in Int
    BY <1>1, <2>5, QuotType DEF CreditRate
  <2>7. Credited(IncomeTax(p, i.income_tax_band), Yearly(i, looped) * CreditRate) \in Nat
    BY <2>6 DEF Credited, Max0
  <2> QED BY <1>2, <2>1, <2>2, <2>3, <2>7 DEF p
<1>3. CASE i.ownership_structure # "INDIVIDUAL"
  <2> DEFINE p == Rent(i) - Operating(i) - Yearly(i, looped)
  <2>1. TaxOn(i, looped).taxable = p /\ TaxOn(i, looped).liability = Max0(CorporationTax(p))
    BY <1>1, <1>3 DEF TaxOn, TaxOf, calculate_limited_company_tax
  <2>2. p \in Int
    BY <1>1
  <2> HIDE DEF p
  <2>3. CorporationTax(p) \in Int
    BY <2>2, TaxCurve, TaxSlopes, QuotType DEF CorporationTax
  <2>4. Max0(CorporationTax(p)) \in Nat
    BY <2>3 DEF Max0
  <2> QED BY <1>3, <2>1, <2>2, <2>4 DEF p
<1> QED BY <1>2, <1>3

-----------------------------------------------------------------------------
(* What the figures promise                                                *)

\* The state in which there are figures.
LEMMA ComputedState ==
  ASSUME AnalysisInv, Computed
  PROVE  /\ EngineInput(input) /\ Valid(input)
         /\ warnings = run_validation(input).warnings
         /\ figures = Calculated(input, payment, interest, base)
         /\ payment \in Nat /\ interest \in Int /\ base \in Nat
BY DEF AnalysisInv, FiguresInv, InputInv, TypeOK, Passed

\* For any thresholds that meet, more profit leaves a company no less.
THEOREM ProfitIsWorthMaking == Spec => []MoreProfitLeavesMore
<1>1. AnalysisInv => MoreProfitLeavesMore
  <2> SUFFICES ASSUME AnalysisInv, Computed, input.ownership_structure = "LIMITED_COMPANY",
                      NEW q \in Probes
               PROVE  LET profit == figures.money.taxable_income_or_profit
                          kept   == profit - figures.money.annual_tax_liability
                      IN /\ q <= profit => Retained(q) <= kept
                         /\ profit <= q => kept <= Retained(q)
    BY DEF MoreProfitLeavesMore
  <2> DEFINE p == TaxOn(input, interest).taxable
  <2>1. /\ EngineInput(input) /\ Valid(input) /\ interest \in Int
        /\ figures = Calculated(input, payment, interest, base)
    BY ComputedState
  <2>2. /\ figures.money.taxable_income_or_profit = p
        /\ figures.money.annual_tax_liability = TaxOn(input, interest).liability
    BY <2>1, FigureFields
  <2>3. p \in Int /\ TaxOn(input, interest).liability = Max0(CorporationTax(p))
    BY <2>1, TaxFields
  <2>4. q \in Int
    BY ConfigurationAssumption
  <2> HIDE DEF p
  <2>5. figures.money.taxable_income_or_profit - figures.money.annual_tax_liability = Retained(p)
    BY <2>2, <2>3 DEF Retained
  <2> QED BY <2>2, <2>3, <2>4, <2>5, RetainedMonotone
<1> QED BY <1>1, AnalysisHolds, PTL

\* Whatever the figures, unless the loop overshot, Section 24 costs an individual
\* at least what deducting the interest would.
THEOREM Section24CostsMore == Spec => []Section24NeverCheaper
<1>1. AnalysisInv => Section24NeverCheaper
  <2> SUFFICES ASSUME AnalysisInv, Computed, ~ InterestOvershot,
                      input.ownership_structure = "INDIVIDUAL"
               PROVE  Quot(IncomeTax(figures.money.taxable_income_or_profit
                                       - figures.money.annual_mortgage_interest,
                                     input.income_tax_band), 100)
                        <= figures.money.annual_tax_liability
    BY DEF Section24NeverCheaper
  <2> DEFINE p == Rent(input) - Operating(input)
             yearly == Yearly(input, interest)
  <2>1. /\ EngineInput(input) /\ Valid(input) /\ interest \in Int
        /\ figures = Calculated(input, payment, interest, base)
    BY ComputedState
  <2>2. /\ figures.money.taxable_income_or_profit = TaxOn(input, interest).taxable
        /\ figures.money.annual_tax_liability = TaxOn(input, interest).liability
        /\ figures.money.annual_mortgage_interest = yearly
    BY <2>1, FigureFields
  <2>3. /\ TaxOn(input, interest).taxable = p
        /\ TaxOn(input, interest).liability
             = Credited(IncomeTax(p, input.income_tax_band), yearly * CreditRate)
        /\ input.income_tax_band \in {"BASIC_RATE", "HIGHER_RATE", "ADDITIONAL_RATE"}
    BY <2>1, TaxFields
  <2>4. p \in Int /\ yearly \in Nat
    BY <2>1, <2>2, FigureTypes, YearlyType DEF InterestOvershot
  <2> HIDE DEF p, yearly
  <2> QED BY <2>2, <2>3, <2>4, CreditBelowDeduction
<1> QED BY <1>1, AnalysisHolds, PTL

\* Three sums of a figure and the figures it is made of stay within two
\* pennies when each is rounded.
LEMMA SumsInPennies ==
  ASSUME NEW a \in Int, NEW b \in Int, NEW c \in Int
  PROVE  /\ \A d \in Int : a - b - c - d = 0 =>
               Abs(RoundPenny(a) - RoundPenny(b) - RoundPenny(c) - RoundPenny(d)) <= 2 * Cent
         /\ a - b - c = 0 => Abs(RoundPenny(a) - RoundPenny(b) - RoundPenny(c)) <= 2 * Cent
         /\ -1 <= a + b - c /\ a + b - c <= 1 =>
               Abs(RoundPenny(a) + RoundPenny(b) - RoundPenny(c)) <= 2 * Cent
<1>1. Cent \in Nat \ {0}
  BY GridAssumption
<1>2. \A v \in Int : /\ RoundPenny(v) \in Int
                     /\ 2 * (RoundPenny(v) - v) <= Cent /\ 2 * (v - RoundPenny(v)) <= Cent
  BY PennyNearest
<1>3. ASSUME NEW d \in Int, a - b - c - d = 0
      PROVE  Abs(RoundPenny(a) - RoundPenny(b) - RoundPenny(c) - RoundPenny(d)) <= 2 * Cent
  BY <1>1, <1>2, <1>3 DEF Abs
<1>4. ASSUME a - b - c = 0
      PROVE  Abs(RoundPenny(a) - RoundPenny(b) - RoundPenny(c)) <= 2 * Cent
  BY <1>1, <1>2, <1>4 DEF Abs
<1>5. ASSUME -1 <= a + b - c, a + b - c <= 1
      PROVE  Abs(RoundPenny(a) + RoundPenny(b) - RoundPenny(c)) <= 2 * Cent
  BY <1>1, <1>2, <1>5 DEF Abs
<1> QED BY <1>3, <1>4, <1>5

\* The written figures of any analysis add up, and both pathways tax the profit
\* that the net operating income shows.
THEOREM FiguresReconcile == Spec => []OutputsReconcile
<1>1. AnalysisInv => OutputsReconcile
  <2> SUFFICES ASSUME AnalysisInv, Computed PROVE OutputsReconcile
    BY DEF OutputsReconcile
  <2> DEFINE m == figures.money
             w == Rounded(figures).money
  <2>1. /\ EngineInput(input) /\ Valid(input) /\ interest \in Int /\ payment \in Nat
        /\ base \in Nat /\ figures = Calculated(input, payment, interest, base)
    BY ComputedState
  <2>2. /\ Rent(input) \in Int /\ Operating(input) \in Int /\ LoanOf(input) \in Int
        /\ SurchargeOn(input) \in Int /\ Yearly(input, interest) \in Int
        /\ TaxOn(input, interest).liability \in Nat
        /\ input.purchase_price \in Int /\ input.deposit_amount \in Int
        /\ input.purchase_legal_costs \in Int /\ input.refurbishment_cost \in Int
    BY <2>1, FigureTypes, YearlyType, TaxFields, InputNumbers
  <2>3. Quot(base, 100) \in Int /\ Quot(SurchargeOn(input), 100) \in Int /\ Duty(input, base) \in Int
    BY <2>1, <2>2, QuotType DEF Duty
  <2>4. /\ m.net_operating_income = Rent(input) - Operating(input)
        /\ m.annual_mortgage_cost = 12 * payment
        /\ m.annual_tax_liability = TaxOn(input, interest).liability
        /\ m.annual_cash_flow
             = m.net_operating_income - 12 * payment - m.annual_tax_liability
        /\ m.loan_amount = LoanOf(input)
        /\ m.sdlt_base = Quot(base, 100)
        /\ m.sdlt_surcharge = Quot(SurchargeOn(input), 100)
        /\ m.total_sdlt = Duty(input, base)
        /\ m.total_acquisition_cost = input.purchase_price + Duty(input, base)
             + input.purchase_legal_costs + input.refurbishment_cost
        /\ m.total_cash_deployed = input.deposit_amount + Duty(input, base)
             + input.purchase_legal_costs + input.refurbishment_cost
        /\ m.taxable_income_or_profit = TaxOn(input, interest).taxable
        /\ m.annual_mortgage_interest = Yearly(input, interest)
    BY <2>1, FigureFields
  <2>5. {"net_operating_income", "annual_mortgage_cost", "annual_tax_liability",
         "annual_cash_flow", "loan_amount", "sdlt_base", "sdlt_surcharge", "total_sdlt",
         "total_acquisition_cost", "total_cash_deployed"} \subseteq DOMAIN m
    BY <2>1 DEF Calculated
  <2>6. \A f \in DOMAIN m : w[f] = RoundPenny(m[f])
    BY DEF Rounded
  <2> HIDE DEF m, w
  <2>7. Abs(w.net_operating_income - w.annual_mortgage_cost - w.annual_tax_liability
              - w.annual_cash_flow) <= 2 * Cent
    <3>1. /\ m.net_operating_income \in Int /\ m.annual_mortgage_cost \in Int
          /\ m.annual_tax_liability \in Int /\ m.annual_cash_flow \in Int
          /\ m.net_operating_income - m.annual_mortgage_cost - m.annual_tax_liability
               - m.annual_cash_flow = 0
      <4>1. m.net_operating_income \in Int /\ m.annual_tax_liability \in Int
        BY <2>2, <2>4
      <4>2. m.annual_mortgage_cost = 12 * payment /\ payment \in Int
        BY <2>1, <2>4
      <4>3. m.annual_cash_flow
              = m.net_operating_income - 12 * payment - m.annual_tax_liability
        BY <2>4
      <4> QED BY <4>1, <4>2, <4>3
    <3>2. Abs(RoundPenny(m.net_operating_income) - RoundPenny(m.annual_mortgage_cost)
                - RoundPenny(m.annual_tax_liability) - RoundPenny(m.annual_cash_flow)) <= 2 * Cent
      BY <3>1, SumsInPennies
    <3>3. /\ w.net_operating_income = RoundPenny(m.net_operating_income)
          /\ w.annual_mortgage_cost = RoundPenny(m.annual_mortgage_cost)
          /\ w.annual_tax_liability = RoundPenny(m.annual_tax_liability)
          /\ w.annual_cash_flow = RoundPenny(m.annual_cash_flow)
      BY <2>5, <2>6
    <3> QED BY <3>2, <3>3
  <2>8. Abs(w.total_acquisition_cost - w.total_cash_deployed - w.loan_amount) <= 2 * Cent
    <3>1. /\ m.total_acquisition_cost \in Int /\ m.total_cash_deployed \in Int
          /\ m.loan_amount \in Int
          /\ m.total_acquisition_cost - m.total_cash_deployed - m.loan_amount = 0
      BY <2>2, <2>3, <2>4 DEF LoanOf, f04_loan_amount
    <3>2. Abs(RoundPenny(m.total_acquisition_cost) - RoundPenny(m.total_cash_deployed)
                - RoundPenny(m.loan_amount)) <= 2 * Cent
      BY <3>1, SumsInPennies
    <3>3. /\ w.total_acquisition_cost = RoundPenny(m.total_acquisition_cost)
          /\ w.total_cash_deployed = RoundPenny(m.total_cash_deployed)
          /\ w.loan_amount = RoundPenny(m.loan_amount)
      BY <2>5, <2>6
    <3> QED BY <3>2, <3>3
  <2>9. Abs(w.sdlt_base + w.sdlt_surcharge - w.total_sdlt) <= 2 * Cent
    <3>1. /\ m.sdlt_base \in Int /\ m.sdlt_surcharge \in Int /\ m.total_sdlt \in Int
      BY <2>3, <2>4
    <3>2. -1 <= m.sdlt_base + m.sdlt_surcharge - m.total_sdlt
          /\ m.sdlt_base + m.sdlt_surcharge - m.total_sdlt <= 1
      <4>1. base \in Int /\ SurchargeOn(input) \in Int
        BY <2>1, <2>2
      <4>2. ASSUME NEW x \in Int, NEW y \in Int
            PROVE  /\ -1 <= Quot(x, 100) + Quot(y, 100) - Quot(x + y, 100)
                   /\ Quot(x, 100) + Quot(y, 100) - Quot(x + y, 100) <= 1
        BY DEF Quot
      <4>3. /\ m.sdlt_base = Quot(base, 100)
            /\ m.sdlt_surcharge = Quot(SurchargeOn(input), 100)
            /\ m.total_sdlt = Quot(base + SurchargeOn(input), 100)
        BY <2>4 DEF Duty
      <4> QED BY <4>1, <4>2, <4>3
    <3>3. Abs(RoundPenny(m.sdlt_base) + RoundPenny(m.sdlt_surcharge)
                - RoundPenny(m.total_sdlt)) <= 2 * Cent
      BY <3>1, <3>2, SumsInPennies
    <3>4. /\ w.sdlt_base = RoundPenny(m.sdlt_base)
          /\ w.sdlt_surcharge = RoundPenny(m.sdlt_surcharge)
          /\ w.total_sdlt = RoundPenny(m.total_sdlt)
      BY <2>5, <2>6
    <3> QED BY <3>3, <3>4
  <2>10. m.taxable_income_or_profit
           = m.net_operating_income
               - (IF input.ownership_structure = "INDIVIDUAL" THEN 0
                  ELSE m.annual_mortgage_interest)
    BY <2>1, <2>2, <2>4, TaxFields
  <2> QED BY <2>7, <2>8, <2>9, <2>10 DEF OutputsReconcile, m, w
<1> QED BY <1>1, AnalysisHolds, PTL

-----------------------------------------------------------------------------
(* Flags and rules                                                         *)

\* When a flag is raised.
LEMMA FlagConditions ==
  ASSUME NEW c
  PROVE  LET flags == evaluate_flags(c)
         IN /\ "HIGH_LEVERAGE" \in flags <=> Above(c.ltv, 75)
            /\ "HIGH_LEVERAGE_EXTREME" \in flags <=> Above(c.ltv, 85)
            /\ "LOW_ICR_BASIC" \in flags => Below(c.icr, 125)
            /\ "LOW_ICR_HIGHER_RATE" \in flags => ~ Below(c.icr, 125)
            /\ "NEGATIVE_NOI" \in flags <=> c.net_operating_income < 0
            /\ "NEGATIVE_CASHFLOW" \in flags <=> c.annual_cash_flow < 0
            /\ "LOW_NET_YIELD" \in flags <=> Below(c.net_yield, 3)
            /\ "CASH_FLOW_PRE_TAX_ONLY" \in flags =>
                 c.pre_tax_cash_flow >= 0 /\ c.annual_cash_flow < 0
            /\ "LOW_MARGIN_SAFETY" \in flags => c.annual_cash_flow >= 0
            /\ "LTD_EXTRACTION_UNDISCLOSED" \in flags => c.ownership_structure = "LIMITED_COMPANY"
            /\ "SECTION_24_IMPACT" \in flags => c.ownership_structure = "INDIVIDUAL"
<1> DEFINE finance == FinanceFlags(c)
           structure == StructureFlags(c)
           other == OtherFlags(c)
<1>1. /\ DOMAIN finance = {"NEGATIVE_CASHFLOW", "NEGATIVE_NOI", "LOW_GROSS_YIELD",
             "LOW_ICR_BASIC", "LOW_ICR_HIGHER_RATE", "HIGH_LEVERAGE", "HIGH_LEVERAGE_EXTREME"}
      /\ DOMAIN structure = {"SECTION_24_IMPACT", "LEASEHOLD_SHORT_LEASE",
             "CASH_FLOW_PRE_TAX_ONLY"}
      /\ DOMAIN other = {"LOW_NET_YIELD", "LOW_MARGIN_SAFETY", "HIGH_REFURB_RATIO",
             "ATED_WARNING", "LTD_EXTRACTION_UNDISCLOSED", "RENT_UNVERIFIED"}
  BY DEF FinanceFlags, StructureFlags, OtherFlags
<1>2. \A f : f \in evaluate_flags(c) <=> \/ f \in DOMAIN finance /\ finance[f]
                                         \/ f \in DOMAIN structure /\ structure[f]
                                         \/ f \in DOMAIN other /\ other[f]
  BY DEF evaluate_flags, Fired
<1>3. /\ "HIGH_LEVERAGE" \in evaluate_flags(c) <=> finance.HIGH_LEVERAGE
      /\ "HIGH_LEVERAGE_EXTREME" \in evaluate_flags(c) <=> finance.HIGH_LEVERAGE_EXTREME
      /\ "LOW_ICR_BASIC" \in evaluate_flags(c) <=> finance.LOW_ICR_BASIC
      /\ "LOW_ICR_HIGHER_RATE" \in evaluate_flags(c) <=> finance.LOW_ICR_HIGHER_RATE
      /\ "NEGATIVE_NOI" \in evaluate_flags(c) <=> finance.NEGATIVE_NOI
      /\ "NEGATIVE_CASHFLOW" \in evaluate_flags(c) <=> finance.NEGATIVE_CASHFLOW
      /\ "LOW_NET_YIELD" \in evaluate_flags(c) <=> other.LOW_NET_YIELD
      /\ "CASH_FLOW_PRE_TAX_ONLY" \in evaluate_flags(c) <=> structure.CASH_FLOW_PRE_TAX_ONLY
      /\ "LOW_MARGIN_SAFETY" \in evaluate_flags(c) <=> other.LOW_MARGIN_SAFETY
      /\ "LTD_EXTRACTION_UNDISCLOSED" \in evaluate_flags(c)
           <=> other.LTD_EXTRACTION_UNDISCLOSED
      /\ "SECTION_24_IMPACT" \in evaluate_flags(c) <=> structure.SECTION_24_IMPACT
  <2> HIDE DEF finance, structure, other
  <2> QED BY <1>1, <1>2
<1>4. /\ finance.HIGH_LEVERAGE <=> Above(c.ltv, 75)
      /\ finance.HIGH_LEVERAGE_EXTREME <=> Above(c.ltv, 85)
      /\ finance.LOW_ICR_BASIC => Below(c.icr, 125)
      /\ finance.LOW_ICR_HIGHER_RATE => ~ Below(c.icr, 125)
      /\ finance.NEGATIVE_NOI <=> c.net_operating_income < 0
      /\ finance.NEGATIVE_CASHFLOW <=> c.annual_cash_flow < 0
  BY DEF FinanceFlags, HighLeverage
<1>5. /\ structure.CASH_FLOW_PRE_TAX_ONLY => c.pre_tax_cash_flow >= 0 /\ c.annual_cash_flow < 0
      /\ structure.SECTION_24_IMPACT => c.ownership_structure = "INDIVIDUAL"
  BY DEF StructureFlags
<1>6. /\ other.LOW_NET_YIELD <=> Below(c.net_yield, 3)
      /\ other.LOW_MARGIN_SAFETY => c.annual_cash_flow >= 0
      /\ other.LTD_EXTRACTION_UNDISCLOSED => c.ownership_structure = "LIMITED_COMPANY"
  <2>1. other.LOW_NET_YIELD = Below(c.net_yield, 3)
    BY DEF OtherFlags
  <2>2. other.LTD_EXTRACTION_UNDISCLOSED = (c.ownership_structure = "LIMITED_COMPANY")
    BY DEF OtherFlags
  <2>3. other.LOW_MARGIN_SAFETY = (/\ c.annual_cash_flow >= 0
                                   /\ c.gross_annual_rent > 0
                                   /\ 20 * c.annual_cash_flow < c.gross_annual_rent)
    BY DEF OtherFlags
  <2> HIDE DEF other
  <2> QED BY <2>1, <2>2, <2>3
<1> QED BY <1>3, <1>4, <1>5, <1>6

\* What the flags are asked about, for computed figures.
LEMMA ContextFields ==
  ASSUME NEW i, NEW fig
  PROVE  LET c == Context(i, fig)
         IN /\ c.ltv = fig.percent.ltv /\ c.net_yield = fig.percent.net_yield
            /\ c.net_operating_income = fig.money.net_operating_income
            /\ c.annual_cash_flow = fig.money.annual_cash_flow
            /\ c.pre_tax_cash_flow = fig.money.pre_tax_annual_cash_flow
            /\ c.ownership_structure = i.ownership_structure
BY DEF Context

\* The warning about a deposit below a quarter.
LEMMA DepositWarned ==
  ASSUME NEW i
  PROVE  "V08" \in run_validation(i).warnings
           <=> i.purchase_price > 0 /\ i.deposit_amount < Quot(25 * i.purchase_price, 100)
<1>1. run_validation(i).warnings = Fired(PurchaseWarnings(i)) \cup Fired(CostWarnings(i))
  BY DEF run_validation
<1>2. "V08" \in DOMAIN PurchaseWarnings(i) /\ "V08" \notin DOMAIN CostWarnings(i)
  BY DEF PurchaseWarnings, CostWarnings
<1>3. PurchaseWarnings(i).V08
        <=> i.purchase_price > 0 /\ i.deposit_amount < Quot(25 * i.purchase_price, 100)
  BY DEF PurchaseWarnings
<1>4. "V08" \in Fired(PurchaseWarnings(i)) <=> PurchaseWarnings(i)["V08"]
  BY <1>2 DEF Fired
<1>5. "V08" \notin Fired(CostWarnings(i))
  BY <1>2 DEF Fired
<1> QED BY <1>1, <1>3, <1>4, <1>5

\* Flags and warnings agree with each other for any figures: leverage with the
\* deposit, as far as the digits of either tell, coverage, and losses with the
\* shortfalls they bring.
THEOREM FlagsAgree == Spec => []FlagsCoherent
<1>1. AnalysisInv => FlagsCoherent
  <2> SUFFICES ASSUME AnalysisInv, Computed PROVE FlagsCoherent
    BY DEF FlagsCoherent
  <2> DEFINE price == input.purchase_price
             deposit == input.deposit_amount
             noi == figures.money.net_operating_income
             cash == figures.money.annual_cash_flow
             tax == figures.money.annual_tax_liability
             pretax == figures.money.pre_tax_annual_cash_flow
             flags == FlagsOf(input, figures)
  <2>1. /\ EngineInput(input) /\ Valid(input) /\ interest \in Int /\ payment \in Nat
        /\ warnings = run_validation(input).warnings
        /\ figures = Calculated(input, payment, interest, base)
    BY ComputedState
  <2>2. price \in Int /\ deposit \in Int /\ price > 0
    BY <2>1, InputNumbers, RulesHold
  <2>3. /\ noi = Rent(input) - Operating(input) /\ tax = TaxOn(input, interest).liability
        /\ pretax = noi - 12 * payment /\ cash = noi - 12 * payment - tax
        /\ figures.percent.ltv = f05_ltv_percent(LoanOf(input), price)
        /\ figures.percent.net_yield = PercentOf(noi, price)
    BY <2>1, FigureFields
  <2>4. noi \in Int /\ tax \in Nat /\ cash \in Int /\ pretax \in Int
    BY <2>1, <2>3, FigureTypes, TaxFields
  <2> HIDE DEF noi, cash, tax, pretax, price, deposit
  <2>5. /\ Above(figures.percent.ltv, 75) => ShortOf(input, 25) > 0
        /\ ~ Above(figures.percent.ltv, 75) =>
             ShortOf(input, 25) * (Parts \div 100) * 2 <= price
    <3>1. LoanOf(input) \in Int /\ 100 * LoanOf(input) - 75 * price = ShortOf(input, 25)
      BY <2>2 DEF LoanOf, f04_loan_amount, ShortOf, price, deposit
    <3>2. price \in Nat \ {0}
      BY <2>2
    <3>3. /\ Above(figures.percent.ltv, 75) => 100 * LoanOf(input) - 75 * price > 0
          /\ ~ Above(figures.percent.ltv, 75) =>
               (100 * LoanOf(input) - 75 * price) * (Parts \div 100) * 2 <= price
      BY <2>3, <3>1, <3>2, LeverageLine
    <3> QED BY <3>1, <3>3
  <2>6. noi < 0 => cash < 0 /\ Below(figures.percent.net_yield, 3)
    BY <2>1, <2>2, <2>3, <2>4 DEF Below, PercentOf, Fraction
  <2>7. pretax >= 0 /\ cash < 0 => tax > 0
    BY <2>1, <2>3, <2>4
  <2> DEFINE c == Context(input, figures)
  <2>8. /\ "HIGH_LEVERAGE" \in flags <=> Above(figures.percent.ltv, 75)
        /\ "LOW_ICR_BASIC" \in flags => Below(c.icr, 125)
        /\ "LOW_ICR_HIGHER_RATE" \in flags => ~ Below(c.icr, 125)
        /\ "NEGATIVE_NOI" \in flags <=> noi < 0
        /\ "NEGATIVE_CASHFLOW" \in flags <=> cash < 0
        /\ "LOW_NET_YIELD" \in flags <=> Below(figures.percent.net_yield, 3)
        /\ "CASH_FLOW_PRE_TAX_ONLY" \in flags => pretax >= 0 /\ cash < 0
        /\ "LOW_MARGIN_SAFETY" \in flags => cash >= 0
        /\ "LTD_EXTRACTION_UNDISCLOSED" \in flags =>
             input.ownership_structure = "LIMITED_COMPANY"
        /\ "SECTION_24_IMPACT" \in flags => input.ownership_structure = "INDIVIDUAL"
    <3> HIDE DEF c
    <3>1. flags = evaluate_flags(c)
      BY DEF FlagsOf, c
    <3>2. /\ c.ltv = figures.percent.ltv /\ c.net_yield = figures.percent.net_yield
          /\ c.net_operating_income = noi /\ c.annual_cash_flow = cash
          /\ c.pre_tax_cash_flow = pretax
          /\ c.ownership_structure = input.ownership_structure
      BY ContextFields DEF c, noi, cash, pretax
    <3> HIDE DEF flags
    <3> QED BY <3>1, <3>2, FlagConditions
  <2>9. "V08" \notin warnings => ShortOf(input, 25) <= 50
    <3>1. "V08" \in warnings <=> deposit < Quot(25 * price, 100)
      BY <2>1, <2>2, DepositWarned DEF price, deposit
    <3>2. ~ (deposit < Quot(25 * price, 100)) => 25 * price - 100 * deposit <= 50
      BY <2>2, DepositLine
    <3> QED BY <3>1, <3>2 DEF ShortOf, price, deposit
  <2> HIDE DEF flags, c
  <2>10. ~ (cash < 0 /\ cash >= 0)
    BY <2>4
  <2>11. LeverageCoherent(flags)
    BY <2>5, <2>8, <2>9 DEF LeverageCoherent, price
  <2>12. /\ ~ {"LOW_ICR_BASIC", "LOW_ICR_HIGHER_RATE"} \subseteq flags
         /\ "NEGATIVE_NOI" \in flags => {"NEGATIVE_CASHFLOW", "LOW_NET_YIELD"} \subseteq flags
         /\ "CASH_FLOW_PRE_TAX_ONLY" \in flags => "NEGATIVE_CASHFLOW" \in flags /\ tax > 0
         /\ ~ {"NEGATIVE_CASHFLOW", "LOW_MARGIN_SAFETY"} \subseteq flags
         /\ "LTD_EXTRACTION_UNDISCLOSED" \in flags => "SECTION_24_IMPACT" \notin flags
    BY <2>6, <2>7, <2>8, <2>10
  <2> QED BY <2>11, <2>12 DEF FlagsCoherent, flags, tax
<1> QED BY <1>1, AnalysisHolds, PTL

\* The leasehold rules never fire on an engine input.
LEMMA LeaseholdRulesDead ==
  ASSUME NEW i, EngineInput(i)
  PROVE  {"V21", "V22"} \cap run_validation(i).hard_errors = {}
<1>1. i.annual_service_charge # None /\ i.annual_ground_rent # None
  BY InputNumbers, NoneAssumption
<1>2. ~ SettingErrors(i).V21 /\ ~ SettingErrors(i).V22
  BY <1>1 DEF SettingErrors
<1>3. {"V21", "V22"} \cap DOMAIN PurchaseErrors(i) = {}
  BY DEF PurchaseErrors
<1>4. run_validation(i).hard_errors = Fired(PurchaseErrors(i)) \cup Fired(SettingErrors(i))
  BY DEF run_validation
<1>5. Fired(PurchaseErrors(i)) \subseteq DOMAIN PurchaseErrors(i)
  BY DEF Fired
<1>6. \A code \in Fired(SettingErrors(i)) : SettingErrors(i)[code]
  BY DEF Fired
<1> QED BY <1>2, <1>3, <1>4, <1>5, <1>6

\* For any deposit, the extreme leverage flag fires only where the digits of the
\* deposit rule let the deposit pass; for any defaults, the two rules about blank
\* leasehold charges never fire.
THEOREM DeadRulesStayDead == Spec => []DeadRules
<1>1. AnalysisInv => DeadRules
  <2> SUFFICES ASSUME AnalysisInv PROVE DeadRules
    OBVIOUS
  <2>1. pc # "requested" => {"V21", "V22"} \cap run_validation(input).hard_errors = {}
    BY LeaseholdRulesDead DEF AnalysisInv, InputInv
  <2>2. ASSUME Computed, "HIGH_LEVERAGE_EXTREME" \in FlagsOf(input, figures)
        PROVE  0 < ShortOf(input, 15) /\ ShortOf(input, 15) <= 50
    <3>1. /\ EngineInput(input) /\ Valid(input)
          /\ figures = Calculated(input, payment, interest, base)
      BY <2>2, ComputedState
    <3>2. /\ input.purchase_price \in Int /\ input.deposit_amount \in Int
          /\ input.purchase_price > 0
          /\ ~ (input.deposit_amount < Quot(15 * input.purchase_price, 100))
      BY <3>1, InputNumbers, RulesHold
    <3>3. figures.percent.ltv = f05_ltv_percent(LoanOf(input), input.purchase_price)
      BY <3>1, FigureFields
    <3>4. Above(figures.percent.ltv, 85)
      BY <2>2, FlagConditions, ContextFields DEF FlagsOf
    <3>5. LoanOf(input) \in Int /\ input.purchase_price \in Nat \ {0}
      BY <3>2 DEF LoanOf, f04_loan_amount
    <3>6. 100 * LoanOf(input) - 85 * input.purchase_price > 0
      BY <3>3, <3>4, <3>5, LeverageLine
    <3>7. 15 * input.purchase_price - 100 * input.deposit_amount <= 50
      BY <3>2, DepositLine
    <3> QED BY <3>2, <3>6, <3>7 DEF ShortOf, LoanOf, f04_loan_amount
  <2> QED BY <2>1, <2>2 DEF DeadRules
<1> QED BY <1>1, AnalysisHolds, PTL

-----------------------------------------------------------------------------
(* Reproductions                                                           *)

\* Every row holds the resolved request as the columns keep it, and a later
\* input is the resolved request or that.
OriginInv ==
  /\ raw \in RawInputs
  /\ rows \in Seq({rows[k] : k \in 1 .. Len(rows)})
  /\ pc # "requested" => /\ sources = SourcesOf(raw)
                         /\ input \in {Resolved(raw), InputsRow(Resolved(raw))}
  /\ \A k \in 1 .. Len(rows) : /\ rows[k].inputs = InputsRow(Resolved(raw))
                               /\ rows[k].sources = SourcesOf(raw)

LEMMA NextOrigin == OriginInv /\ [Next]_vars => OriginInv'
<1> SUFFICES ASSUME OriginInv, [Next]_vars PROVE OriginInv'
  OBVIOUS
<1>1. CASE resolve_defaults
  BY <1>1 DEF resolve_defaults, OriginInv
<1>2. ASSUME UNCHANGED <<raw, input, sources, rows>>, pc # "requested"
      PROVE  OriginInv'
  BY <1>2 DEF OriginInv
<1>3. CASE Validate \/ Finance \/ FinanceFails \/ RepayMonth \/ TaxBand \/ Calculate
  BY <1>2, <1>3 DEF Validate, Finance, FinanceFails, RepayMonth, TaxBand, Calculate
<1>4. CASE Save
  <2> DEFINE s == Snapshot
  <2>1. /\ pc = "computed" /\ pc' # "requested"
        /\ rows' = Append(rows, s) \/ rows' = rows
        /\ UNCHANGED <<raw, input, sources>>
    BY <1>4 DEF Save
  <2>2. EngineInput(Resolved(raw))
    BY ResolvedType DEF OriginInv
  <2>3. s.inputs = InputsRow(input) /\ s.sources = sources
    BY DEF Snapshot
  <2>4. s.inputs = InputsRow(Resolved(raw)) /\ s.sources = SourcesOf(raw)
    BY <2>1, <2>2, <2>3, RowTwice DEF OriginInv
  <2> HIDE DEF s
  <2>5. CASE rows' = rows
    BY <1>2, <2>1, <2>5
  <2>6. CASE rows' = Append(rows, s)
    <3>1. /\ rows' \in Seq({rows'[k] : k \in 1 .. Len(rows')})
          /\ Len(rows) \in Nat /\ Len(rows') = Len(rows) + 1
          /\ \A k \in 1 .. Len(rows) : rows'[k] = rows[k]
          /\ rows'[Len(rows) + 1] = s
      BY <2>6 DEF OriginInv
    <3>2. ASSUME NEW k \in 1 .. Len(rows')
          PROVE  /\ rows'[k].inputs = InputsRow(Resolved(raw))
                 /\ rows'[k].sources = SourcesOf(raw)
      <4>1. CASE k = Len(rows) + 1
        BY <2>4, <3>1, <4>1
      <4>2. CASE k # Len(rows) + 1
        <5>1. k \in 1 .. Len(rows)
          BY <3>1, <4>2
        <5> QED BY <3>1, <5>1 DEF OriginInv
      <4> QED BY <4>1, <4>2
    <3> QED BY <2>1, <3>1, <3>2 DEF OriginInv
  <2> QED BY <2>1, <2>5, <2>6
<1>5. ASSUME NEW k \in 1 .. Copies, Reproduce(k) PROVE OriginInv'
  <2>1. /\ pc' = "resolved" /\ k \in 1 .. Len(rows)
        /\ input' = rows[k].inputs /\ sources' = rows[k].sources
        /\ UNCHANGED <<raw, rows>>
    BY <1>5 DEF Reproduce, OriginInv
  <2>2. input' = InputsRow(Resolved(raw)) /\ sources' = SourcesOf(raw)
    BY <2>1 DEF OriginInv
  <2> QED BY <2>1, <2>2 DEF OriginInv
<1>6. CASE UNCHANGED vars
  BY <1>6 DEF vars, OriginInv
<1> QED BY <1>1, <1>3, <1>4, <1>5, <1>6 DEF Next

\* However often an analysis is reproduced, and whatever its columns cut off,
\* all its rows hold the same inputs with the same provenance.
THEOREM ReproductionsShareInputs == Spec => []SameInputs
<1>1. Init => OriginInv
  BY DEF Init, OriginInv
<1>2. OriginInv => SameInputs
  BY DEF OriginInv, SameInputs
<1> QED BY <1>1, <1>2, NextOrigin, PTL DEF Spec
=============================================================================
