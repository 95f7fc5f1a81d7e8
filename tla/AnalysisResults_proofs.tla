----------------------- MODULE AnalysisResults_proofs -----------------------
(***************************************************************************)
(* Theorems about what comes out of an analysis: the duty follows the      *)
(* tariff, the database refuses nothing that the engine derived from sound *)
(* inputs, and a reproduction is the snapshot again.                       *)
(***************************************************************************)
EXTENDS AnalysisSize_proofs, FiniteSetTheorems

-----------------------------------------------------------------------------
(* Induction.  The theorems of the library take a predicate as a           *)
(* parameter; these take a set and a function of steps.                    *)

\* A set that holds 0 and with each number the next holds them all: if n were
\* missing, adding one would map the finite set of its members up to n into
\* itself, injectively but not onto.
LEMMA SetInduction ==
  ASSUME NEW S, 0 \in S, \A n \in Nat : n \in S => n + 1 \in S
  PROVE  \A n \in Nat : n \in S
<1> SUFFICES ASSUME NEW n \in Nat, n \notin S PROVE FALSE
  OBVIOUS
<1> DEFINE T == S \cap (0 .. n)
           f == [x \in T |-> x + 1]
<1>1. IsFiniteSet(T)
  <2>1. IsFiniteSet(0 .. n) BY FS_Interval
  <2>2. T \in SUBSET (0 .. n) OBVIOUS
  <2> HIDE DEF T
  <2> QED BY <2>1, <2>2, FS_Subset, Zenon
<1>2. \A x \in T : x \in Nat /\ x + 1 \in T
  OBVIOUS
<1>3. f \in Injection(T, T)
  BY <1>2 DEF Injection, IsInjective
<1> HIDE DEF f
<1>4. f \in Surjection(T, T)
  BY <1>1, <1>3, FS_Injection
<1>5. 0 \in T
  OBVIOUS
<1>6. \E x \in T : f[x] = 0
  BY <1>4, <1>5 DEF Surjection
<1> QED BY <1>2, <1>6 DEF f

\* h takes the first n steps from start.
Follows(h, n, start, step) ==
  h[0] = start /\ \A k \in 0 .. n - 1 : h[k + 1] = step[k][h[k]]

LEMMA OneMoreStep ==
  ASSUME NEW S, NEW start \in S, NEW step \in [Nat -> [S -> S]], NEW n \in Nat,
         NEW h \in [0 .. n -> S], Follows(h, n, start, step)
  PROVE  \E j \in [0 .. n + 1 -> S] : Follows(j, n + 1, start, step)
<1> DEFINE last == step[n][h[n]]
           j == [k \in 0 .. n + 1 |-> IF k = n + 1 THEN last ELSE h[k]]
<1>1. last \in S
  OBVIOUS
<1>2. \A k \in 0 .. n : j[k] = h[k]
  OBVIOUS
<1>3. j[n + 1] = last
  OBVIOUS
<1>4. j \in [0 .. n + 1 -> S]
  <2> HIDE DEF last
  <2> QED BY <1>1
<1> HIDE DEF j
<1>5. ASSUME NEW k \in 0 .. n PROVE j[k + 1] = step[k][j[k]]
  <2>1. CASE k = n BY <1>2, <1>3, <2>1
  <2>2. CASE k < n
    <3>1. k \in 0 .. n - 1 /\ k + 1 \in 0 .. n BY <2>2
    <3>2. h[k + 1] = step[k][h[k]] BY <3>1 DEF Follows
    <3> QED BY <1>2, <3>1, <3>2
  <2> QED BY <2>1, <2>2
<1>6. j[0] = start BY <1>2 DEF Follows
<1>7. 0 .. (n + 1) - 1 = 0 .. n OBVIOUS
<1> QED BY <1>4, <1>5, <1>6, <1>7 DEF Follows

\* g takes every step from start.
Runs(g, S, start, step) ==
  g \in [Nat -> S] /\ g[0] = start /\ \A n \in Nat : g[n + 1] = step[n][g[n]]

\* Any first value and any steps define a function on the natural numbers.
LEMMA Recursion ==
  ASSUME NEW S, NEW start \in S, NEW step \in [Nat -> [S -> S]]
  PROVE  \E g : Runs(g, S, start, step)
<1> DEFINE Reached == {n \in Nat : \E h \in [0 .. n -> S] : Follows(h, n, start, step)}
<1>1. \A n \in Nat : n \in Reached
  <2>1. 0 \in Reached
    <3>1. [k \in 0 .. 0 |-> start] \in [0 .. 0 -> S] OBVIOUS
    <3>2. Follows([k \in 0 .. 0 |-> start], 0, start, step) BY DEF Follows
    <3> QED BY <3>1, <3>2
  <2>2. ASSUME NEW n \in Nat, n \in Reached PROVE n + 1 \in Reached
    <3>1. PICK h \in [0 .. n -> S] : Follows(h, n, start, step) BY <2>2
    <3> QED BY <3>1, OneMoreStep
  <2> HIDE DEF Reached
  <2> QED BY <2>1, <2>2, SetInduction
<1>2. ASSUME NEW m \in Nat, NEW n \in Nat, m <= n, NEW h, NEW j,
             Follows(h, m, start, step), Follows(j, n, start, step)
      PROVE  \A k \in 0 .. m : h[k] = j[k]
  <2> DEFINE Agreed == {k \in Nat : k <= m => h[k] = j[k]}
  <2>1. 0 \in Agreed BY <1>2 DEF Follows
  <2>2. ASSUME NEW k \in Nat, k \in Agreed PROVE k + 1 \in Agreed
    <3> SUFFICES ASSUME k + 1 <= m PROVE h[k + 1] = j[k + 1]
      OBVIOUS
    <3>1. k \in 0 .. m - 1 /\ k \in 0 .. n - 1 BY <1>2
    <3>2. h[k] = j[k] BY <2>2
    <3> QED BY <1>2, <3>1, <3>2 DEF Follows
  <2>3. \A k \in Nat : k \in Agreed
    <3> HIDE DEF Agreed
    <3> QED BY <2>1, <2>2, SetInduction
  <2> QED BY <2>3
<1> DEFINE at(n) == CHOOSE h \in [0 .. n -> S] : Follows(h, n, start, step)
           g == [n \in Nat |-> at(n)[n]]
<1>3. ASSUME NEW n \in Nat PROVE at(n) \in [0 .. n -> S] /\ Follows(at(n), n, start, step)
  BY <1>1
<1> HIDE DEF at
<1>4. g \in [Nat -> S]
  BY <1>3
<1>5. g[0] = start
  BY <1>3 DEF Follows
<1>6. ASSUME NEW n \in Nat PROVE g[n + 1] = step[n][g[n]]
  <2>1. at(n + 1)[n + 1] = step[n][at(n + 1)[n]]
    <3>1. n \in 0 .. (n + 1) - 1 OBVIOUS
    <3>2. Follows(at(n + 1), n + 1, start, step) BY <1>3
    <3> QED BY <3>1, <3>2 DEF Follows
  <2>2. at(n)[n] = at(n + 1)[n]
    <3>1. Follows(at(n + 1), n + 1, start, step) /\ Follows(at(n), n, start, step) BY <1>3
    <3>2. \A k \in 0 .. n : at(n)[k] = at(n + 1)[k] 
      BY <1>2, <3>1
    <3> QED BY <3>2
  <2> QED BY <2>1, <2>2
<1> QED BY <1>4, <1>5, <1>6 DEF Runs

-----------------------------------------------------------------------------
(* Stamp duty                                                              *)

LEMMA BandCount == Len(Bands) \in Nat \ {0}
<1>1. 1 \in 1 .. Len(Bands)
  BY BandsAssumption
<1> QED BY <1>1, BandEnds

LEMMA ShareType ==
  ASSUME NEW p \in Int, NEW b \in 1 .. Len(Bands)
  PROVE  Share(p, b) \in Int
<1>1. Bands[b].lower \in Nat /\ Bands[b].rate \in Nat
  BY BandEnds
<1>2. Bands[b].upper # None => Bands[b].upper \in Nat
  BY BandCount, BandEnds
<1> DEFINE top == IF Bands[b].upper = None \/ p < Bands[b].upper THEN p ELSE Bands[b].upper
<1>3. top \in Int
  BY <1>2
<1> HIDE DEF top
<1>4. Max0(top - Bands[b].lower) \in Nat
  BY <1>1, <1>3 DEF Max0
<1>5. Share(p, b) = Max0(top - Bands[b].lower) * Bands[b].rate
  BY DEF Share, top
<1> QED BY <1>1, <1>4, <1>5

\* The tariff adds the bands up one by one.
LEMMA TariffSteps ==
  ASSUME NEW p \in Int
  PROVE  /\ TariffTax(p)[0] = 0
         /\ \A n \in 0 .. Len(Bands) - 1 :
              TariffTax(p)[n + 1] = TariffTax(p)[n] + Share(p, n + 1)
<1> DEFINE L == Len(Bands)
           step == [n \in Nat |-> [v \in Int |-> IF n < L THEN v + Share(p, n + 1) ELSE v]]
<1>1. step \in [Nat -> [Int -> Int]]
  <2>1. ASSUME NEW n \in Nat, n < L PROVE Share(p, n + 1) \in Int
    BY <2>1, BandCount, ShareType
  <2> QED BY <2>1
<1>2. PICK g : Runs(g, Int, 0, step)
  <2> HIDE DEF step
  <2>1. 0 \in Int
    OBVIOUS
  <2> QED BY <1>1, <2>1, Recursion, Zenon
<1>3. ASSUME NEW n \in 0 .. L - 1 PROVE g[n + 1] = g[n] + Share(p, n + 1)
  <2>1. n \in Nat /\ n < L /\ g[n] \in Int
    BY <1>2, BandCount DEF Runs
  <2>2. g[n + 1] = step[n][g[n]]
    <3> HIDE DEF step
    <3> QED BY <1>2, <2>1 DEF Runs
  <2> QED BY <2>1, <2>2
<1> DEFINE F == [n \in 0 .. L |-> g[n]]
<1>4. F = [n \in 0 .. L |-> IF n = 0 THEN 0 ELSE F[n - 1] + Share(p, n)]
  <2>1. ASSUME NEW n \in 0 .. L
        PROVE  F[n] = IF n = 0 THEN 0 ELSE F[n - 1] + Share(p, n)
    <3>1. CASE n = 0
      BY <1>2, <3>1 DEF Runs
    <3>2. CASE n # 0
      <4>1. n - 1 \in 0 .. L - 1 /\ (n - 1) + 1 = n /\ n - 1 \in 0 .. L
        BY <3>2, BandCount
      <4>2. g[n] = g[n - 1] + Share(p, n)
        BY <1>3, <4>1
      <4> QED BY <3>2, <4>1, <4>2
    <3> QED BY <3>1, <3>2
  <2> QED BY <2>1
<1> HIDE DEF F
<1>5. TariffTax(p) = [n \in 0 .. L |-> IF n = 0 THEN 0 ELSE TariffTax(p)[n - 1] + Share(p, n)]
  BY <1>4 DEF TariffTax
<1> DEFINE tariff == TariffTax(p)
<1>6. ASSUME NEW n \in 0 .. L
      PROVE  tariff[n] = IF n = 0 THEN 0 ELSE tariff[n - 1] + Share(p, n)
  <2> HIDE DEF tariff
  <2>1. tariff = [m \in 0 .. L |-> IF m = 0 THEN 0 ELSE tariff[m - 1] + Share(p, m)]
    BY <1>5 DEF tariff
  <2> QED BY <2>1
<1>7. tariff[0] = 0
  BY <1>6, BandCount
<1>8. ASSUME NEW n \in 0 .. L - 1 PROVE tariff[n + 1] = tariff[n] + Share(p, n + 1)
  <2>1. n + 1 \in 0 .. L /\ n + 1 # 0 /\ (n + 1) - 1 = n
    BY BandCount
  <2> QED BY <1>6, <2>1
<1> QED BY <1>7, <1>8

LEMMA TariffType ==
  ASSUME NEW p \in Int, NEW n \in 0 .. Len(Bands)
  PROVE  TariffTax(p)[n] \in Int
<1> DEFINE L == Len(Bands)
           tariff == TariffTax(p)
           Typed == {k \in Nat : k <= L => tariff[k] \in Int}
<1>1. /\ L \in Nat /\ tariff[0] = 0
      /\ \A k \in 0 .. L - 1 : tariff[k + 1] = tariff[k] + Share(p, k + 1)
  BY BandCount, TariffSteps
<1>2. \A k \in 0 .. L - 1 : Share(p, k + 1) \in Int
  BY <1>1, ShareType
<1> HIDE DEF L, tariff
<1>3. 0 \in Typed
  BY <1>1
<1>4. ASSUME NEW k \in Nat, k \in Typed PROVE k + 1 \in Typed
  BY <1>1, <1>2, <1>4
<1>5. \A k \in Nat : k \in Typed
  <2> HIDE DEF Typed
  <2> QED BY <1>3, <1>4, SetInduction
<1>6. n \in Nat /\ n <= L
  BY <1>1 DEF L
<1> QED BY <1>5, <1>6 DEF tariff

\* The duty so far is the tariff's up to the last band gone through.
DutyInv ==
  /\ pc = "repaying" => band = 1 /\ base = 0
  /\ pc = "banding" => base = TariffTax(input.purchase_price)[band - 1]
  /\ pc \in Counted => base = TariffTax(input.purchase_price)[Len(Bands)]

\* A band that the price reaches adds its share.
LEMMA ReachedShare ==
  ASSUME NEW p \in Int, NEW b \in 1 .. Len(Bands), BandReached(p, Bands[b])
  PROVE  TaxableInBand(p, Bands[b]) * Bands[b].rate = Share(p, b)
<1> DEFINE upper == IF Bands[b].upper # None THEN Bands[b].upper ELSE p
           top == IF Bands[b].upper = None \/ p < Bands[b].upper THEN p ELSE Bands[b].upper
<1>1. Bands[b].lower \in Nat
  BY BandEnds
<1>2. Bands[b].upper # None => Bands[b].upper \in Nat /\ Bands[b].lower < Bands[b].upper
  BY BandCount, BandEnds
<1>3. top \in Int /\ top > Bands[b].lower
  BY <1>1, <1>2 DEF BandReached
<1>4. (IF p < upper THEN p ELSE upper) = top
  BY <1>2
<1>5. TaxableInBand(p, Bands[b]) = top - Bands[b].lower
  BY <1>4 DEF TaxableInBand
<1>6. Share(p, b) = Max0(top - Bands[b].lower) * Bands[b].rate
  BY DEF Share
<1> HIDE DEF top
<1>7. Max0(top - Bands[b].lower) = top - Bands[b].lower
  BY <1>1, <1>3 DEF Max0
<1> QED BY <1>5, <1>6, <1>7

\* A band that the price does not reach adds nothing, and the next one is not
\* reached either.
LEMMA UnreachedShare ==
  ASSUME NEW p \in Int, NEW b \in 1 .. Len(Bands), p <= Bands[b].lower
  PROVE  Share(p, b) = 0 /\ (b < Len(Bands) => p <= Bands[b + 1].lower)
<1> DEFINE top == IF Bands[b].upper = None \/ p < Bands[b].upper THEN p ELSE Bands[b].upper
<1>1. Bands[b].lower \in Nat /\ Bands[b].rate \in Nat
  BY BandEnds
<1>2. Bands[b].upper # None => Bands[b].upper \in Nat /\ Bands[b].lower < Bands[b].upper
  BY BandCount, BandEnds
<1>3. top \in Int /\ top <= Bands[b].lower
  BY <1>1, <1>2
<1>4. Share(p, b) = Max0(top - Bands[b].lower) * Bands[b].rate
  BY DEF Share
<1> HIDE DEF top
<1>5. Max0(top - Bands[b].lower) = 0
  BY <1>1, <1>3 DEF Max0
<1>6. b < Len(Bands) => p <= Bands[b + 1].lower
  <2> SUFFICES ASSUME b < Len(Bands) PROVE p <= Bands[b + 1].lower
    OBVIOUS
  <2>1. Bands[b].upper = Bands[b + 1].lower /\ Bands[b].upper \in Nat /\ Bands[b].lower < Bands[b].upper
    BY BandEnds
  <2> QED BY <1>1, <2>1
<1> QED BY <1>1, <1>4, <1>5, <1>6

\* From the first band that the price does not reach, the tariff adds nothing.
LEMMA TariffEnds ==
  ASSUME NEW p \in Int, NEW b \in 1 .. Len(Bands), p <= Bands[b].lower
  PROVE  TariffTax(p)[Len(Bands)] = TariffTax(p)[b - 1]
<1> DEFINE L == Len(Bands)
           tariff == TariffTax(p)
           Ended == {n \in Nat : b + n <= L => /\ p <= Bands[b + n].lower
                                               /\ tariff[b + n] = tariff[b - 1]}
<1>1. L \in Nat \ {0} /\ b \in Nat \ {0}
  BY BandCount
<1>2. ASSUME NEW c \in 1 .. L, p <= Bands[c].lower
      PROVE  tariff[c] = tariff[c - 1] /\ (c < L => p <= Bands[c + 1].lower)
  <2>1. c - 1 \in 0 .. L - 1 /\ (c - 1) + 1 = c /\ c - 1 \in 0 .. L
    BY <1>1
  <2>2. tariff[c - 1] \in Int
    BY <2>1, TariffType
  <2>3. tariff[c] = tariff[c - 1] + Share(p, c)
    <3>1. \A n \in 0 .. L - 1 : tariff[n + 1] = tariff[n] + Share(p, n + 1)
      BY TariffSteps
    <3> HIDE DEF L, tariff
    <3> QED BY <2>1, <3>1
  <2>4. Share(p, c) = 0 /\ (c < L => p <= Bands[c + 1].lower)
    BY <1>2, UnreachedShare
  <2> HIDE DEF tariff
  <2> QED BY <2>2, <2>3, <2>4
<1>3. 0 \in Ended
  BY <1>1, <1>2
<1>4. ASSUME NEW n \in Nat, n \in Ended PROVE n + 1 \in Ended
  <2> SUFFICES ASSUME b + (n + 1) <= L
               PROVE  /\ p <= Bands[b + (n + 1)].lower
                      /\ tariff[b + (n + 1)] = tariff[b - 1]
    OBVIOUS
  <2> DEFINE c == b + n
  <2>1. c \in 1 .. L /\ c + 1 \in 1 .. L /\ c < L /\ c + 1 = b + (n + 1) /\ (c + 1) - 1 = c
    BY <1>1
  <2>2. p <= Bands[c].lower /\ tariff[c] = tariff[b - 1]
    BY <1>4, <2>1
  <2>3. p <= Bands[c + 1].lower
    BY <1>2, <2>1, <2>2
  <2>4. tariff[c + 1] = tariff[c]
    BY <1>2, <2>1, <2>3
  <2> HIDE DEF c, tariff, L
  <2> QED BY <2>1, <2>2, <2>3, <2>4
<1>5. \A n \in Nat : n \in Ended
  <2> HIDE DEF Ended
  <2> QED BY <1>3, <1>4, SetInduction
<1>6. L - b \in Nat /\ b + (L - b) = L
  BY <1>1
<1>7. L - b \in Ended
  <2> HIDE DEF Ended
  <2> QED BY <1>5, <1>6
<1> QED BY <1>6, <1>7

\* Whatever happens outside the loop leaves the duty alone.
LEMMA NextDuty == AnalysisInv /\ DutyInv /\ [Next]_vars => DutyInv'
<1> SUFFICES ASSUME AnalysisInv, DutyInv, [Next]_vars PROVE DutyInv'
  OBVIOUS
<1>1. CASE resolve_defaults
  BY <1>1 DEF resolve_defaults, DutyInv, Counted, Financed, Passed
<1>2. CASE Validate
  BY <1>2 DEF Validate, DutyInv, Counted, Financed, Passed
<1>3. CASE Finance
  <2>1. /\ pc' \in {"repaying", "banding"} /\ band' = 1 /\ base' = 0 /\ input' = input
        /\ EngineInput(input)
    BY <1>3 DEF Finance, AnalysisInv, InputInv
  <2>2. TariffTax(input.purchase_price)[0] = 0
    BY <2>1, InputNumbers, TariffSteps
  <2> QED BY <2>1, <2>2 DEF DutyInv, Counted, Financed, Passed
<1>10. CASE FinanceFails
  BY <1>10 DEF FinanceFails, DutyInv, Counted, Financed, Passed
<1>4. CASE RepayMonth
  <2>1. /\ pc = "repaying" /\ pc' \in {"repaying", "banding"}
        /\ UNCHANGED <<input, band, base>> /\ EngineInput(input)
    BY <1>4 DEF RepayMonth, bands, AnalysisInv, InputInv
  <2>2. TariffTax(input.purchase_price)[0] = 0
    BY <2>1, InputNumbers, TariffSteps
  <2> QED BY <2>1, <2>2 DEF DutyInv, Counted, Financed, Passed
<1>5. CASE TaxBand
  <2> DEFINE price == input.purchase_price
             tariff == TariffTax(price)
             amount == TaxableInBand(price, Bands[band])
  <2>1. /\ pc = "banding" /\ pc' = "banding" /\ band <= Len(Bands)
        /\ BandReached(price, Bands[band])
        /\ base' = base + amount * Bands[band].rate /\ band' = band + 1 /\ input' = input
    BY <1>5 DEF TaxBand, MoreBands
  <2>2. band \in 1 .. Len(Bands) /\ price \in Int
    BY <2>1, BandCount, InputNumbers DEF AnalysisInv, TypeOK, InputInv
  <2>3. base = tariff[band - 1]
    BY <2>1 DEF DutyInv
  <2>4. amount * Bands[band].rate = Share(price, band)
    BY <2>1, <2>2, ReachedShare
  <2>5. tariff[band] = tariff[band - 1] + Share(price, band)
    <3>1. band - 1 \in 0 .. Len(Bands) - 1 /\ (band - 1) + 1 = band
      BY <2>2, BandCount
    <3>2. \A n \in 0 .. Len(Bands) - 1 : tariff[n + 1] = tariff[n] + Share(price, n + 1)
      BY <2>2, TariffSteps
    <3> HIDE DEF tariff
    <3> QED BY <3>1, <3>2
  <2>6. base' = tariff[band] /\ band' - 1 = band
    <3> HIDE DEF tariff, amount, price
    <3> QED BY <2>1, <2>2, <2>3, <2>4, <2>5
  <2>7. base' = TariffTax(input'.purchase_price)[band' - 1]
    BY <2>1, <2>6
  <2> QED BY <2>1, <2>7 DEF DutyInv, Counted, Financed, Passed
<1>6. CASE Calculate
  <2> DEFINE price == input.purchase_price
             tariff == TariffTax(price)
  <2>1. /\ pc = "banding" /\ pc' \in {"error", "computed"}
        /\ ~ (band <= Len(Bands) /\ price > Bands[band].lower)
        /\ UNCHANGED <<input, band, base>>
    BY <1>6 DEF Calculate, MoreBands, BandReached, bands
  <2>2. band \in 1 .. Len(Bands) + 1 /\ price \in Int
    BY <2>1, InputNumbers DEF AnalysisInv, TypeOK, InputInv
  <2>3. base = tariff[band - 1]
    BY <2>1 DEF DutyInv
  <2>4. CASE band \in 1 .. Len(Bands)
    <3>1. price <= Bands[band].lower
      BY <2>1, <2>2, <2>4, BandEnds, BandCount
    <3>2. tariff[Len(Bands)] = tariff[band - 1]
      BY <2>2, <2>4, <3>1, TariffEnds
    <3> QED BY <2>1, <2>3, <3>2 DEF DutyInv, Counted, Financed, Passed
  <2>5. CASE band = Len(Bands) + 1
    <3>1. band - 1 = Len(Bands)
      BY <2>5, BandCount
    <3> QED BY <2>1, <2>3, <3>1 DEF DutyInv, Counted, Financed, Passed
  <2> QED BY <2>2, <2>4, <2>5, BandCount
<1>7. CASE Save
  BY <1>7 DEF Save, bands, DutyInv, Counted, Financed, Passed
<1>8. ASSUME NEW k \in 1 .. Copies, Reproduce(k) PROVE DutyInv'
  BY <1>8 DEF Reproduce, DutyInv, Counted, Financed, Passed
<1>9. CASE UNCHANGED vars
  BY <1>9 DEF vars, bands, DutyInv
<1> QED BY <1>1, <1>2, <1>3, <1>4, <1>5, <1>6, <1>7, <1>8, <1>9, <1>10 DEF Next

LEMMA DutyHolds == Spec => []DutyInv
<1>1. Init => DutyInv
  BY DEF Init, DutyInv, Counted, Financed, Passed
<1> QED BY <1>1, NextDuty, AnalysisHolds, PTL DEF Spec

\* For any price and any tariff without gaps and overlaps, the loop over the
\* bands, which stops at the first one out of reach, charges what the whole
\* tariff adds up to.
THEOREM DutyIsTariff == Spec => []DutyFollowsTariff
<1>1. AnalysisInv /\ DutyInv => DutyFollowsTariff
  BY DEF AnalysisInv, FiguresInv, DutyInv, DutyFollowsTariff, Counted, Financed, Passed
<1> QED BY <1>1, AnalysisHolds, DutyHolds, PTL

-----------------------------------------------------------------------------
(* What the tables refuse                                                  *)

LEMMA PennyNatural ==
  ASSUME NEW v \in Nat
  PROVE  RoundPenny(v) \in Nat /\ RoundOrNone(v) \in Nat
<1>1. Cent \in Nat \ {0}
  BY GridAssumption
<1>2. Quot(v, Cent) \in Nat
  BY <1>1, QuotNatural
<1>3. HalfUp(v, Cent) = Quot(v, Cent)
  BY DEF HalfUp
<1> QED BY <1>1, <1>2, <1>3, NoneAssumption DEF RoundPenny, RoundOrNone

\* A share of a whole is a natural number of percent.
LEMMA PercentNatural ==
  ASSUME NEW part \in Nat, NEW whole \in Nat \ {0}
  PROVE  /\ RoundPercent(PercentOf(part, whole)) \in Nat
         /\ RoundPercent(Fraction(100 * part, whole)) \in Nat
<1> DEFINE f == Fraction(100 * part, whole)
<1>1. f = [num |-> 100 * part, den |-> whole]
  BY DEF Fraction
<1>2. f \in [num : Int, den : Int]
  BY <1>1
<1>3. f # None /\ f.num = 100 * part /\ f.den = whole
  BY <1>1, <1>2, NoneAssumption
<1> HIDE DEF f
<1>4. PercentOf(part, whole) = f
  BY DEF PercentOf, f
<1>5. 100 * part \in Nat
  OBVIOUS
<1>6. RoundPercent(f) = Quot(100 * part, whole)
  BY <1>3, <1>5 DEF RoundPercent, HalfUp
<1>7. Quot(100 * part, whole) \in Nat
  BY <1>5, QuotNatural
<1> QED BY <1>4, <1>6, <1>7 DEF f

\* The rounded loan to value of a loan up to the price is at most a hundred
\* percent.
LEMMA LtvRange ==
  ASSUME NEW loan \in Nat, NEW price \in Nat \ {0}, loan <= price
  PROVE  RoundPercent(f05_ltv_percent(loan, price)) \in 0 .. 100
<1> DEFINE c == Parts \div 100
           n == InParts(loan, price)
           f == f05_ltv_percent(loan, price)
           share == c * (100 * loan)
           whole == c * 100
<1>1. c \in Nat \ {0}
  BY PartsAssumption
<1>2. /\ n \in Int /\ 2 * (price * n) - 2 * share <= price
      /\ 2 * share - 2 * (price * n) <= price
  BY PartsNearest
<1>3. f = [num |-> n, den |-> c]
  BY DEF f05_ltv_percent
<1>4. f # None /\ f.num = n /\ f.den = c
  <2>1. f \in [num : Int, den : Int]
    BY <1>1, <1>2, <1>3
  <2> HIDE DEF f, n, c
  <2> QED BY <1>3, <2>1, NoneAssumption
<1> HIDE DEF c, n, f
<1>5. share \in Nat /\ share <= price * whole /\ whole \in Nat
  <2>1. c * 100 \in Nat /\ share = loan * (c * 100)
    BY <1>1
  <2>2. loan * (c * 100) <= price * (c * 100)
    BY <2>1
  <2>3. loan * (c * 100) \in Nat
    BY <2>1
  <2> QED BY <2>1, <2>2, <2>3
<1> HIDE DEF share, whole
<1>6. price * n \in Int /\ price * whole \in Int
  BY <1>2, <1>5
<1>7. n >= 0
  <2>1. n <= -1 => price * n <= price * (-1)
    BY <1>2
  <2>2. price * (-1) = -price
    OBVIOUS
  <2> QED BY <1>2, <1>5, <1>6, <2>1, <2>2
<1>8. n <= whole
  <2>1. n >= whole + 1 => price * n >= price * (whole + 1)
    BY <1>2, <1>5
  <2>2. price * (whole + 1) = price * whole + price
    BY <1>5
  <2> QED BY <1>2, <1>5, <1>6, <2>1, <2>2
<1>9. RoundPercent(f) = Quot(n, c)
  BY <1>4, <1>7 DEF RoundPercent, HalfUp
<1>10. Quot(n, c) \in Nat
  BY <1>1, <1>2, <1>7, QuotNatural
<1>11. Quot(n, c) <= Quot(whole, c)
  BY <1>1, <1>2, <1>5, <1>8, QuotMonotone
<1>12. Quot(whole, c) = 100
  BY <1>1, QuotOfProduct DEF whole
<1> QED BY <1>9, <1>10, <1>11, <1>12 DEF f

\* The figures that the tables check and FigureFields does not name.
LEMMA CheckedFields ==
  ASSUME NEW i, NEW monthly, NEW looped, NEW base0, NEW fig,
         fig = Calculated(i, monthly, looped, base0)
  PROVE  /\ fig.money.effective_annual_rent = Rent(i)
         /\ fig.money.total_operating_costs = Operating(i)
         /\ fig.optional = TaxOn(i, looped).optional
         /\ fig.percent.gross_yield = PercentOf(GrossRent(i), i.purchase_price)
         /\ fig.percent.icr = f22_icr_percent(Rent(i), Quot(LoanOf(i) * StressRate, 100))
         /\ {"gross_annual_rent", "effective_annual_rent", "total_operating_costs",
             "annual_tax_liability", "total_sdlt", "total_acquisition_cost",
             "total_cash_deployed", "loan_amount", "sdlt_base", "sdlt_surcharge"}
              \subseteq DOMAIN fig.money
         /\ {"ltv", "icr", "gross_yield"} \subseteq DOMAIN fig.percent
<1> USE DEF Calculated, GrossRent, Rent, Costs, Operating, Yearly, TaxOn, LoanOf
<1>1. /\ fig.money.effective_annual_rent = Rent(i)
      /\ fig.money.total_operating_costs = Operating(i)
      /\ fig.optional = TaxOn(i, looped).optional
  OBVIOUS
<1>2. /\ fig.percent.gross_yield = PercentOf(GrossRent(i), i.purchase_price)
      /\ fig.percent.icr = f22_icr_percent(Rent(i), Quot(LoanOf(i) * StressRate, 100))
  BY DEF f16_gross_yield_percent, f22_stressed_annual_interest
<1>3. /\ {"gross_annual_rent", "effective_annual_rent", "total_operating_costs",
          "annual_tax_liability", "total_sdlt", "total_acquisition_cost",
          "total_cash_deployed", "loan_amount", "sdlt_base", "sdlt_surcharge"}
           \subseteq DOMAIN fig.money
      /\ {"ltv", "icr", "gross_yield"} \subseteq DOMAIN fig.percent
  OBVIOUS
<1> QED BY <1>1, <1>2, <1>3

\* An input that the rules and the tables take: no cost below zero, the tax band
\* of its owner, and nothing finer or wider than its column.
Sound(i) == EngineInput(i) /\ Valid(i) /\ ~ Unstorable(i)

LEMMA WidthType ==
  ASSUME NEW f
  PROVE  Width(f) \in Nat
<1>1. PercentLimit \in Nat /\ RateScale \in Nat
  BY GridAssumption, RateAssumption
<1>2. PercentLimit * RateScale \in Nat
  BY <1>1
<1> QED BY <1>1, <1>2 DEF Width

LEMMA SoundNumbers ==
  ASSUME NEW i, Sound(i)
  PROVE  /\ i.purchase_price \in Nat \ {0} /\ i.monthly_rent \in Nat \ {0}
         /\ i.deposit_amount \in Nat \ {0} /\ i.deposit_amount < i.purchase_price
         /\ i.mortgage_interest_rate \in Nat /\ i.mortgage_term_years \in 5 .. 35
         /\ i.void_rate_percent \in 0 .. 100 /\ i.letting_agent_fee_percent \in Nat
         /\ i.maintenance_reserve_percent \in Nat /\ i.landlord_insurance_annual \in Nat
         /\ i.purchase_legal_costs \in Nat /\ i.refurbishment_cost \in Nat
         /\ i.annual_service_charge \in Nat /\ i.annual_ground_rent \in Nat
         /\ i.annual_accountancy_cost \in Nat
         /\ \A f \in PercentInputs : i[f] < Width(f)
         /\ \/ i.ownership_structure = "INDIVIDUAL" /\ i.income_tax_band # None
            \/ i.ownership_structure = "LIMITED_COMPANY" /\ i.income_tax_band = None
<1>1. EngineInput(i) /\ Valid(i) /\ ~ Unstorable(i)
  BY DEF Sound
<1>2. /\ ~ (i.purchase_legal_costs < 0) /\ ~ (i.refurbishment_cost < 0)
      /\ ~ (i.annual_service_charge < 0) /\ ~ (i.annual_ground_rent < 0)
      /\ ~ (i.annual_accountancy_cost < 0) /\ ~ (i.landlord_insurance_annual < 0)
      /\ ~ (i.letting_agent_fee_percent < 0) /\ ~ (i.maintenance_reserve_percent < 0)
  BY <1>1 DEF Unstorable
<1>3. /\ ~ (i.ownership_structure = "LIMITED_COMPANY" /\ i.income_tax_band # None)
      /\ \A f \in PercentInputs : ~ (i[f] >= Width(f))
  BY <1>1 DEF Unstorable
<1>4. /\ i.purchase_price \in Int /\ i.monthly_rent \in Int /\ i.deposit_amount \in Int
      /\ i.mortgage_interest_rate \in Int
      /\ i.void_rate_percent \in Int /\ i.letting_agent_fee_percent \in Int
      /\ i.maintenance_reserve_percent \in Int /\ i.landlord_insurance_annual \in Int
      /\ i.purchase_legal_costs \in Int /\ i.refurbishment_cost \in Int
      /\ i.annual_service_charge \in Int /\ i.annual_ground_rent \in Int
      /\ i.annual_accountancy_cost \in Int
      /\ i.ownership_structure \in {"INDIVIDUAL", "LIMITED_COMPANY"}
  BY <1>1, InputNumbers DEF OwnershipStructure
<1>5. /\ ~ (i.purchase_price <= 0) /\ ~ (i.monthly_rent <= 0) /\ ~ (i.deposit_amount <= 0)
      /\ ~ (i.deposit_amount >= i.purchase_price) /\ ~ (i.mortgage_interest_rate < 0)
      /\ i.mortgage_term_years \in 5 .. 35
      /\ ~ (i.ownership_structure = "INDIVIDUAL" /\ i.income_tax_band = None)
      /\ ~ (i.void_rate_percent < 0 \/ i.void_rate_percent > 100)
  BY <1>1, RulesHold
<1>6. \A f \in PercentInputs : i[f] < Width(f)
  <2>1. \A f \in PercentInputs : i[f] \in Int /\ Width(f) \in Int
    BY <1>4, WidthType DEF PercentInputs
  <2> QED BY <1>3, <2>1
<1>7. /\ i.purchase_price \in Nat \ {0} /\ i.monthly_rent \in Nat \ {0}
      /\ i.deposit_amount \in Nat \ {0} /\ i.deposit_amount < i.purchase_price
      /\ i.mortgage_interest_rate \in Nat
      /\ i.void_rate_percent \in 0 .. 100
  BY <1>4, <1>5
<1>8. /\ i.maintenance_reserve_percent \in Nat /\ i.landlord_insurance_annual \in Nat
      /\ i.purchase_legal_costs \in Nat /\ i.refurbishment_cost \in Nat
      /\ i.annual_service_charge \in Nat /\ i.annual_ground_rent \in Nat
      /\ i.annual_accountancy_cost \in Nat /\ i.letting_agent_fee_percent \in Nat
  BY <1>2, <1>4
<1> QED BY <1>3, <1>4, <1>5, <1>6, <1>7, <1>8

\* Sound inputs are written as they are, and pass every CHECK on inputs.
LEMMA InputsPass ==
  ASSUME NEW i, Sound(i), i = [f \in DOMAIN i |-> i[f]]
  PROVE  InputsRow(i) = i /\ Failed(InputsChecks(i)) = {}
<1>1. InputsRow(i) = i
  <2>1. AtColumnScale(i)
    BY DEF Sound, Unstorable
  <2>2. InputsRow(i) = [f \in DOMAIN i |-> i[f]]
    BY <2>1 DEF AtColumnScale, InputsRow
  <2> QED BY <2>2
<1>2. \A c \in DOMAIN InputsChecks(i) : InputsChecks(i)[c]
  <2> DEFINE checks == InputsChecks(i)
  <2>1. DOMAIN checks = {"purchase_price", "monthly_rent", "deposit_range", "rate", "term",
          "void_rate", "refurbishment_cost", "annual_service_charge", "annual_ground_rent",
          "annual_accountancy_cost", "tax_band_consistency"}
    BY DEF InputsChecks
  <2>2. /\ checks.purchase_price = (i.purchase_price > 0)
        /\ checks.monthly_rent = (i.monthly_rent > 0)
        /\ checks.deposit_range
             = (0 < i.deposit_amount /\ i.deposit_amount < i.purchase_price)
        /\ checks.rate = (i.mortgage_interest_rate >= 0)
        /\ checks.term = (i.mortgage_term_years \in 5 .. 35)
        /\ checks.void_rate = (i.void_rate_percent \in 0 .. 100)
    BY DEF InputsChecks
  <2>3. /\ checks.refurbishment_cost = (i.refurbishment_cost >= 0)
        /\ checks.annual_service_charge = (i.annual_service_charge >= 0)
        /\ checks.annual_ground_rent = (i.annual_ground_rent >= 0)
        /\ checks.annual_accountancy_cost = (i.annual_accountancy_cost >= 0)
        /\ checks.tax_band_consistency
             = (\/ i.ownership_structure = "INDIVIDUAL" /\ i.income_tax_band # None
                \/ i.ownership_structure = "LIMITED_COMPANY" /\ i.income_tax_band = None)
    BY DEF InputsChecks
  <2> HIDE DEF checks
  <2>4. /\ i.purchase_price > 0 /\ i.monthly_rent > 0
        /\ 0 < i.deposit_amount /\ i.deposit_amount < i.purchase_price
        /\ i.mortgage_interest_rate >= 0
        /\ i.mortgage_term_years \in 5 .. 35 /\ i.void_rate_percent \in 0 .. 100
        /\ i.refurbishment_cost >= 0 /\ i.annual_service_charge >= 0
        /\ i.annual_ground_rent >= 0 /\ i.annual_accountancy_cost >= 0
    BY SoundNumbers
  <2>5. /\ checks.purchase_price /\ checks.monthly_rent /\ checks.deposit_range
        /\ checks.rate /\ checks.term /\ checks.void_rate
        /\ checks.refurbishment_cost /\ checks.annual_service_charge
        /\ checks.annual_ground_rent /\ checks.annual_accountancy_cost
    BY <2>2, <2>3, <2>4, Zenon
  <2>6. checks.tax_band_consistency
    BY <2>3, SoundNumbers, Zenon
  <2>7. \A c \in DOMAIN checks : checks[c]
    BY <2>1, <2>5, <2>6, Zenon
  <2> QED BY <2>7 DEF checks
<1> QED BY <1>1, <1>2 DEF Failed

\* What sound inputs earn, cost and borrow is not below zero.
LEMMA SoundFigures ==
  ASSUME NEW i, Sound(i), NEW base0 \in Nat
  PROVE  /\ GrossRent(i) \in Nat /\ Rent(i) \in Nat /\ Operating(i) \in Nat
         /\ LoanOf(i) \in Nat /\ LoanOf(i) <= i.purchase_price
         /\ Quot(LoanOf(i) * StressRate, 100) \in Nat
         /\ SurchargeOn(i) \in Nat /\ Duty(i, base0) \in Nat
         /\ Quot(base0, 100) \in Nat /\ Quot(SurchargeOn(i), 100) \in Nat
<1>1. /\ i.purchase_price \in Nat \ {0} /\ i.monthly_rent \in Nat \ {0}
      /\ i.deposit_amount \in Nat \ {0} /\ i.deposit_amount < i.purchase_price
      /\ i.void_rate_percent \in 0 .. 100 /\ i.letting_agent_fee_percent \in Nat
      /\ i.maintenance_reserve_percent \in Nat /\ i.landlord_insurance_annual \in Nat
      /\ i.annual_service_charge \in Nat /\ i.annual_ground_rent \in Nat
      /\ i.annual_accountancy_cost \in Nat
  BY SoundNumbers
<1>2. VatRate \in Nat /\ SurchargeRate \in Nat /\ StressRate \in Nat
  BY ConfigurationAssumption
<1>3. GrossRent(i) \in Nat
  BY <1>1 DEF GrossRent, f01_gross_annual_rent
<1>4. Rent(i) \in Nat
  <2>1. 100 - i.void_rate_percent \in Nat
    BY <1>1
  <2>2. GrossRent(i) * (100 - i.void_rate_percent) \in Nat
    BY <1>3, <2>1
  <2>3. Rent(i) = Quot(GrossRent(i) * (100 - i.void_rate_percent), 100)
    BY DEF Rent, f03_effective_annual_rent, f02_void_rate_decimal
  <2> QED BY <2>2, <2>3, QuotNatural
<1>5. Costs(i).letting \in Nat
  <2>1. GrossRent(i) * i.letting_agent_fee_percent * (100 + VatRate) \in Nat
    BY <1>1, <1>2, <1>3
  <2>2. Costs(i).letting = Quot(GrossRent(i) * i.letting_agent_fee_percent * (100 + VatRate), 10000)
    BY DEF Costs, CostsOf, f09_letting_agent_annual
  <2> QED BY <2>1, <2>2, QuotNatural
<1>6. Costs(i).maintenance \in Nat
  <2>1. i.purchase_price * i.maintenance_reserve_percent \in Nat
    BY <1>1
  <2>2. Costs(i).maintenance = Quot(i.purchase_price * i.maintenance_reserve_percent, 100)
    BY DEF Costs, CostsOf, f10_annual_maintenance_reserve
  <2> QED BY <2>1, <2>2, QuotNatural
<1>7. Operating(i) \in Nat
  <2>1. /\ Costs(i).insurance = i.landlord_insurance_annual
        /\ Costs(i).service = i.annual_service_charge
        /\ Costs(i).ground = i.annual_ground_rent
        /\ Costs(i).accountancy = i.annual_accountancy_cost
    BY DEF Costs, CostsOf
  <2>2. Operating(i) = Costs(i).letting + Costs(i).maintenance + Costs(i).insurance
                        + Costs(i).service + Costs(i).ground + Costs(i).accountancy
    BY DEF Operating, f11_total_operating_costs
  <2> QED BY <1>1, <1>5, <1>6, <2>1, <2>2
<1>8. LoanOf(i) \in Nat /\ LoanOf(i) <= i.purchase_price
  BY <1>1 DEF LoanOf, f04_loan_amount
<1>9. Quot(LoanOf(i) * StressRate, 100) \in Nat
  <2>1. LoanOf(i) * StressRate \in Nat
    BY <1>2, <1>8
  <2> QED BY <2>1, QuotNatural
<1>10. SurchargeOn(i) \in Nat
  <2>1. i.purchase_price * SurchargeRate \in Nat
    BY <1>1, <1>2
  <2> QED BY <2>1 DEF SurchargeOn, Surcharge
<1>11. Duty(i, base0) \in Nat /\ Quot(base0, 100) \in Nat /\ Quot(SurchargeOn(i), 100) \in Nat
  BY <1>10, QuotNatural DEF Duty
<1> QED BY <1>3, <1>4, <1>7, <1>8, <1>9, <1>10, <1>11

\* Each gross tax and the credit are blank or not below zero, when a year's
\* interest is not.
LEMMA SoundTax ==
  ASSUME NEW i, Sound(i), NEW looped \in Int, Yearly(i, looped) >= 0
  PROVE  LET o == TaxOn(i, looped).optional
         IN /\ DOMAIN o = {"income_tax_gross", "mortgage_interest_tax_credit",
                           "corporation_tax_gross"}
            /\ \A f \in DOMAIN o : o[f] = None \/ o[f] \in Nat
<1> DEFINE o == TaxOn(i, looped).optional
           p == Rent(i) - Operating(i)
           yearly == Yearly(i, looped)
<1>1. EngineInput(i) /\ Valid(i)
  BY DEF Sound
<1>2. /\ p \in Int /\ yearly \in Nat /\ TaxedProfit(Rent(i), Costs(i)) = p
  BY <1>1, FigureTypes, YearlyType
<1>3. CASE i.ownership_structure = "INDIVIDUAL"
  <2>1. i.income_tax_band \in {"BASIC_RATE", "HIGHER_RATE", "ADDITIONAL_RATE"}
    BY <1>1, <1>3, TaxFields
  <2>2. o = [income_tax_gross |-> Quot(IncomeTax(p, i.income_tax_band), 100),
             mortgage_interest_tax_credit |-> Quot(yearly * CreditRate, 100),
             corporation_tax_gross |-> None]
    BY <1>2, <1>3 DEF TaxOn, TaxOf, calculate_individual_tax
  <2> HIDE DEF p, yearly, o
  <2>3. IncomeTaxRate(i.income_tax_band) \in Nat /\ Max0(p) \in Nat
    BY <1>2, <2>1 DEF IncomeTaxRate, Max0
  <2>4. IncomeTax(p, i.income_tax_band) \in Nat /\ yearly * CreditRate \in Nat
    BY <1>2, <2>3 DEF IncomeTax, CreditRate
  <2>5. /\ Quot(IncomeTax(p, i.income_tax_band), 100) \in Nat
        /\ Quot(yearly * CreditRate, 100) \in Nat
    BY <2>4, QuotNatural
  <2>6. /\ DOMAIN o = {"income_tax_gross", "mortgage_interest_tax_credit",
                        "corporation_tax_gross"}
        /\ \A f \in DOMAIN o : o[f] = None \/ o[f] \in Nat
    BY <2>2, <2>5
  <2> QED BY <2>6 DEF o
<1>4. CASE i.ownership_structure # "INDIVIDUAL"
  <2>1. o = [income_tax_gross |-> None, mortgage_interest_tax_credit |-> None,
             corporation_tax_gross |-> CorporationTax(p - yearly)]
    BY <1>2, <1>4 DEF TaxOn, TaxOf, calculate_limited_company_tax
  <2> HIDE DEF p, yearly, o
  <2>2. CorporationTax(p - yearly) \in Nat
    BY <1>2, CorporationTaxNatural
  <2>3. /\ DOMAIN o = {"income_tax_gross", "mortgage_interest_tax_credit",
                        "corporation_tax_gross"}
        /\ \A f \in DOMAIN o : o[f] = None \/ o[f] \in Nat
    BY <2>1, <2>2
  <2> QED BY <2>3 DEF o
<1> QED BY <1>3, <1>4

\* The figures of sound inputs pass every CHECK on outputs and intermediates.
LEMMA FiguresPass ==
  ASSUME NEW i, Sound(i), NEW monthly, NEW looped \in Int, NEW base0 \in Nat, NEW fig,
         fig = Calculated(i, monthly, looped, base0), Yearly(i, looped) >= 0
  PROVE  Failed(OutputsChecks(Rounded(fig))) = {} /\ Failed(IntermediatesChecks(Rounded(fig))) = {}
<1> DEFINE r == Rounded(fig)
           sums == {"gross_annual_rent", "effective_annual_rent", "total_operating_costs",
                    "annual_tax_liability", "total_sdlt", "total_acquisition_cost",
                    "total_cash_deployed", "loan_amount", "sdlt_base", "sdlt_surcharge"}
<1>1. EngineInput(i) /\ Valid(i)
  BY DEF Sound
<1>2. /\ GrossRent(i) \in Nat /\ Rent(i) \in Nat /\ Operating(i) \in Nat
      /\ LoanOf(i) \in Nat /\ LoanOf(i) <= i.purchase_price
      /\ Quot(LoanOf(i) * StressRate, 100) \in Nat
      /\ Duty(i, base0) \in Nat
      /\ Quot(base0, 100) \in Nat /\ Quot(SurchargeOn(i), 100) \in Nat
      /\ TaxOn(i, looped).liability \in Nat
  BY <1>1, SoundFigures, TaxFields
<1>3. /\ i.purchase_price \in Nat \ {0} /\ i.deposit_amount \in Nat
      /\ i.purchase_legal_costs \in Nat /\ i.refurbishment_cost \in Nat
  BY SoundNumbers
<1>4. /\ fig.money.gross_annual_rent = GrossRent(i)
      /\ fig.money.effective_annual_rent = Rent(i)
      /\ fig.money.total_operating_costs = Operating(i)
      /\ fig.money.annual_tax_liability = TaxOn(i, looped).liability
      /\ fig.money.total_sdlt = Duty(i, base0)
      /\ fig.money.loan_amount = LoanOf(i)
      /\ fig.money.sdlt_base = Quot(base0, 100)
      /\ fig.money.sdlt_surcharge = Quot(SurchargeOn(i), 100)
      /\ fig.money.total_acquisition_cost
           = i.purchase_price + Duty(i, base0) + i.purchase_legal_costs + i.refurbishment_cost
      /\ fig.money.total_cash_deployed
           = i.deposit_amount + Duty(i, base0) + i.purchase_legal_costs + i.refurbishment_cost
  BY FigureFields, CheckedFields
<1>5. \A f \in sums : fig.money[f] \in Nat
  BY <1>2, <1>3, <1>4
<1>6. \A f \in sums : r.money[f] \in Nat
  <2>1. sums \subseteq DOMAIN fig.money
    BY CheckedFields
  <2>2. \A f \in DOMAIN fig.money : r.money[f] = RoundPenny(fig.money[f])
    BY DEF Rounded
  <2> HIDE DEF r, sums
  <2> QED BY <1>5, <2>1, <2>2, PennyNatural
<1>7. /\ r.percent.ltv = RoundPercent(f05_ltv_percent(LoanOf(i), i.purchase_price))
      /\ r.percent.gross_yield = RoundPercent(PercentOf(GrossRent(i), i.purchase_price))
      /\ r.percent.icr
           = RoundPercent(f22_icr_percent(Rent(i), Quot(LoanOf(i) * StressRate, 100)))
  <2>1. {"ltv", "icr", "gross_yield"} \subseteq DOMAIN fig.percent
    BY CheckedFields
  <2>2. \A f \in DOMAIN fig.percent : r.percent[f] = RoundPercent(fig.percent[f])
    BY DEF Rounded
  <2>3. /\ fig.percent.ltv = f05_ltv_percent(LoanOf(i), i.purchase_price)
        /\ fig.percent.gross_yield = PercentOf(GrossRent(i), i.purchase_price)
        /\ fig.percent.icr = f22_icr_percent(Rent(i), Quot(LoanOf(i) * StressRate, 100))
    BY FigureFields, CheckedFields
  <2> HIDE DEF r
  <2> QED BY <2>1, <2>2, <2>3
<1>8. r.percent.ltv \in 0 .. 100 /\ r.percent.gross_yield \in Nat
  <2>1. RoundPercent(f05_ltv_percent(LoanOf(i), i.purchase_price)) \in 0 .. 100
    BY <1>2, <1>3, LtvRange
  <2>2. RoundPercent(PercentOf(GrossRent(i), i.purchase_price)) \in Nat
    BY <1>2, <1>3, PercentNatural
  <2> HIDE DEF r
  <2> QED BY <1>7, <2>1, <2>2
<1>9. r.percent.icr = None \/ r.percent.icr \in Nat
  <2> DEFINE stressed == Quot(LoanOf(i) * StressRate, 100)
  <2>1. stressed \in Nat
    BY <1>2
  <2> HIDE DEF stressed
  <2>2. CASE stressed = 0
    BY <1>7, <2>2 DEF f22_icr_percent, RoundPercent, stressed
  <2>3. CASE stressed # 0
    <3>1. f22_icr_percent(Rent(i), stressed) = Fraction(100 * Rent(i), stressed)
      BY <2>3 DEF f22_icr_percent
    <3>2. RoundPercent(Fraction(100 * Rent(i), stressed)) \in Nat
      BY <1>2, <2>1, <2>3, PercentNatural
    <3> QED BY <1>7, <3>1, <3>2 DEF stressed
  <2> QED BY <2>2, <2>3
<1>10. \A f \in {"income_tax_gross", "mortgage_interest_tax_credit", "corporation_tax_gross"} :
         r.optional[f] = None \/ r.optional[f] \in Nat
  <2> DEFINE o == TaxOn(i, looped).optional
  <2>1. fig.optional = o
    BY CheckedFields
  <2>2. /\ DOMAIN o = {"income_tax_gross", "mortgage_interest_tax_credit",
                       "corporation_tax_gross"}
        /\ \A f \in DOMAIN o : o[f] = None \/ o[f] \in Nat
    BY SoundTax
  <2> HIDE DEF o
  <2>3. \A f \in DOMAIN o : r.optional[f] = RoundOrNone(o[f])
    BY <2>1 DEF Rounded
  <2>4. RoundOrNone(None) = None
    BY DEF RoundOrNone
  <2> HIDE DEF r
  <2> QED BY <2>2, <2>3, <2>4, PennyNatural
<1> HIDE DEF r
<1>11. \A c \in DOMAIN OutputsChecks(r) : OutputsChecks(r)[c]
  <2>1. /\ r.money.gross_annual_rent >= 0 /\ r.money.effective_annual_rent >= 0
        /\ r.money.total_operating_costs >= 0 /\ r.money.annual_tax_liability >= 0
        /\ r.money.total_sdlt >= 0 /\ r.money.total_acquisition_cost >= 0
        /\ r.money.total_cash_deployed >= 0
    BY <1>6
  <2>2. /\ r.percent.icr = None \/ r.percent.icr >= 0
        /\ r.percent.gross_yield >= 0
    BY <1>8, <1>9
  <2> DEFINE checks == OutputsChecks(r)
  <2>3. DOMAIN checks = {"gross_annual_rent", "effective_annual_rent", "operating_costs",
          "tax_liability", "sdlt", "acquisition_cost", "cash_deployed", "ltv_range", "icr",
          "gross_yield"}
    BY DEF OutputsChecks
  <2>4. /\ checks.gross_annual_rent = (r.money.gross_annual_rent >= 0)
        /\ checks.effective_annual_rent = (r.money.effective_annual_rent >= 0)
        /\ checks.operating_costs = (r.money.total_operating_costs >= 0)
        /\ checks.tax_liability = (r.money.annual_tax_liability >= 0)
        /\ checks.sdlt = (r.money.total_sdlt >= 0)
        /\ checks.acquisition_cost = (r.money.total_acquisition_cost >= 0)
        /\ checks.cash_deployed = (r.money.total_cash_deployed >= 0)
        /\ checks.ltv_range = (r.percent.ltv \in 0 .. 100)
        /\ checks.icr = (r.percent.icr = None \/ r.percent.icr >= 0)
        /\ checks.gross_yield = (r.percent.gross_yield >= 0)
    BY DEF OutputsChecks
  <2> HIDE DEF checks
  <2>5. \A c \in DOMAIN checks : checks[c]
    BY <1>8, <2>1, <2>2, <2>3, <2>4, Zenon
  <2> QED BY <2>5 DEF checks
<1>12. \A c \in DOMAIN IntermediatesChecks(r) : IntermediatesChecks(r)[c]
  <2>1. r.money.loan_amount >= 0 /\ r.money.sdlt_base >= 0 /\ r.money.sdlt_surcharge >= 0
    BY <1>6
  <2>2. /\ r.optional.income_tax_gross = None \/ r.optional.income_tax_gross >= 0
        /\ r.optional.mortgage_interest_tax_credit = None
             \/ r.optional.mortgage_interest_tax_credit >= 0
        /\ r.optional.corporation_tax_gross = None \/ r.optional.corporation_tax_gross >= 0
    BY <1>10
  <2> DEFINE checks == IntermediatesChecks(r)
             o == r.optional
  <2>3. DOMAIN checks = {"loan_amount", "sdlt_base", "sdlt_surcharge", "income_tax",
          "tax_credit", "corporation_tax"}
    BY DEF IntermediatesChecks
  <2>4. /\ checks.loan_amount = (r.money.loan_amount >= 0)
        /\ checks.sdlt_base = (r.money.sdlt_base >= 0)
        /\ checks.sdlt_surcharge = (r.money.sdlt_surcharge >= 0)
        /\ checks.income_tax = (o.income_tax_gross = None \/ o.income_tax_gross >= 0)
        /\ checks.tax_credit = (\/ o.mortgage_interest_tax_credit = None
                                \/ o.mortgage_interest_tax_credit >= 0)
        /\ checks.corporation_tax
             = (o.corporation_tax_gross = None \/ o.corporation_tax_gross >= 0)
    BY DEF IntermediatesChecks
  <2> HIDE DEF checks
  <2>5. \A c \in DOMAIN checks : checks[c]
    BY <2>1, <2>2, <2>3, <2>4, Zenon
  <2> QED BY <2>5 DEF checks
<1> QED BY <1>11, <1>12 DEF Failed, r

\* A computed analysis keeps its figures until it is saved, and a refused one
\* was refused for a reason.
OutcomeInv ==
  /\ pc \in {"computed", "refused"} => figures = Calculated(input, payment, interest, base)
  /\ pc = "refused" => Refusals(InputsRow(input), Rounded(figures)) # {}

LEMMA NextOutcome == OutcomeInv /\ [Next]_vars => OutcomeInv'
<1> SUFFICES ASSUME OutcomeInv, [Next]_vars PROVE OutcomeInv'
  OBVIOUS
<1>1. ASSUME pc' \notin {"computed", "refused"} PROVE OutcomeInv'
  BY <1>1 DEF OutcomeInv
<1>2. CASE resolve_defaults \/ Validate \/ Finance \/ FinanceFails \/ RepayMonth \/ TaxBand
  <2>1. CASE resolve_defaults
    BY <1>1, <2>1 DEF resolve_defaults
  <2>2. CASE Validate
    BY <1>1, <2>2 DEF Validate
  <2>3. CASE Finance
    BY <1>1, <2>3 DEF Finance
  <2>4. CASE RepayMonth
    BY <1>1, <2>4 DEF RepayMonth
  <2>5. CASE TaxBand
    BY <1>1, <2>5 DEF TaxBand
  <2>6. CASE FinanceFails
    BY <1>1, <2>6 DEF FinanceFails
  <2> QED BY <1>2, <2>1, <2>2, <2>3, <2>4, <2>5, <2>6
<1>3. CASE Calculate
  <2>1. /\ \/ pc' = "error"
           \/ pc' = "computed" /\ figures' = Calculated(input, payment, interest, base)
        /\ UNCHANGED <<input, payment, interest, base>>
    BY <1>3 DEF Calculate, loop, bands
  <2> QED BY <1>1, <2>1 DEF OutcomeInv
<1>4. CASE Save
  <2>1. /\ pc = "computed" /\ UNCHANGED <<input, payment, interest, base, figures>>
        /\ \/ pc' = "stored"
           \/ pc' = "refused" /\ Refusals(InputsRow(input), Rounded(figures)) # {}
    <3>1. Snapshot.inputs = InputsRow(input) /\ Snapshot.result = Rounded(figures)
      BY DEF Snapshot
    <3> QED BY <1>4, <3>1 DEF Save, loop, bands
  <2>2. CASE pc' = "stored"
    BY <1>1, <2>2
  <2>3. CASE pc' = "refused" /\ Refusals(InputsRow(input), Rounded(figures)) # {}
    BY <2>1, <2>3 DEF OutcomeInv
  <2> QED BY <2>1, <2>2, <2>3
<1>5. ASSUME NEW k \in 1 .. Copies, Reproduce(k) PROVE OutcomeInv'
  BY <1>1, <1>5 DEF Reproduce
<1>6. CASE UNCHANGED vars
  BY <1>6 DEF vars, loop, bands, OutcomeInv
<1> QED BY <1>2, <1>3, <1>4, <1>5, <1>6 DEF Next

LEMMA OriginHolds == Spec => []OriginInv
<1>1. Init => OriginInv
  BY DEF Init, OriginInv
<1> QED BY <1>1, NextOrigin, PTL DEF Spec

\* Whatever the engine is asked, the tables refuse none of its figures: a refused
\* analysis had an input that no rule stops and some column or CHECK does, a
\* percentage too wide to store, or a loop that overshot at a rate of interest
\* that the rules warned about.
THEOREM EveryRefusalExplained == Spec => []RefusalsExplained
<1>1. AnalysisInv /\ PaidInv /\ OriginInv /\ OutcomeInv => RefusalsExplained
  <2> SUFFICES ASSUME AnalysisInv, PaidInv, OriginInv, OutcomeInv, pc = "refused",
                      ~ Unstorable(input), ~ InterestOvershot \/ "V12" \notin warnings,
                      \A f \in DOMAIN figures.percent :
                        LET p == Rounded(figures).percent[f]
                        IN ~ (p # None /\ Abs(p) >= PercentLimit)
               PROVE  FALSE
    BY DEF RefusalsExplained
  <2> DEFINE r == Rounded(figures)
  <2>1. /\ figures = Calculated(input, payment, interest, base)
        /\ Refusals(InputsRow(input), r) # {}
    BY DEF OutcomeInv
  <2>2. /\ Sound(input) /\ interest \in Int /\ base \in Nat
    BY DEF AnalysisInv, InputInv, Passed, TypeOK, Sound
  <2>3. input = [f \in DOMAIN input |-> input[f]]
    <3>1. input \in {Resolved(raw), InputsRow(Resolved(raw))}
      BY DEF OriginInv
    <3>2. CASE input = Resolved(raw)
      BY <3>2 DEF Resolved
    <3>3. CASE input = InputsRow(Resolved(raw))
      BY <3>3 DEF InputsRow
    <3> QED BY <3>1, <3>2, <3>3
  <2>4. Yearly(input, interest) >= 0
    <3>1. figures.money.annual_mortgage_interest = Yearly(input, interest)
      BY <2>1, FigureFields
    <3>2. Yearly(input, interest) \in Int
      BY <2>2, YearlyType DEF Sound
    <3>3. CASE ~ InterestOvershot
      BY <3>1, <3>2, <3>3 DEF InterestOvershot
    <3>4. CASE "V12" \notin warnings
      BY <3>4, YearlyNatural DEF Financed, Passed
    <3> QED BY <3>3, <3>4
  <2>5. InputsRow(input) = input /\ Failed(InputsChecks(input)) = {}
    BY <2>2, <2>3, InputsPass
  <2>6. Failed(OutputsChecks(r)) = {} /\ Failed(IntermediatesChecks(r)) = {}
    BY <2>1, <2>2, <2>4, FiguresPass
  <2>7. \A f \in PercentInputs : ~ (Abs(input[f]) >= Width(f))
    <3>1. \A f \in PercentInputs : input[f] \in Nat
      BY <2>2, SoundNumbers DEF PercentInputs
    <3>2. \A f \in PercentInputs : input[f] < Width(f) /\ Width(f) \in Nat
      BY <2>2, SoundNumbers, WidthType
    <3> QED BY <3>1, <3>2 DEF Abs
  <2>8. DOMAIN r.percent = DOMAIN figures.percent
    BY DEF Rounded
  <2>9. Overflows(input, r) = {}
    <3>1. \A f \in DOMAIN r.percent : ~ (r.percent[f] # None /\ Abs(r.percent[f]) >= PercentLimit)
      BY <2>8
    <3> HIDE DEF r
    <3> QED BY <2>7, <3>1 DEF Overflows
  <2> HIDE DEF r
  <2> QED BY <2>1, <2>5, <2>6, <2>9 DEF Refusals
<1>2. Init => OutcomeInv
  BY DEF Init, OutcomeInv
<1> QED BY <1>1, <1>2, NextOutcome, AnalysisHolds, PaidHolds, OriginHolds, PTL DEF Spec

-----------------------------------------------------------------------------
(* Reproductions                                                           *)

\* One turn of the F-08 loop as a function of balance and interest.
Turns(i, pay) ==
  [n \in Nat |->
    [s \in Int \X Int |->
      <<s[1] - (pay - MonthlyInterest(s[1], i.mortgage_interest_rate)),
        s[2] + MonthlyInterest(s[1], i.mortgage_interest_rate)>>]]

\* The balance and the interest after each month of a loan and its payment.
Ledger(i, pay) == CHOOSE g : Runs(g, Int \X Int, <<LoanOf(i), 0>>, Turns(i, pay))

\* What the loop adds up to, and 0 when it does not run.
LoopedFor(i, pay) == IF HasLoop(i) THEN Ledger(i, pay)[12][2] ELSE 0

LEMMA LedgerRuns ==
  ASSUME NEW i, EngineInput(i), NEW pay \in Int
  PROVE  /\ Ledger(i, pay)[0] = <<LoanOf(i), 0>>
         /\ \A n \in Nat, b \in Int, y \in Int : Ledger(i, pay)[n] = <<b, y>> =>
              Ledger(i, pay)[n + 1]
                = <<b - (pay - MonthlyInterest(b, i.mortgage_interest_rate)),
                    y + MonthlyInterest(b, i.mortgage_interest_rate)>>
<1> DEFINE S == Int \X Int
           start == <<LoanOf(i), 0>>
           turns == Turns(i, pay)
           month1(s) == MonthlyInterest(s, i.mortgage_interest_rate)
<1>1. LoanOf(i) \in Int /\ i.mortgage_interest_rate \in Int
  BY InputNumbers, FigureTypes
<1>2. \A b \in Int : month1(b) \in Int
  <2>1. \A b \in Int : b * i.mortgage_interest_rate \in Int
    BY <1>1
  <2> QED BY <2>1, QuotType, RateAssumption DEF MonthlyInterest
<1> HIDE DEF month1
<1>3. turns = [n \in Nat |-> [s \in S |-> <<s[1] - (pay - month1(s[1])), s[2] + month1(s[1])>>]]
  BY DEF Turns, month1
<1>4. \A s \in S : <<s[1] - (pay - month1(s[1])), s[2] + month1(s[1])>> \in S
  BY <1>2
<1>5. turns \in [Nat -> [S -> S]]
  <2> HIDE DEF turns, S
  <2> QED BY <1>3, <1>4
<1>6. start \in S
  BY <1>1
<1>7. \E g : Runs(g, S, start, turns)
  <2> HIDE DEF S, start, turns
  <2> QED BY <1>5, <1>6, Recursion, Zenon
<1> DEFINE g == Ledger(i, pay)
<1>8. Runs(g, S, start, turns)
  BY <1>7 DEF Ledger
<1> HIDE DEF g
<1>9. g[0] = start
  BY <1>8 DEF Runs
<1>10. ASSUME NEW n \in Nat, NEW b \in Int, NEW y \in Int, g[n] = <<b, y>>
       PROVE  g[n + 1] = <<b - (pay - month1(b)), y + month1(b)>>
  <2>1. g[n + 1] = turns[n][g[n]]
    <3> HIDE DEF turns
    <3> QED BY <1>8 DEF Runs
  <2>2. <<b, y>> \in S
    OBVIOUS
  <2>3. turns[n][<<b, y>>] = <<b - (pay - month1(b)), y + month1(b)>>
    <3> HIDE DEF turns
    <3> QED BY <1>3, <2>2
  <2> QED BY <1>10, <2>1, <2>3
<1> QED BY <1>9, <1>10 DEF g, month1

\* The loop's variables are the ledger's, month by month, and after it the
\* year's interest is what the loan and the payment make it.
LedgerInv ==
  /\ pc = "repaying" => Ledger(input, payment)[month] = <<balance, interest>>
  /\ pc \in Financed \ {"repaying"} => interest = LoopedFor(input, payment)

LEMMA NextLedger == AnalysisInv /\ LedgerInv /\ [Next]_vars => LedgerInv'
<1> SUFFICES ASSUME AnalysisInv, LedgerInv, [Next]_vars PROVE LedgerInv'
  OBVIOUS
<1> USE DEF Financed, Passed
<1>1. ASSUME pc' \notin Financed PROVE LedgerInv'
  BY <1>1 DEF LedgerInv
<1>2. ASSUME pc \in Financed \ {"repaying"}, pc' # "repaying",
             UNCHANGED <<input, payment, interest>>
      PROVE  LedgerInv'
  BY <1>2 DEF LedgerInv
<1>3. CASE resolve_defaults
  BY <1>1, <1>3 DEF resolve_defaults
<1>4. CASE Validate
  BY <1>1, <1>4 DEF Validate
<1>5. CASE Finance
  <2>1. /\ pc' = IF HasLoop(input) THEN "repaying" ELSE "banding"
        /\ month' = 0 /\ balance' = LoanOf(input) /\ interest' = 0 /\ input' = input
        /\ EngineInput(input) /\ Valid(input)
    BY <1>5 DEF Finance, AnalysisInv, InputInv
  <2>2. payment' \in Nat
    BY <1>5, <2>1, PaymentRange DEF Finance
  <2>3. Ledger(input, payment')[0] = <<LoanOf(input), 0>>
    BY <2>1, <2>2, LedgerRuns
  <2> QED BY <2>1, <2>3 DEF LedgerInv, LoopedFor
<1>12. CASE FinanceFails
  BY <1>1, <1>12 DEF FinanceFails
<1>6. CASE RepayMonth
  <2> DEFINE monthly == MonthlyInterest(balance, input.mortgage_interest_rate)
  <2>1. /\ pc = "repaying" /\ interest' = interest + monthly
        /\ balance' = balance - (payment - monthly) /\ month' = month + 1
        /\ pc' = IF month' = 12 THEN "banding" ELSE "repaying"
        /\ UNCHANGED <<input, payment>>
    BY <1>6 DEF RepayMonth
  <2>2. /\ EngineInput(input) /\ HasLoop(input) /\ payment \in Nat /\ month \in Nat
        /\ balance \in Int /\ interest \in Int
    BY <2>1 DEF AnalysisInv, InputInv, LoopInv, TypeOK
  <2>3. Ledger(input, payment)[month] = <<balance, interest>>
    BY <2>1 DEF LedgerInv
  <2>4. Ledger(input, payment)[month + 1] = <<balance - (payment - monthly), interest + monthly>>
    BY <2>2, <2>3, LedgerRuns
  <2> HIDE DEF monthly
  <2>5. Ledger(input, payment)[month'] = <<balance', interest'>>
    BY <2>1, <2>4
  <2>6. CASE month' = 12
    <3>1. interest' = Ledger(input, payment)[12][2]
      BY <2>5, <2>6
    <3> QED BY <2>1, <2>2, <2>6, <3>1 DEF LedgerInv, LoopedFor, HasLoop
  <2>7. CASE month' # 12
    BY <2>1, <2>5, <2>7 DEF LedgerInv
  <2> QED BY <2>6, <2>7
<1>7. CASE TaxBand
  BY <1>2, <1>7 DEF TaxBand, loop
<1>8. CASE Calculate
  BY <1>2, <1>8 DEF Calculate, loop
<1>9. CASE Save
  BY <1>2, <1>9 DEF Save, loop
<1>10. ASSUME NEW k \in 1 .. Copies, Reproduce(k) PROVE LedgerInv'
  BY <1>1, <1>10 DEF Reproduce
<1>11. CASE UNCHANGED vars
  BY <1>11 DEF vars, loop, LedgerInv
<1> QED BY <1>3, <1>4, <1>5, <1>6, <1>7, <1>8, <1>9, <1>10, <1>11, <1>12 DEF Next

LEMMA LedgerHolds == Spec => []LedgerInv
<1>1. Init => LedgerInv
  BY DEF Init, LedgerInv, Financed, Passed
<1> QED BY <1>1, NextLedger, AnalysisHolds, PTL DEF Spec

\* The row of a request whose inputs fit their columns, given its payment.
FiguresFor(i, pay) ==
  Calculated(i, pay, LoopedFor(i, pay), TariffTax(i.purchase_price)[Len(Bands)])

RowFor(r, pay) ==
  [inputs   |-> Resolved(r),
   sources  |-> SourcesOf(r),
   result   |-> Rounded(FiguresFor(Resolved(r), pay)),
   flags    |-> FlagsOf(Resolved(r), FiguresFor(Resolved(r), pay)),
   warnings |-> run_validation(Resolved(r)).warnings]

\* Every row is the one that the request and the last payment determine.
RepeatInv ==
  AtColumnScale(Resolved(raw)) => \A k \in 1 .. Len(rows) : rows[k] = RowFor(raw, payment)

LEMMA NextRepeat ==
  AnalysisInv /\ OriginInv /\ DutyInv /\ OutcomeInv /\ LedgerInv /\ RepeatInv /\ [Next]_vars
    => RepeatInv'
<1> SUFFICES ASSUME AnalysisInv, OriginInv, DutyInv, OutcomeInv, LedgerInv, RepeatInv,
                    [Next]_vars, AtColumnScale(Resolved(raw'))
             PROVE  \A k \in 1 .. Len(rows') : rows'[k] = RowFor(raw', payment')
  BY DEF RepeatInv
<1>1. ASSUME UNCHANGED <<raw, rows, payment>>
      PROVE  \A k \in 1 .. Len(rows') : rows'[k] = RowFor(raw', payment')
  BY <1>1 DEF RepeatInv
<1>2. InputsRow(Resolved(raw')) = Resolved(raw')
  <2>1. InputsRow(Resolved(raw')) = [f \in DOMAIN Resolved(raw') |-> Resolved(raw')[f]]
    BY DEF AtColumnScale, InputsRow
  <2> QED BY <2>1 DEF Resolved
<1>3. CASE resolve_defaults
  BY <1>1, <1>3 DEF resolve_defaults
<1>4. CASE Validate
  BY <1>1, <1>4 DEF Validate
<1>5. CASE Finance
  <2>1. /\ UNCHANGED <<raw, rows>> /\ pc = "validated" /\ (Repeated => payment' = payment)
    BY <1>5 DEF Finance
  <2>2. input = Resolved(raw)
    BY <1>2, <2>1 DEF OriginInv
  <2>3. SameLoan(input, Resolved(raw))
    BY <2>2 DEF SameLoan
  <2>4. Len(rows) \in Nat
    BY DEF OriginInv
  <2>5. CASE Len(rows) = 0
    BY <2>1, <2>5
  <2>6. CASE Len(rows) # 0
    <3>1. Repeated
      <4>1. \A n \in Nat : n = 0 \/ n = 1 \/ n > 1
        OBVIOUS
      <4> QED BY <2>3, <2>4, <2>6, <4>1, Zenon DEF Repeated
    <3> QED BY <1>1, <2>1, <3>1
  <2> QED BY <2>5, <2>6
<1>12. CASE FinanceFails
  BY <1>1, <1>12 DEF FinanceFails
<1>6. CASE RepayMonth
  BY <1>1, <1>6 DEF RepayMonth
<1>7. CASE TaxBand
  BY <1>1, <1>7 DEF TaxBand
<1>8. CASE Calculate
  BY <1>1, <1>8 DEF Calculate
<1>9. CASE Save
  <2> DEFINE s == Snapshot
  <2>1. /\ pc = "computed" /\ UNCHANGED <<raw, payment>>
        /\ rows' = Append(rows, s) \/ rows' = rows
    BY <1>9 DEF Save
  <2>2. input = Resolved(raw) /\ sources = SourcesOf(raw)
    BY <1>2, <2>1 DEF OriginInv
  <2>3. /\ warnings = run_validation(input).warnings
        /\ figures = FiguresFor(input, payment)
    <3>1. /\ figures = Calculated(input, payment, interest, base)
          /\ base = TariffTax(input.purchase_price)[Len(Bands)]
          /\ interest = LoopedFor(input, payment)
      BY <2>1 DEF OutcomeInv, DutyInv, LedgerInv, Counted, Financed, Passed
    <3> QED BY <2>1, <3>1 DEF FiguresFor, AnalysisInv, InputInv, Passed
  <2>4. s = RowFor(raw, payment)
    BY <1>2, <2>1, <2>2, <2>3 DEF Snapshot, RowFor
  <2> HIDE DEF s
  <2>5. CASE rows' = rows
    BY <1>1, <2>1, <2>5
  <2>6. CASE rows' = Append(rows, s)
    <3>1. /\ Len(rows) \in Nat /\ Len(rows') = Len(rows) + 1
          /\ \A k \in 1 .. Len(rows) : rows'[k] = rows[k]
          /\ rows'[Len(rows) + 1] = s
      BY <2>6 DEF OriginInv
    <3>2. ASSUME NEW k \in 1 .. Len(rows') PROVE rows'[k] = RowFor(raw, payment)
      <4>1. CASE k = Len(rows) + 1
        BY <2>4, <3>1, <4>1
      <4>2. CASE k # Len(rows) + 1
        <5>1. k \in 1 .. Len(rows)
          BY <3>1, <4>2
        <5> QED BY <2>1, <3>1, <5>1 DEF RepeatInv
      <4> QED BY <4>1, <4>2
    <3> QED BY <2>1, <3>2
  <2> QED BY <2>1, <2>5, <2>6
<1>10. ASSUME NEW k \in 1 .. Copies, Reproduce(k)
       PROVE  \A j \in 1 .. Len(rows') : rows'[j] = RowFor(raw', payment')
  BY <1>1, <1>10 DEF Reproduce
<1>11. CASE UNCHANGED vars
  BY <1>1, <1>11 DEF vars
<1> QED BY <1>3, <1>4, <1>5, <1>6, <1>7, <1>8, <1>9, <1>10, <1>11, <1>12 DEF Next

\* However often a snapshot whose inputs fit their columns is reproduced, the
\* whole row comes out again: the inputs, the payment that the same loan repeats,
\* the two loops and everything computed from them.
THEOREM ReproductionsEqual == Spec => []ReproductionEqual
<1>1. Init => RepeatInv
  BY DEF Init, RepeatInv
<1>2. OriginInv /\ RepeatInv => ReproductionEqual
  <2> SUFFICES ASSUME OriginInv, RepeatInv PROVE ReproductionEqual
    OBVIOUS
  <2>1. DOMAIN rows = 1 .. Len(rows) /\ Len(rows) \in Nat
    BY DEF OriginInv
  <2>2. SameInputs
    BY DEF OriginInv, SameInputs
  <2>3. ASSUME AtColumnScale(Resolved(raw)), NEW k \in DOMAIN rows PROVE rows[k] = rows[1]
    <3>1. k \in 1 .. Len(rows) /\ 1 \in 1 .. Len(rows)
      BY <2>1
    <3> QED BY <2>3, <3>1 DEF RepeatInv
  <2> QED BY <2>2, <2>3 DEF ReproductionEqual
<1>3. RepeatInv /\ (AnalysisInv /\ OriginInv /\ DutyInv /\ OutcomeInv /\ LedgerInv)
        /\ [Next]_vars => RepeatInv'
  BY NextRepeat
<1>4. Spec => []OutcomeInv
  <2>1. Init => OutcomeInv
    BY DEF Init, OutcomeInv
  <2> QED BY <2>1, NextOutcome, PTL DEF Spec
<1> QED BY <1>1, <1>2, <1>3, <1>4, AnalysisHolds, OriginHolds, DutyHolds, LedgerHolds, PTL DEF Spec
=============================================================================
