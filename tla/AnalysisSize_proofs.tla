------------------------- MODULE AnalysisSize_proofs -------------------------
(***************************************************************************)
(* How large the engine's figures get: what an input that no rule warned   *)
(* about can make of them, and that only an input out of size makes the    *)
(* engine fail.                                                            *)
(***************************************************************************)
EXTENDS Analysis_proofs

-----------------------------------------------------------------------------
(* Rounding, once more                                                     *)

\* A share of a number, in units of `whole', is rounded to within the number.
LEMMA QuotShare ==
  ASSUME NEW n \in Nat, NEW part \in Nat, NEW whole \in Nat \ {0}, part <= whole
  PROVE  Quot(n * part, whole) \in 0 .. n
<1>1. n * part \in Nat /\ whole * n \in Int /\ n * part <= whole * n
  <2>1. n * part \in Nat /\ whole * n \in Int
    OBVIOUS
  <2>2. n * part <= n * whole
    OBVIOUS
  <2> QED BY <2>1, <2>2
<1>2. Quot(n * part, whole) <= Quot(whole * n, whole)
  BY <1>1, QuotMonotone
<1>3. Quot(whole * n, whole) = n
  BY QuotOfProduct
<1>4. Quot(n * part, whole) \in Nat
  BY <1>1, QuotNatural
<1> QED BY <1>2, <1>3, <1>4

\* A month's interest at ten percent or less, within half a unit, and not below
\* zero unless the debt is.
LEMMA MonthlyBound ==
  ASSUME NEW debt \in Int, NEW rate \in 0 .. 10 * RateScale
  PROVE  /\ MonthlyInterest(debt, rate) \in Int
         /\ debt >= -60 => MonthlyInterest(debt, rate) >= 0
         /\ debt >= 0 => 120 * MonthlyInterest(debt, rate) <= debt + 60
<1> DEFINE s == RateScale
           a == debt * rate
           q == MonthlyInterest(debt, rate)
<1>1. s \in Nat \ {0} /\ rate \in Int /\ 0 <= rate /\ rate <= 10 * s
  BY RateAssumption
<1>2. a \in Int /\ q = Quot(a, 1200 * s)
  BY <1>1 DEF MonthlyInterest
<1>3. debt >= -60 => a >= -(600 * s)
  <2> HIDE DEF s
  <2>1. CASE debt >= 0
    <3>1. debt * rate >= 0
      BY <1>1, <2>1
    <3> QED BY <1>1, <3>1
  <2>2. CASE -60 <= debt /\ debt < 0
    <3>1. debt * rate >= -60 * rate
      BY <1>1, <2>2
    <3> QED BY <1>1, <3>1
  <2> QED BY <2>1, <2>2
<1>4. debt >= 0 => a <= 10 * (debt * s)
  <2> HIDE DEF s
  <2>1. debt >= 0 => debt * rate <= debt * (10 * s)
    BY <1>1
  <2>2. debt * (10 * s) = 10 * (debt * s)
    BY <1>1
  <2> QED BY <2>1, <2>2
<1> HIDE DEF s, a, q
<1>5. q \in Int
  BY <1>1, <1>2, QuotType
<1>6. debt >= -60 => q >= 0
  <2>1. ASSUME NEW x \in Int, NEW b \in Nat \ {0}, 2 * x + b >= 0 PROVE Quot(x, b) >= 0
    BY <2>1 DEF Quot
  <2>2. 1200 * s \in Nat \ {0} /\ (debt >= -60 => 2 * a + 1200 * s >= 0)
    BY <1>1, <1>2, <1>3
  <2> QED BY <1>2, <2>1, <2>2
<1>7. ASSUME debt >= 0 PROVE 120 * q <= debt + 60
  <2>1. 2 * ((1200 * s) * q) - 2 * a <= 1200 * s
    BY <1>1, <1>2, QuotNearest
  <2>2. (1200 * s) * q = 1200 * (s * q) /\ s * q \in Int /\ debt * s \in Int
    BY <1>1, <1>5
  <2>3. 120 * (s * q) - debt * s - 60 * s <= 0
    BY <1>1, <1>2, <1>4, <1>7, <2>1, <2>2
  <2>4. s * (120 * q - debt - 60) = 120 * (s * q) - debt * s - 60 * s
    BY <1>1, <1>5
  <2>5. 120 * q - debt - 60 \in Int
    BY <1>5
  <2>6. ASSUME NEW z \in Int, s * z <= 0 PROVE z <= 0
    BY <1>1, <2>6
  <2> QED BY <1>5, <2>3, <2>4, <2>5, <2>6
<1> QED BY <1>5, <1>6, <1>7 DEF q

-----------------------------------------------------------------------------
(* Repayment                                                               *)

\* The rules did not warn about the rate of interest.
LowRate(i) == i.mortgage_interest_rate \in 0 .. 10 * RateScale

\* Such a rate is too low for a long power.
LEMMA LowIsShort ==
  ASSUME NEW i, EngineInput(i), Valid(i), LowRate(i)
  PROVE  /\ ~ LongPower(i)
         /\ i.mortgage_interest_rate * i.mortgage_term_years < 1800 * RateScale
<1> DEFINE rate == i.mortgage_interest_rate
           term == i.mortgage_term_years
<1>1. /\ rate \in Nat /\ rate <= 10 * RateScale /\ term \in 5 .. 35
      /\ RateScale \in Nat \ {0}
  BY InputNumbers, RulesHold, RateAssumption DEF LowRate
<1> HIDE DEF rate, term
<1>2. rate * term <= rate * 35 /\ rate * term \in Int
  BY <1>1
<1>3. rate * term < 1800 * RateScale
  BY <1>1, <1>2
<1> QED BY <1>1, <1>2, <1>3 DEF LongPower, rate, term

\* A payment is little more than a twenty-fourth of the loan at a rate of ten
\* percent or less: the interest of a month and two shares of five years.
LEMMA PaymentBound ==
  ASSUME NEW i, EngineInput(i), Valid(i), LowRate(i),
         NEW x \in f06_monthly_mortgage_payments(LoanOf(i), i.mortgage_interest_rate,
                     i.mortgage_term_years, i.mortgage_type)
  PROVE  /\ x \in Nat /\ LoanOf(i) \in Nat /\ LoanOf(i) < i.purchase_price
         /\ 24 * x <= LoanOf(i) + 48
<1> DEFINE loan == LoanOf(i)
           first == MonthlyInterest(loan, i.mortgage_interest_rate)
           error == AnnuityError(first, i.mortgage_interest_rate, i.mortgage_term_years)
           share == Quot(2 * loan, 12 * i.mortgage_term_years)
<1>1. /\ x \in Nat /\ loan \in Nat /\ i.mortgage_interest_rate \in 0 .. 10 * RateScale
      /\ i.mortgage_term_years \in 5 .. 35
      /\ i.purchase_price \in Int /\ i.deposit_amount \in Int /\ i.deposit_amount > 0
  BY PaymentRange, InputNumbers, RulesHold DEF LowRate
<1>2. loan < i.purchase_price
  BY <1>1 DEF LoanOf, f04_loan_amount
<1>3. first \in Nat /\ 120 * first <= loan + 60
  <2> HIDE DEF loan
  <2>1. loan >= 0 /\ loan >= -60 /\ loan \in Int
    BY <1>1
  <2>2. first \in Int /\ first >= 0 /\ 120 * first <= loan + 60
    BY <1>1, <2>1, MonthlyBound
  <2> HIDE DEF first
  <2> QED BY <2>2
<1>4. share \in Int /\ 60 * share <= 2 * loan + 30
  <2> DEFINE months == 12 * i.mortgage_term_years
             twice == 2 * loan
  <2>1. months \in Nat /\ months >= 60 /\ twice \in Nat
    BY <1>1
  <2> HIDE DEF loan, months, twice
  <2>2. Quot(twice, months) \in Int
    BY <2>1, QuotType
  <2>3. 2 * (months * Quot(twice, months)) - 2 * twice <= months
    BY <2>1, QuotNearest
  <2>4. ASSUME NEW q \in Int, 2 * (months * q) - 2 * twice <= months
        PROVE  60 * q <= twice + 30
    <3>1. CASE q <= 0
      BY <2>1, <3>1
    <3>2. CASE q >= 1
      <4>1. (months - 60) * (2 * q - 1) >= 0
        BY <2>1, <3>2
      <4>2. (months - 60) * (2 * q - 1) = 2 * (months * q) - months - 120 * q + 60
        BY <2>1
      <4>3. months * q \in Int
        BY <2>1
      <4> QED BY <2>1, <2>4, <4>1, <4>2, <4>3
    <3> QED BY <3>1, <3>2
  <2> QED BY <2>2, <2>3, <2>4 DEF months, twice
<1>5. x = 0 \/ x = first \/ x <= first + share + 1
  <2>1. error = 0
    BY LowIsShort DEF AnnuityError
  <2>2. x = 0 \/ x = first \/ x \in Max0(first - error) .. (first + share + 1 + error)
    BY DEF f06_monthly_mortgage_payments
  <2> HIDE DEF first, share, loan, error
  <2> QED BY <1>1, <1>3, <1>4, <2>1, <2>2
<1> HIDE DEF first, share, loan
<1>6. 24 * x <= loan + 48
  BY <1>1, <1>3, <1>4, <1>5
<1> QED BY <1>1, <1>2, <1>6 DEF loan

\* At a rate the rules did not warn about, the payment is bounded and no
\* month's interest is below zero: the loop does not overshoot.
PaidInv ==
  pc \in Financed /\ LowRate(input) =>
    /\ 24 * payment <= LoanOf(input) + 48
    /\ HasLoop(input) => interest >= 0

LEMMA NextPaid == AnalysisInv /\ PaidInv /\ [Next]_vars => PaidInv'
<1> SUFFICES ASSUME AnalysisInv, PaidInv, [Next]_vars PROVE PaidInv'
  OBVIOUS
<1>1. ASSUME pc' \notin Financed PROVE PaidInv'
  BY <1>1 DEF PaidInv
<1>2. ASSUME pc \in Financed, UNCHANGED <<input, payment, interest>> PROVE PaidInv'
  BY <1>2 DEF PaidInv, LowRate, LoanOf, HasLoop
<1>3. CASE resolve_defaults
  BY <1>1, <1>3 DEF resolve_defaults, Financed, Passed
<1>4. CASE Validate
  BY <1>1, <1>4 DEF Validate, Financed, Passed
<1>5. CASE Finance
  <2>1. /\ EngineInput(input) /\ Valid(input)
        /\ payment' \in f06_monthly_mortgage_payments(LoanOf(input), input.mortgage_interest_rate,
                          input.mortgage_term_years, input.mortgage_type)
        /\ interest' = 0 /\ input' = input
    BY <1>5 DEF Finance, AnalysisInv, InputInv, Passed
  <2>2. LowRate(input) => 24 * payment' <= LoanOf(input) + 48
    BY <2>1, PaymentBound
  <2> QED BY <2>1, <2>2 DEF PaidInv
<1>12. CASE FinanceFails
  BY <1>1, <1>12 DEF FinanceFails, Financed, Passed
<1>6. CASE RepayMonth
  <2> SUFFICES ASSUME LowRate(input) PROVE 24 * payment <= LoanOf(input) + 48 /\ interest' >= 0
    BY <1>6 DEF RepayMonth, PaidInv, LoanOf, LowRate
  <2>1. pc = "repaying" /\ interest' = interest + MonthlyInterest(balance, input.mortgage_interest_rate)
    BY <1>6 DEF RepayMonth
  <2>2. /\ payment \in Nat /\ interest \in Int /\ balance \in Int /\ month \in 0 .. 11
        /\ EngineInput(input) /\ Valid(input)
    BY <2>1 DEF AnalysisInv, TypeOK, InputInv, Passed
  <2>3. LoanOf(input) \in Nat
    BY <2>2, InputNumbers, RulesHold DEF LoanOf, f04_loan_amount
  <2>4. /\ (LoanOf(input) - balance) + interest = month * payment
        /\ 24 * payment <= LoanOf(input) + 48 /\ interest >= 0
    BY <2>1 DEF AnalysisInv, LoopInv, PaidInv, Financed, Passed
  <2>5. month * payment <= 11 * payment /\ month * payment \in Int
    BY <2>2
  <2>6. balance >= -60
    BY <2>2, <2>3, <2>4, <2>5
  <2>7. /\ MonthlyInterest(balance, input.mortgage_interest_rate) \in Int
        /\ MonthlyInterest(balance, input.mortgage_interest_rate) >= 0
    BY <2>2, <2>6, MonthlyBound DEF LowRate
  <2> QED BY <2>1, <2>2, <2>4, <2>7
<1>7. CASE TaxBand
  <2>1. pc = "banding"
    BY <1>7 DEF TaxBand
  <2> QED BY <1>2, <1>7, <2>1 DEF TaxBand, loop, Financed, Passed
<1>8. CASE Calculate
  <2>1. pc = "banding"
    BY <1>8 DEF Calculate
  <2> QED BY <1>2, <1>8, <2>1 DEF Calculate, loop, Financed, Passed
<1>9. CASE Save
  <2>1. pc = "computed"
    BY <1>9 DEF Save
  <2> QED BY <1>2, <1>9, <2>1 DEF Save, loop, Financed, Passed
<1>10. ASSUME NEW k \in 1 .. Copies, Reproduce(k) PROVE PaidInv'
  BY <1>1, <1>10 DEF Reproduce, Financed, Passed
<1>11. CASE UNCHANGED vars
  BY <1>11 DEF vars, loop, PaidInv, LowRate, LoanOf, HasLoop
<1> QED BY <1>3, <1>4, <1>5, <1>6, <1>7, <1>8, <1>9, <1>10, <1>11, <1>12 DEF Next

LEMMA PaidHolds == Spec => []PaidInv
<1>1. Init => PaidInv
  BY DEF Init, PaidInv, Financed, Passed
<1> QED BY <1>1, NextPaid, AnalysisHolds, PTL DEF Spec

LEMMA HighRateWarned ==
  ASSUME NEW i, EngineInput(i), Valid(i), "V12" \notin run_validation(i).warnings
  PROVE  LowRate(i)
<1>1. "V12" \notin Fired(PurchaseWarnings(i)) /\ "V12" \in DOMAIN PurchaseWarnings(i)
  BY DEF run_validation, PurchaseWarnings
<1>2. ~ PurchaseWarnings(i).V12
  BY <1>1 DEF Fired
<1>3. PurchaseWarnings(i).V12 = (i.mortgage_interest_rate > 10 * RateScale)
  BY InputNumbers, SMT DEF PurchaseWarnings
<1>4. ~ (i.mortgage_interest_rate > 10 * RateScale)
  BY <1>2, <1>3, Zenon
<1> QED BY <1>4, InputNumbers, RulesHold, RateAssumption DEF LowRate

\* So is a year's interest.
LEMMA YearlyNatural ==
  ASSUME AnalysisInv, PaidInv, pc \in Financed, "V12" \notin warnings
  PROVE  Yearly(input, interest) \in Nat
<1>1. EngineInput(input) /\ Valid(input) /\ warnings = run_validation(input).warnings
  BY DEF AnalysisInv, InputInv, Financed, Passed
<1>2. LowRate(input) /\ interest \in Int
  BY <1>1, HighRateWarned DEF AnalysisInv, TypeOK
<1>3. CASE HasLoop(input)
  <2>1. interest >= 0
    BY <1>2, <1>3 DEF PaidInv
  <2> QED BY <1>1, <1>2, <2>1, YearlyType
<1>4. CASE ~ HasLoop(input)
  <2>1. input.mortgage_type \in {"INTEREST_ONLY", "REPAYMENT"}
    BY <1>1, InputNumbers
  <2>2. Yearly(input, interest) = Yearly(input, 0)
    BY <1>4, <2>1 DEF HasLoop, Yearly, f08_annual_mortgage_interest
  <2>3. Yearly(input, 0) \in Int /\ Yearly(input, 0) >= 0
    BY <1>1, YearlyType
  <2> QED BY <2>2, <2>3
<1> QED BY <1>3, <1>4

\* The loop over the year's payments computes an interest below zero only at a
\* rate of interest that the rules warned about.
THEOREM OvershootWarned == Spec => [](Computed /\ InterestOvershot => "V12" \in warnings)
<1>1. AnalysisInv /\ PaidInv => (Computed /\ InterestOvershot => "V12" \in warnings)
  <2> SUFFICES ASSUME AnalysisInv, PaidInv, Computed, "V12" \notin warnings
               PROVE  ~ InterestOvershot
    OBVIOUS
  <2>1. figures = Calculated(input, payment, interest, base) /\ pc \in Financed
    BY DEF AnalysisInv, FiguresInv, Financed, Passed
  <2>2. figures.money.annual_mortgage_interest = Yearly(input, interest)
    BY <2>1, FigureFields
  <2>3. Yearly(input, interest) \in Nat
    BY <2>1, YearlyNatural
  <2> QED BY <2>2, <2>3 DEF InterestOvershot
<1> QED BY <1>1, AnalysisHolds, PaidHolds, PTL

-----------------------------------------------------------------------------
(* Inputs in size                                                          *)

\* Inputs that passed the rules, with no warning about a size, no fee or reserve
\* below zero, and every amount below a thirtieth of the limit.
InSize(i) ==
  /\ EngineInput(i) /\ Valid(i)
  /\ {"V03", "V12", "V20", "V24"} \cap run_validation(i).warnings = {}
  /\ ~ (i.letting_agent_fee_percent < 0) /\ ~ (i.maintenance_reserve_percent < 0)
  /\ \A f \in MoneyInputs \ {"purchase_price", "deposit_amount"} : ~ (30 * Abs(i[f]) >= Limit)

\* What the rules did not warn about.
LEMMA NoWarning ==
  ASSUME NEW i, EngineInput(i),
         {"V03", "V12", "V20", "V24"} \cap run_validation(i).warnings = {}
  PROVE  /\ ~ (i.purchase_price > Pounds(10000000))
         /\ ~ (i.mortgage_interest_rate > 10 * RateScale)
         /\ ~ (i.letting_agent_fee_percent > 25)
         /\ ~ (i.maintenance_reserve_percent > 5)
<1>1. /\ \A code \in {"V03", "V12"} : code \notin Fired(PurchaseWarnings(i))
      /\ \A code \in {"V20", "V24"} : code \notin Fired(CostWarnings(i))
  BY DEF run_validation
<1>2. /\ {"V03", "V12"} \subseteq DOMAIN PurchaseWarnings(i)
      /\ {"V20", "V24"} \subseteq DOMAIN CostWarnings(i)
  BY DEF PurchaseWarnings, CostWarnings
<1>3. /\ ~ PurchaseWarnings(i).V03 /\ ~ PurchaseWarnings(i).V12
      /\ ~ CostWarnings(i).V20 /\ ~ CostWarnings(i).V24
  BY <1>1, <1>2 DEF Fired
<1>4. /\ PurchaseWarnings(i).V03 = UnusuallyHigh(i.purchase_price)
      /\ PurchaseWarnings(i).V12 = (i.mortgage_interest_rate > 10 * RateScale)
  BY InputNumbers, SMT DEF PurchaseWarnings
<1>5. /\ CostWarnings(i).V20 = (i.letting_agent_fee_percent > 25)
      /\ CostWarnings(i).V24 = (i.maintenance_reserve_percent > 5)
  BY Zenon DEF CostWarnings
<1>6. /\ ~ UnusuallyHigh(i.purchase_price) /\ ~ (i.mortgage_interest_rate > 10 * RateScale)
      /\ ~ (i.letting_agent_fee_percent > 25) /\ ~ (i.maintenance_reserve_percent > 5)
  BY <1>3, <1>4, <1>5, Zenon
<1> QED BY <1>6, SMT DEF UnusuallyHigh

LEMMA InSizeNumbers ==
  ASSUME NEW i, InSize(i)
  PROVE  /\ Limit \in Nat /\ Cent \in Nat \ {0} /\ 100000 * Cent <= Limit
         /\ i.purchase_price \in Nat /\ 10 * i.purchase_price <= Limit
         /\ i.deposit_amount \in Nat /\ i.deposit_amount < i.purchase_price
         /\ LowRate(i)
         /\ i.void_rate_percent \in 0 .. 100
         /\ i.letting_agent_fee_percent \in 0 .. 25
         /\ i.maintenance_reserve_percent \in 0 .. 5
         /\ i.monthly_rent \in Nat /\ 30 * i.monthly_rent < Limit
         /\ \A f \in {"landlord_insurance_annual", "purchase_legal_costs", "refurbishment_cost",
                      "annual_service_charge", "annual_ground_rent", "annual_accountancy_cost"} :
              i[f] \in Int /\ 30 * i[f] < Limit /\ -Limit < 30 * i[f]
<1>1. EngineInput(i) /\ Valid(i)
  BY DEF InSize
<1>2. Limit \in Nat /\ Cent \in Nat \ {0} /\ 100000 * Cent <= Limit
  BY GridAssumption, SizeAssumption
<1>3. /\ ~ (i.purchase_price > Pounds(10000000)) /\ ~ (i.mortgage_interest_rate > 10 * RateScale)
      /\ ~ (i.letting_agent_fee_percent > 25) /\ ~ (i.maintenance_reserve_percent > 5)
      /\ ~ (i.letting_agent_fee_percent < 0) /\ ~ (i.maintenance_reserve_percent < 0)
  BY <1>1, NoWarning DEF InSize
<1>4. /\ i.purchase_price \in Int /\ i.deposit_amount \in Int /\ i.monthly_rent \in Int
      /\ i.mortgage_interest_rate \in Int /\ i.void_rate_percent \in Int
      /\ i.letting_agent_fee_percent \in Int /\ i.maintenance_reserve_percent \in Int
  BY <1>1, InputNumbers
<1>5. /\ ~ (i.purchase_price <= 0) /\ ~ (i.monthly_rent <= 0) /\ ~ (i.deposit_amount <= 0)
      /\ ~ (i.deposit_amount >= i.purchase_price) /\ ~ (i.mortgage_interest_rate < 0)
      /\ ~ (i.void_rate_percent < 0 \/ i.void_rate_percent > 100)
  BY <1>1, RulesHold
<1>6. Pounds(10000000) \in Int /\ 10 * Pounds(10000000) <= Limit
  BY UnitAssumption, SizeAssumption DEF Pounds
<1>7. ASSUME NEW f \in MoneyInputs \ {"purchase_price", "deposit_amount"}
      PROVE  i[f] \in Int /\ 30 * i[f] < Limit /\ -Limit < 30 * i[f]
  <2>1. i[f] \in Int /\ ~ (30 * Abs(i[f]) >= Limit)
    BY <1>1 DEF InSize, EngineInput, NumericInputs
  <2> QED BY <1>2, <2>1 DEF Abs
<1>8. 30 * i.monthly_rent < Limit
  BY <1>7 DEF MoneyInputs
<1>9. \A f \in {"landlord_insurance_annual", "purchase_legal_costs", "refurbishment_cost",
               "annual_service_charge", "annual_ground_rent", "annual_accountancy_cost"} :
        i[f] \in Int /\ 30 * i[f] < Limit /\ -Limit < 30 * i[f]
  BY <1>7 DEF MoneyInputs
<1>10. LowRate(i)
  BY <1>3, <1>4, <1>5, RateAssumption DEF LowRate
<1> QED BY <1>2, <1>3, <1>4, <1>5, <1>6, <1>8, <1>9, <1>10

\* A year's rent and its costs.
LEMMA InSizeRent ==
  ASSUME VatRate <= 100, NEW i, InSize(i)
  PROVE  /\ GrossRent(i) \in Nat /\ 30 * GrossRent(i) < 12 * Limit
         /\ Rent(i) \in 0 .. GrossRent(i)
         /\ Costs(i).letting \in Nat /\ 2 * Costs(i).letting <= GrossRent(i) + 1
         /\ Costs(i).maintenance \in Nat /\ 20 * Costs(i).maintenance <= i.purchase_price + 10
         /\ Operating(i) \in Int
         /\ 5 * Operating(i) < 2 * Limit /\ -Limit < 5 * Operating(i)
<1>1. /\ Limit \in Nat /\ 100000 <= Limit
      /\ i.purchase_price \in Nat /\ 10 * i.purchase_price <= Limit
      /\ i.void_rate_percent \in 0 .. 100 /\ i.letting_agent_fee_percent \in 0 .. 25
      /\ i.maintenance_reserve_percent \in 0 .. 5
      /\ i.monthly_rent \in Nat /\ 30 * i.monthly_rent < Limit
  BY InSizeNumbers
<1>2. VatRate \in 0 .. 100
  BY ConfigurationAssumption
<1>3. GrossRent(i) \in Nat /\ 30 * GrossRent(i) < 12 * Limit
  BY <1>1 DEF GrossRent, f01_gross_annual_rent
<1>4. Rent(i) \in 0 .. GrossRent(i)
  <2> DEFINE let == 100 - i.void_rate_percent
  <2>1. let \in Nat /\ let <= 100 /\ 100 \in Nat \ {0}
    BY <1>1
  <2>2. Rent(i) = Quot(GrossRent(i) * let, 100)
    BY DEF Rent, f03_effective_annual_rent, f02_void_rate_decimal
  <2> HIDE DEF let
  <2>3. Quot(GrossRent(i) * let, 100) \in 0 .. GrossRent(i)
    BY <1>3, <2>1, QuotShare
  <2> QED BY <2>2, <2>3
<1>5. Costs(i).letting \in Nat /\ 2 * Costs(i).letting <= GrossRent(i) + 1
  <2> DEFINE g == GrossRent(i)
             fee == i.letting_agent_fee_percent
             a == g * fee * (100 + VatRate)
  <2>1. Costs(i).letting = Quot(a, 10000)
    BY DEF Costs, CostsOf, f09_letting_agent_annual
  <2>2. g \in Nat /\ fee \in 0 .. 25 /\ 100 + VatRate \in 0 .. 200
    BY <1>1, <1>2, <1>3
  <2> HIDE DEF g, fee
  <2>3. g * fee \in Nat /\ g * fee <= 25 * g
    BY <2>2
  <2>4. a \in Nat /\ a <= 200 * (g * fee)
    BY <2>2, <2>3
  <2> HIDE DEF a
  <2>5. a \in Nat /\ a <= 5000 * g
    BY <2>2, <2>3, <2>4
  <2>6. Quot(a, 10000) = (2 * a + 10000) \div 20000
    BY DEF Quot
  <2>7. Quot(a, 10000) \in Nat /\ 2 * Quot(a, 10000) <= g + 1
    BY <2>2, <2>5, <2>6
  <2> QED BY <2>1, <2>7 DEF g
<1>6. Costs(i).maintenance \in Nat /\ 20 * Costs(i).maintenance <= i.purchase_price + 10
  <2> DEFINE p == i.purchase_price
             a == p * i.maintenance_reserve_percent
  <2>1. Costs(i).maintenance = Quot(a, 100)
    BY DEF Costs, CostsOf, f10_annual_maintenance_reserve
  <2>2. p \in Nat /\ a \in Nat /\ a <= 5 * p
    BY <1>1
  <2> HIDE DEF p, a
  <2>3. Quot(a, 100) = (2 * a + 100) \div 200
    BY DEF Quot
  <2>4. Quot(a, 100) \in Nat /\ 20 * Quot(a, 100) <= p + 10
    BY <2>2, <2>3
  <2> QED BY <2>1, <2>4 DEF p
<1>7. Operating(i) \in Int /\ 5 * Operating(i) < 2 * Limit /\ -Limit < 5 * Operating(i)
  <2> DEFINE m1 == i.landlord_insurance_annual
             m2 == i.annual_service_charge
             m3 == i.annual_ground_rent
             m4 == i.annual_accountancy_cost
  <2>1. /\ m1 \in Int /\ 30 * m1 < Limit /\ -Limit < 30 * m1
        /\ m2 \in Int /\ 30 * m2 < Limit /\ -Limit < 30 * m2
        /\ m3 \in Int /\ 30 * m3 < Limit /\ -Limit < 30 * m3
        /\ m4 \in Int /\ 30 * m4 < Limit /\ -Limit < 30 * m4
    BY InSizeNumbers
  <2>2. Operating(i) = Costs(i).letting + Costs(i).maintenance + m1 + m2 + m3 + m4
    BY DEF Operating, f11_total_operating_costs, Costs, CostsOf
  <2> HIDE DEF m1, m2, m3, m4
  <2> QED BY <1>1, <1>3, <1>5, <1>6, <2>1, <2>2
<1> QED BY <1>3, <1>4, <1>5, <1>6, <1>7

\* The loan, the interest of a year and what the stress test makes of it.
LEMMA InSizeLoan ==
  ASSUME StressRate <= 100, NEW i, InSize(i), NEW monthly \in Nat, NEW looped \in Int,
         24 * monthly <= LoanOf(i) + 48, HasLoop(i) => looped \in 0 .. 12 * monthly
  PROVE  /\ LoanOf(i) \in Nat /\ 10 * LoanOf(i) <= Limit
         /\ 10 * (12 * monthly) <= 5 * LoanOf(i) + 240
         /\ Yearly(i, looped) \in Nat /\ 10 * Yearly(i, looped) <= 5 * LoanOf(i) + 240
         /\ Quot(LoanOf(i) * StressRate, 100) \in 0 .. LoanOf(i)
<1> DEFINE loan == LoanOf(i)
<1>1. EngineInput(i) /\ Valid(i) /\ i.mortgage_interest_rate \in 0 .. 10 * RateScale
  BY InSizeNumbers DEF InSize, LowRate
<1>2. loan \in Nat /\ 10 * loan <= Limit
  BY InSizeNumbers DEF LoanOf, f04_loan_amount
<1>3. StressRate \in Nat /\ 100 \in Nat \ {0}
  BY ConfigurationAssumption
<1>4. Quot(loan * StressRate, 100) \in 0 .. loan
  <2> HIDE DEF loan
  <2> QED BY <1>2, <1>3, QuotShare
<1>5. Yearly(i, looped) \in Nat /\ 10 * Yearly(i, looped) <= 5 * loan + 240
  <2>1. CASE HasLoop(i)
    <3>1. Yearly(i, looped) = looped
      BY <2>1 DEF HasLoop, Yearly, f08_annual_mortgage_interest
    <3> HIDE DEF loan
    <3>2. looped \in 0 .. 12 * monthly /\ 24 * monthly <= loan + 48
      BY <2>1 DEF loan
    <3> QED BY <1>2, <3>1, <3>2
  <2>2. CASE i.mortgage_interest_rate = 0
    <3>1. Yearly(i, looped) = 0
      BY <2>2 DEF Yearly, f08_annual_mortgage_interest
    <3> HIDE DEF loan
    <3> QED BY <1>2, <3>1
  <2>3. CASE i.mortgage_interest_rate # 0 /\ ~ HasLoop(i)
    <3> DEFINE a == loan * i.mortgage_interest_rate
               s == 100 * RateScale
    <3>1. Yearly(i, looped) = Quot(a, s)
      <4>1. i.mortgage_type = "INTEREST_ONLY"
        BY <1>1, <2>3, InputNumbers DEF HasLoop
      <4> QED BY <2>3, <4>1 DEF Yearly, f08_annual_mortgage_interest
    <3> DEFINE rate == 10 * i.mortgage_interest_rate
    <3>2. s \in Nat \ {0} /\ rate \in Nat /\ rate <= s
      BY <1>1, RateAssumption
    <3> HIDE DEF loan, s
    <3>3. a \in Nat /\ 10 * a = loan * rate
      BY <1>1, <1>2
    <3> HIDE DEF a, rate
    <3>4. loan * rate <= loan * s
      BY <1>2, <3>2
    <3> DEFINE q == Quot(a, s)
    <3>5. q \in Nat
      BY <3>2, <3>3, QuotNatural
    <3>6. q \in Nat /\ 2 * (s * q) - 2 * a <= s
      <4>1. a \in Int /\ s \in Nat \ {0}
        BY <3>2, <3>3
      <4>2. 2 * (s * q) - 2 * a <= s
        BY <4>1, QuotNearest
      <4> QED BY <3>5, <4>2
    <3> HIDE DEF q
    <3>7. s * (10 * q - loan - 5) = 10 * (s * q) - loan * s - 5 * s
          /\ s * q \in Int /\ loan * s \in Int
      BY <1>2, <3>2, <3>6
    <3>8. s * (10 * q - loan - 5) <= 0
      BY <1>2, <3>2, <3>3, <3>4, <3>6, <3>7
    <3>9. ASSUME NEW z \in Int, s * z <= 0 PROVE z <= 0
      BY <3>2, <3>9
    <3>10. 10 * q <= loan + 5
      BY <1>2, <3>6, <3>8, <3>9
    <3> QED BY <1>2, <3>1, <3>6, <3>10 DEF q
  <2> QED BY <2>1, <2>2, <2>3
<1> HIDE DEF loan
<1>6. 10 * (12 * monthly) <= 5 * loan + 240
  <2>1. 24 * monthly <= loan + 48
    BY DEF loan
  <2> QED BY <1>2, <2>1
<1> QED BY <1>2, <1>4, <1>5, <1>6 DEF loan

\* Stamp duty, twice the price at most.
LEMMA InSizeDuty ==
  ASSUME NEW i, InSize(i), NEW base0 \in Nat, base0 <= 100 * i.purchase_price
  PROVE  /\ Quot(base0, 100) \in 0 .. i.purchase_price
         /\ Quot(SurchargeOn(i), 100) \in 0 .. i.purchase_price
         /\ Duty(i, base0) \in 0 .. 2 * i.purchase_price
<1> DEFINE p == i.purchase_price
           s == SurchargeOn(i)
<1>1. p \in Nat /\ SurchargeRate \in 0 .. 100
  BY InSizeNumbers, ConfigurationAssumption, DutyRateAssumption
<1>2. s \in Nat /\ s <= 100 * p
  <2>1. s = 0 \/ s = p * SurchargeRate
    BY DEF SurchargeOn, Surcharge
  <2> HIDE DEF p, s
  <2>2. p * SurchargeRate \in Nat /\ p * SurchargeRate <= 100 * p
    BY <1>1
  <2> QED BY <1>1, <2>1, <2>2
<1>3. base0 <= 100 * p
  OBVIOUS
<1>4. Duty(i, base0) = Quot(base0 + s, 100)
  BY DEF Duty
<1> HIDE DEF p, s
<1>5. ASSUME NEW a \in Nat, NEW n \in Nat, a <= 100 * n
      PROVE  Quot(a, 100) \in 0 .. n
  <2>1. Quot(a, 100) = (2 * a + 100) \div 200
    BY DEF Quot
  <2> QED BY <1>5, <2>1
<1>6. base0 + s \in Nat /\ base0 + s <= 100 * (2 * p) /\ 2 * p \in Nat
  BY <1>1, <1>2, <1>3
<1> QED BY <1>1, <1>2, <1>3, <1>4, <1>5, <1>6 DEF p, s

\* A tax is no more than what it is raised on.
LEMMA TaxShare ==
  ASSUME NEW p \in Int
  PROVE  /\ CorporationTax(p) \in 0 .. Max0(p)
         /\ \A b \in {"BASIC_RATE", "HIGHER_RATE", "ADDITIONAL_RATE"} :
              Quot(IncomeTax(p, b), 100) \in 0 .. Max0(p)
<1>1. ReliefDen \in Nat \ {0}
  BY CorporationTaxAssumption
<1>2. ASSUME NEW q \in Int, q <= 0 PROVE CorporationTax(q) = 0
  <2>1. BandedTax(q) = 0
    BY <1>2 DEF BandedTax
  <2>2. 100 * ReliefDen \in Nat \ {0} /\ Quot((100 * ReliefDen) * 0, 100 * ReliefDen) = 0
    BY <1>1, QuotOfProduct
  <2>3. (100 * ReliefDen) * 0 = 0
    BY <2>2
  <2> QED BY <2>1, <2>2, <2>3 DEF CorporationTax
<1>3. CorporationTax(p) \in 0 .. Max0(p)
  <2>1. CASE p <= 0
    BY <1>2, <2>1 DEF Max0
  <2>2. CASE p > 0
    <3>1. CorporationTax(p) \in Nat /\ CorporationTax(0) = 0
      BY <1>2, CorporationTaxNatural
    <3>2. Retained(0) <= Retained(p)
      BY <2>2, RetainedMonotone
    <3> QED BY <2>2, <3>1, <3>2 DEF Retained, Max0
  <2> QED BY <2>1, <2>2
<1>4. ASSUME NEW b \in {"BASIC_RATE", "HIGHER_RATE", "ADDITIONAL_RATE"}
      PROVE  Quot(IncomeTax(p, b), 100) \in 0 .. Max0(p)
  <2>1. IncomeTaxRate(b) \in 0 .. 100 /\ Max0(p) \in Nat /\ 100 \in Nat \ {0}
    BY DEF IncomeTaxRate, Max0
  <2> QED BY <2>1, QuotShare DEF IncomeTax
<1> QED BY <1>3, <1>4

\* Every tax figure is at most the profit or the interest it comes from.
LEMMA InSizeTax ==
  ASSUME NEW i, EngineInput(i), Valid(i), NEW looped \in Int, Yearly(i, looped) \in Nat
  PROVE  LET profit == Max0(Rent(i) - Operating(i))
             tax == TaxOn(i, looped)
         IN /\ tax.taxable \in {Rent(i) - Operating(i), Rent(i) - Operating(i) - Yearly(i, looped)}
            /\ tax.liability \in 0 .. profit
            /\ \A f \in DOMAIN tax.optional :
                 \/ tax.optional[f] = None
                 \/ tax.optional[f] \in 0 .. profit
                 \/ tax.optional[f] \in 0 .. Yearly(i, looped)
<1> DEFINE p == Rent(i) - Operating(i)
           yearly == Yearly(i, looped)
           tax == TaxOn(i, looped)
<1>1. /\ p \in Int /\ yearly \in Nat /\ TaxedProfit(Rent(i), Costs(i)) = p
  BY FigureTypes
<1>2. Max0(p) \in Nat /\ Max0(p - yearly) \in Nat /\ Max0(p - yearly) <= Max0(p)
  <2> HIDE DEF p, yearly
  <2> QED BY <1>1 DEF Max0
<1>3. CASE i.ownership_structure = "INDIVIDUAL"
  <2> DEFINE b == i.income_tax_band
  <2>1. b \in {"BASIC_RATE", "HIGHER_RATE", "ADDITIONAL_RATE"}
    BY <1>3, TaxFields
  <2>2. /\ tax.optional = [income_tax_gross |-> Quot(IncomeTax(p, b), 100),
                           mortgage_interest_tax_credit |-> Quot(yearly * CreditRate, 100),
                           corporation_tax_gross |-> None]
        /\ tax.taxable = p
        /\ tax.liability = Credited(IncomeTax(p, b), yearly * CreditRate)
    BY <1>1, <1>3 DEF TaxOn, TaxOf, calculate_individual_tax
  <2> HIDE DEF p, yearly, tax, b
  <2>3. Quot(IncomeTax(p, b), 100) \in 0 .. Max0(p)
    BY <1>1, <2>1, TaxShare
  <2>4. Quot(yearly * CreditRate, 100) \in 0 .. yearly
    BY <1>1, QuotShare DEF CreditRate
  <2>5. tax.liability \in 0 .. Max0(p)
    <3>1. IncomeTax(p, b) \in Int /\ yearly * CreditRate \in Nat
      <4>1. IncomeTaxRate(b) \in Nat
        BY <2>1 DEF IncomeTaxRate
      <4> QED BY <1>1, <1>2, <4>1 DEF IncomeTax, CreditRate
    <3>2. IncomeTax(p, b) - yearly * CreditRate \in Int
          /\ IncomeTax(p, b) - yearly * CreditRate <= IncomeTax(p, b)
      BY <3>1
    <3>3. /\ Quot(IncomeTax(p, b) - yearly * CreditRate, 100) <= Quot(IncomeTax(p, b), 100)
          /\ Quot(IncomeTax(p, b) - yearly * CreditRate, 100) \in Int
      BY <3>1, <3>2, QuotMonotone, QuotType
    <3> QED BY <1>2, <2>2, <2>3, <3>3 DEF Credited, Max0
  <2>6. \A f \in DOMAIN tax.optional : \/ tax.optional[f] = None
                                       \/ tax.optional[f] \in 0 .. Max0(p)
                                       \/ tax.optional[f] \in 0 .. yearly
    BY <2>2, <2>3, <2>4
  <2> QED BY <2>2, <2>5, <2>6 DEF p, yearly, tax
<1>4. CASE i.ownership_structure # "INDIVIDUAL"
  <2>1. /\ tax.optional = [income_tax_gross |-> None, mortgage_interest_tax_credit |-> None,
                           corporation_tax_gross |-> CorporationTax(p - yearly)]
        /\ tax.taxable = p - yearly
        /\ tax.liability = Max0(CorporationTax(p - yearly))
    BY <1>1, <1>4 DEF TaxOn, TaxOf, calculate_limited_company_tax
  <2> HIDE DEF p, yearly, tax
  <2>2. CorporationTax(p - yearly) \in 0 .. Max0(p)
    <3>1. CorporationTax(p - yearly) \in 0 .. Max0(p - yearly)
      BY <1>1, TaxShare
    <3> QED BY <1>2, <3>1
  <2>3. tax.liability \in 0 .. Max0(p)
    BY <1>2, <2>1, <2>2 DEF Max0
  <2>4. \A f \in DOMAIN tax.optional : \/ tax.optional[f] = None
                                       \/ tax.optional[f] \in 0 .. Max0(p)
                                       \/ tax.optional[f] \in 0 .. yearly
    BY <2>1, <2>2
  <2> QED BY <2>1, <2>3, <2>4 DEF p, yearly, tax
<1> QED BY <1>3, <1>4

-----------------------------------------------------------------------------
(* Figures in size                                                         *)

\* The names of the money figures, and those figures that FigureFields does not
\* give.
LEMMA MoneyFields ==
  ASSUME NEW i, NEW monthly, NEW looped, NEW base0, NEW fig,
         fig = Calculated(i, monthly, looped, base0)
  PROVE  /\ DOMAIN fig.money =
              {"gross_annual_rent", "effective_annual_rent", "loan_amount",
               "monthly_mortgage_payment", "annual_mortgage_cost", "annual_mortgage_interest",
               "sdlt_base", "sdlt_surcharge", "total_sdlt", "total_acquisition_cost",
               "total_cash_deployed", "letting_agent_annual", "annual_maintenance_reserve",
               "total_operating_costs", "net_operating_income", "taxable_income_or_profit",
               "annual_tax_liability", "pre_tax_annual_cash_flow", "annual_cash_flow",
               "monthly_cash_flow", "stressed_annual_interest"}
         /\ fig.money.effective_annual_rent = Rent(i)
         /\ fig.money.monthly_mortgage_payment = monthly
         /\ fig.money.letting_agent_annual = Costs(i).letting
         /\ fig.money.annual_maintenance_reserve = Costs(i).maintenance
         /\ fig.money.total_operating_costs = Operating(i)
         /\ fig.money.monthly_cash_flow = Quot(fig.money.annual_cash_flow, 12)
         /\ fig.money.stressed_annual_interest = Quot(LoanOf(i) * StressRate, 100)
         /\ fig.optional = TaxOn(i, looped).optional
<1> USE DEF Calculated, GrossRent, Rent, Costs, Operating, Yearly, TaxOn, LoanOf
<1>1. DOMAIN fig.money =
        {"gross_annual_rent", "effective_annual_rent", "loan_amount",
         "monthly_mortgage_payment", "annual_mortgage_cost", "annual_mortgage_interest",
         "sdlt_base", "sdlt_surcharge", "total_sdlt", "total_acquisition_cost",
         "total_cash_deployed", "letting_agent_annual", "annual_maintenance_reserve",
         "total_operating_costs", "net_operating_income", "taxable_income_or_profit",
         "annual_tax_liability", "pre_tax_annual_cash_flow", "annual_cash_flow",
         "monthly_cash_flow", "stressed_annual_interest"}
  OBVIOUS
<1>2. /\ fig.money.effective_annual_rent = Rent(i)
      /\ fig.money.monthly_mortgage_payment = monthly
      /\ fig.money.letting_agent_annual = Costs(i).letting
      /\ fig.money.annual_maintenance_reserve = Costs(i).maintenance
      /\ fig.money.total_operating_costs = Operating(i)
      /\ fig.optional = TaxOn(i, looped).optional
  OBVIOUS
<1>3. fig.money.monthly_cash_flow = Quot(fig.money.annual_cash_flow, 12)
  BY DEF f20_monthly_cash_flow
<1>4. fig.money.stressed_annual_interest = Quot(LoanOf(i) * StressRate, 100)
  BY DEF f22_stressed_annual_interest
<1> QED BY <1>1, <1>2, <1>3, <1>4

\* A tenth of the limit is left for rounding.
Within(v) == v \in Int /\ 10 * v <= 9 * Limit /\ -(9 * Limit) <= 10 * v

LEMMA WithinRounded ==
  ASSUME NEW v, Within(v)
  PROVE  ~ (Abs(RoundPenny(v)) >= Limit)
<1>1. /\ Limit \in Nat /\ Cent \in Nat \ {0} /\ 100000 * Cent <= Limit
      /\ v \in Int /\ 10 * v <= 9 * Limit /\ -(9 * Limit) <= 10 * v
  BY GridAssumption, SizeAssumption, SMT DEF Within
<1>2. /\ RoundPenny(v) \in Int
      /\ 2 * (RoundPenny(v) - v) <= Cent /\ 2 * (v - RoundPenny(v)) <= Cent
  BY <1>1, PennyNearest, SMT
<1> QED BY <1>1, <1>2, SMT DEF Abs

\* No figure of an input in size is too large to be written down.
LEMMA InSizeFigures ==
  ASSUME VatRate <= 100, StressRate <= 100, NEW i, InSize(i),
         NEW monthly \in Nat, 24 * monthly <= LoanOf(i) + 48,
         NEW looped \in Int, HasLoop(i) => looped \in 0 .. 12 * monthly,
         NEW base0 \in Nat, base0 <= 100 * i.purchase_price
  PROVE  ~ TooLarge(Rounded(Calculated(i, monthly, looped, base0)))
<1> DEFINE fig == Calculated(i, monthly, looped, base0)
           m == fig.money
           noi == Rent(i) - Operating(i)
           yearly == Yearly(i, looped)
           liability == TaxOn(i, looped).liability
           taxable == TaxOn(i, looped).taxable
           loan == LoanOf(i)
           price == i.purchase_price
           legal == i.purchase_legal_costs
           refurb == i.refurbishment_cost
           deposit == i.deposit_amount
           duty == Duty(i, base0)
           cash == noi - 12 * monthly - liability
<1>1. /\ Limit \in Nat /\ 100000 <= Limit
      /\ price \in Nat /\ 10 * price <= Limit /\ deposit \in Nat /\ deposit < price
      /\ legal \in Int /\ 30 * legal < Limit /\ -Limit < 30 * legal
      /\ refurb \in Int /\ 30 * refurb < Limit /\ -Limit < 30 * refurb
  BY InSizeNumbers, SMT
<1>2. /\ GrossRent(i) \in Nat /\ 30 * GrossRent(i) < 12 * Limit
      /\ Rent(i) \in 0 .. GrossRent(i)
      /\ Costs(i).letting \in Nat /\ 2 * Costs(i).letting <= GrossRent(i) + 1
      /\ Costs(i).maintenance \in Nat /\ 20 * Costs(i).maintenance <= price + 10
      /\ Operating(i) \in Int /\ 5 * Operating(i) < 2 * Limit /\ -Limit < 5 * Operating(i)
  BY InSizeRent
<1>3. /\ loan \in Nat /\ 10 * loan <= Limit /\ 10 * (12 * monthly) <= 5 * loan + 240
      /\ yearly \in Nat /\ 10 * yearly <= 5 * loan + 240
      /\ Quot(loan * StressRate, 100) \in 0 .. loan
  BY InSizeLoan
<1>4. /\ Quot(base0, 100) \in 0 .. price /\ Quot(SurchargeOn(i), 100) \in 0 .. price
      /\ duty \in 0 .. 2 * price
  BY InSizeDuty
<1>5. /\ taxable \in {noi, noi - yearly} /\ liability \in 0 .. Max0(noi)
      /\ \A f \in DOMAIN fig.optional : \/ fig.optional[f] = None
                                        \/ fig.optional[f] \in 0 .. Max0(noi)
                                        \/ fig.optional[f] \in 0 .. yearly
  <2>1. EngineInput(i) /\ Valid(i) /\ fig.optional = TaxOn(i, looped).optional
    BY MoneyFields DEF InSize
  <2> QED BY <1>3, <2>1, InSizeTax
<1>6. /\ m.gross_annual_rent = GrossRent(i) /\ m.effective_annual_rent = Rent(i)
      /\ m.loan_amount = loan /\ m.monthly_mortgage_payment = monthly
      /\ m.annual_mortgage_cost = 12 * monthly /\ m.annual_mortgage_interest = yearly
      /\ m.sdlt_base = Quot(base0, 100) /\ m.sdlt_surcharge = Quot(SurchargeOn(i), 100)
      /\ m.total_sdlt = duty
      /\ m.total_acquisition_cost = price + duty + legal + refurb
      /\ m.total_cash_deployed = deposit + duty + legal + refurb
      /\ m.letting_agent_annual = Costs(i).letting
      /\ m.annual_maintenance_reserve = Costs(i).maintenance
      /\ m.total_operating_costs = Operating(i) /\ m.net_operating_income = noi
      /\ m.taxable_income_or_profit = taxable /\ m.annual_tax_liability = liability
      /\ m.pre_tax_annual_cash_flow = noi - 12 * monthly /\ m.annual_cash_flow = cash
      /\ m.monthly_cash_flow = Quot(cash, 12)
      /\ m.stressed_annual_interest = Quot(loan * StressRate, 100)
  <2>1. fig = Calculated(i, monthly, looped, base0)
    OBVIOUS
  <2> HIDE DEF fig
  <2>2. m.net_operating_income = noi /\ m.annual_tax_liability = liability
    BY <2>1, FigureFields
  <2>3. m.annual_cash_flow = cash
    BY <2>1, <2>2, FigureFields
  <2> QED BY <2>1, <2>2, <2>3, FigureFields, MoneyFields
<1>7. DOMAIN m =
        {"gross_annual_rent", "effective_annual_rent", "loan_amount",
         "monthly_mortgage_payment", "annual_mortgage_cost", "annual_mortgage_interest",
         "sdlt_base", "sdlt_surcharge", "total_sdlt", "total_acquisition_cost",
         "total_cash_deployed", "letting_agent_annual", "annual_maintenance_reserve",
         "total_operating_costs", "net_operating_income", "taxable_income_or_profit",
         "annual_tax_liability", "pre_tax_annual_cash_flow", "annual_cash_flow",
         "monthly_cash_flow", "stressed_annual_interest"}
  BY MoneyFields
<1> HIDE DEF fig, m, yearly, liability, taxable, loan, price, legal, refurb, deposit, duty
<1>8. /\ noi \in Int /\ 10 * noi <= 6 * Limit /\ -(4 * Limit) <= 10 * noi
      /\ Max0(noi) \in Nat /\ Max0(noi) <= Max0(noi) /\ 10 * Max0(noi) <= 6 * Limit
      /\ noi <= 0 => Max0(noi) = 0
      /\ noi > 0 => Max0(noi) = noi
  BY <1>1, <1>2, SMT DEF Max0
<1> HIDE DEF noi
<1>9. /\ cash \in Int /\ 10 * cash <= 6 * Limit /\ -(5 * Limit) <= 10 * cash
  BY <1>1, <1>3, <1>5, <1>8, SMT
<1> HIDE DEF cash
<1>10. Within(Quot(cash, 12))
  <2>1. Quot(cash, 12) = (2 * cash + 12) \div 24
    BY SMT DEF Quot
  <2> QED BY <1>1, <1>9, <2>1, SMT DEF Within
<1>11. /\ Within(GrossRent(i)) /\ Within(Rent(i)) /\ Within(Costs(i).letting)
       /\ Within(Costs(i).maintenance) /\ Within(Operating(i)) /\ Within(noi)
  BY <1>1, <1>2, <1>8, SMT DEF Within
<1>12. /\ Within(loan) /\ Within(monthly) /\ Within(12 * monthly) /\ Within(yearly)
       /\ Within(Quot(loan * StressRate, 100))
  <2> DEFINE stressed == Quot(loan * StressRate, 100)
  <2>1. stressed \in 0 .. loan
    BY <1>3
  <2> HIDE DEF stressed
  <2>2. Within(stressed) /\ Within(loan) /\ Within(monthly) /\ Within(12 * monthly)
    BY <1>1, <1>3, <2>1, SMT DEF Within
  <2>3. Within(yearly)
    BY <1>1, <1>3, SMT DEF Within
  <2> QED BY <2>2, <2>3 DEF stressed
<1>13. /\ Within(Quot(base0, 100)) /\ Within(Quot(SurchargeOn(i), 100)) /\ Within(duty)
       /\ Within(price + duty + legal + refurb) /\ Within(deposit + duty + legal + refurb)
  <2> DEFINE first == Quot(base0, 100)
             second == Quot(SurchargeOn(i), 100)
  <2>1. first \in 0 .. price /\ second \in 0 .. price
    BY <1>4
  <2> HIDE DEF first, second
  <2>2. Within(first) /\ Within(second)
    BY <1>1, <2>1, SMT DEF Within
  <2>3. /\ Within(duty) /\ Within(price + duty + legal + refurb)
        /\ Within(deposit + duty + legal + refurb)
    BY <1>1, <1>4, SMT DEF Within
  <2> QED BY <2>2, <2>3 DEF first, second
<1>14. /\ Within(taxable) /\ Within(liability) /\ Within(noi - 12 * monthly) /\ Within(cash)
  BY <1>1, <1>3, <1>5, <1>8, <1>9, SMT DEF Within
<1>15. \A f \in DOMAIN m : Within(m[f])
  <2>1. /\ Within(m.gross_annual_rent) /\ Within(m.effective_annual_rent) /\ Within(m.loan_amount)
        /\ Within(m.monthly_mortgage_payment) /\ Within(m.annual_mortgage_cost) /\ Within(m.annual_mortgage_interest)
        /\ Within(m.sdlt_base) /\ Within(m.sdlt_surcharge) /\ Within(m.total_sdlt)
        /\ Within(m.total_acquisition_cost) /\ Within(m.total_cash_deployed) /\ Within(m.letting_agent_annual)
        /\ Within(m.annual_maintenance_reserve) /\ Within(m.total_operating_costs) /\ Within(m.net_operating_income)
        /\ Within(m.taxable_income_or_profit) /\ Within(m.annual_tax_liability) /\ Within(m.pre_tax_annual_cash_flow)
        /\ Within(m.annual_cash_flow) /\ Within(m.monthly_cash_flow) /\ Within(m.stressed_annual_interest)
    BY <1>6, <1>10, <1>11, <1>12, <1>13, <1>14
  <2> HIDE DEF m
  <2> QED BY <1>7, <2>1
<1>16. \A f \in DOMAIN fig.optional : fig.optional[f] = None \/ Within(fig.optional[f])
  BY <1>1, <1>3, <1>5, <1>8, SMT DEF Within
<1> DEFINE r == Rounded(fig)
<1>17. /\ DOMAIN r.money = DOMAIN m
       /\ \A f \in DOMAIN m : r.money[f] = RoundPenny(m[f])
       /\ DOMAIN r.optional = DOMAIN fig.optional
       /\ \A f \in DOMAIN fig.optional : r.optional[f] = RoundOrNone(fig.optional[f])
  BY DEF Rounded, m
<1>18. ~ TooLarge(r)
  <2> HIDE DEF r
  <2>1. \A f \in DOMAIN r.money : ~ (Abs(r.money[f]) >= Limit)
    BY <1>15, <1>17, WithinRounded
  <2>2. ASSUME NEW f \in DOMAIN r.optional, r.optional[f] # None
        PROVE  ~ (Abs(r.optional[f]) >= Limit)
    <3>1. f \in DOMAIN fig.optional /\ r.optional[f] = RoundOrNone(fig.optional[f])
      BY <1>17
    <3>2. fig.optional[f] # None /\ r.optional[f] = RoundPenny(fig.optional[f])
      BY <2>2, <3>1 DEF RoundOrNone
    <3> QED BY <1>16, <3>1, <3>2, WithinRounded
  <2> QED BY <2>1, <2>2 DEF TooLarge
<1> QED BY <1>18 DEF r, fig

-----------------------------------------------------------------------------
(* When the engine fails                                                   *)

LEMMA ReachedAmount ==
  ASSUME NEW b \in 1 .. Len(Bands), NEW price \in Int, price > Bands[b].lower
  PROVE  /\ TaxableInBand(price, Bands[b]) \in Nat
         /\ Bands[b].rate \in Nat /\ Bands[b].rate <= 100
<1>1. /\ Len(Bands) \in Nat \ {0} /\ Bands[b].lower \in Nat /\ Bands[b].rate \in Nat
      /\ b = Len(Bands) => Bands[b].upper = None
      /\ b < Len(Bands) => /\ Bands[b].upper = Bands[b + 1].lower /\ Bands[b].upper \in Nat
                           /\ Bands[b].lower < Bands[b].upper /\ Bands[b].upper # None
  BY BandEnds
<1>2. Bands[b].rate <= 100
  BY DutyRateAssumption
<1>3. Bands[b].upper = None \/ (Bands[b].upper \in Nat /\ Bands[b].lower < Bands[b].upper)
  BY <1>1
<1>4. Bands[b].rate \in Nat /\ Bands[b].rate <= 100 /\ Bands[b].lower \in Nat
  BY <1>1, <1>2
<1> DEFINE lower == Bands[b].lower
           upper == Bands[b].upper
           amount == TaxableInBand(price, Bands[b])
<1>5. lower \in Nat /\ price > lower
  BY <1>4
<1>6. amount = price - lower \/ (upper \in Nat /\ lower < upper /\ amount = upper - lower)
  <2>1. upper # None => amount = price - lower \/ amount = upper - lower
    BY DEF TaxableInBand
  <2>2. upper = None => amount = price - lower
    BY DEF TaxableInBand
  <2> QED BY <1>3, <2>1, <2>2
<1> HIDE DEF lower, upper, amount
<1>7. amount \in Nat
  BY <1>5, <1>6
<1> QED BY <1>4, <1>7 DEF amount

\* Stamp duty before the surcharge never takes more than is taxed; there are
\* figures only when none was too large.
SizeInv ==
  /\ base <= 100 * taxed
  /\ Computed => ~ TooLarge(Rounded(figures))

LEMMA NextSize == AnalysisInv /\ SizeInv /\ [Next]_vars => SizeInv'
<1> SUFFICES ASSUME AnalysisInv, SizeInv, [Next]_vars PROVE SizeInv'
  OBVIOUS
<1>1. ASSUME UNCHANGED <<taxed, base>>, figures' \in {None, figures}
      PROVE  SizeInv'
  BY <1>1 DEF SizeInv, Computed
<1>2. CASE resolve_defaults
  BY <1>1, <1>2 DEF resolve_defaults, bands
<1>3. CASE Validate
  BY <1>1, <1>3 DEF Validate, bands
<1>4. CASE Finance
  BY <1>4 DEF Finance, SizeInv, Computed
<1>11. CASE FinanceFails
  BY <1>1, <1>11 DEF FinanceFails, bands
<1>5. CASE RepayMonth
  BY <1>1, <1>5 DEF RepayMonth, bands
<1>6. CASE TaxBand
  <2> DEFINE price == input.purchase_price
             amount == TaxableInBand(price, Bands[band])
  <2>1. /\ pc = "banding" /\ band <= Len(Bands) /\ price > Bands[band].lower
        /\ taxed' = taxed + amount /\ base' = base + amount * Bands[band].rate
        /\ UNCHANGED <<pc, figures>>
    BY <1>6 DEF TaxBand, MoreBands, BandReached
  <2>2. price \in Int /\ taxed \in Nat /\ base \in Nat /\ band \in 1 .. Len(Bands)
    <3>1. EngineInput(input) /\ band \in 1 .. Len(Bands) + 1 /\ taxed \in Nat /\ base \in Nat
      BY <2>1 DEF AnalysisInv, InputInv, TypeOK
    <3> QED BY <2>1, <3>1, InputNumbers, BandsAssumption
  <2>3. amount \in Nat /\ Bands[band].rate \in Nat /\ Bands[band].rate <= 100
    BY <2>1, <2>2, ReachedAmount
  <2> HIDE DEF amount
  <2>4. amount * Bands[band].rate \in Nat /\ amount * Bands[band].rate <= 100 * amount
    BY <2>3
  <2>5. base' <= 100 * taxed'
    <3> DEFINE charge == amount * Bands[band].rate
    <3>1. /\ base <= 100 * taxed /\ charge \in Nat /\ charge <= 100 * amount
          /\ taxed' = taxed + amount /\ base' = base + charge
      BY <2>1, <2>4 DEF SizeInv
    <3> HIDE DEF charge
    <3> QED BY <2>2, <2>3, <3>1
  <2> QED BY <2>1, <2>5 DEF SizeInv, Computed
<1>7. CASE Calculate
  <2> DEFINE fig == Calculated(input, payment, interest, base)
  <2>1. /\ figures' = None \/ (figures' = fig /\ ~ TooLarge(Rounded(fig)))
        /\ UNCHANGED <<taxed, base>>
    BY <1>7 DEF Calculate, bands
  <2> HIDE DEF fig
  <2>2. figures' # None => ~ TooLarge(Rounded(figures'))
    BY <2>1
  <2> QED BY <2>1, <2>2 DEF SizeInv, Computed
<1>8. CASE Save
  BY <1>1, <1>8 DEF Save, bands
<1>9. ASSUME NEW k \in 1 .. Copies, Reproduce(k) PROVE SizeInv'
  BY <1>1, <1>9 DEF Reproduce, bands
<1>10. CASE UNCHANGED vars
  BY <1>10 DEF vars, loop, bands, SizeInv, Computed
<1> QED BY <1>2, <1>3, <1>4, <1>5, <1>6, <1>7, <1>8, <1>9, <1>10, <1>11 DEF Next

LEMMA SizeHolds == Spec => []SizeInv
<1>1. Init => SizeInv
  BY DEF Init, SizeInv, Computed
<1> QED BY <1>1, NextSize, AnalysisHolds, PTL DEF Spec

\* A rate that vanishes in the digits is far below the one V-11 warns about.
LEMMA VanishingWarned ==
  ASSUME NEW i, EngineInput(i), Indivisible(i)
  PROVE  "V11" \in run_validation(i).warnings
<1> DEFINE rate == i.mortgage_interest_rate
<1>1. /\ rate \in Int /\ 0 < rate /\ rate * Parts <= 6000 * RateScale
      /\ Parts \in Nat /\ 10000 <= Parts /\ RateScale \in Nat \ {0}
  BY InputNumbers, RateAssumption, PartsAssumption DEF Indivisible, Vanishes
<1>2. rate < 3 * RateScale
  <2> HIDE DEF rate
  <2>1. rate * 10000 <= rate * Parts /\ rate * Parts \in Int
    BY <1>1
  <2> QED BY <1>1, <2>1
<1>3. PurchaseWarnings(i).V11 = (0 < rate /\ rate < 3 * RateScale)
  BY DEF PurchaseWarnings
<1>4. "V11" \in DOMAIN PurchaseWarnings(i)
  BY DEF PurchaseWarnings
<1> HIDE DEF rate
<1>5. PurchaseWarnings(i).V11
  <2>1. 0 < rate /\ rate < 3 * RateScale
    BY <1>1, <1>2
  <2> QED BY <1>3, <2>1, Zenon
<1>6. "V11" \in Fired(PurchaseWarnings(i))
  BY <1>4, <1>5 DEF Fired
<1> QED BY <1>6 DEF run_validation

\* The figures of an input in size are never too large.
LEMMA InSizeComputes ==
  ASSUME VatRate <= 100, StressRate <= 100, AnalysisInv, PaidInv, SizeInv,
         pc = "banding", ~ MoreBands, InSize(input)
  PROVE  ~ TooLarge(Rounded(Calculated(input, payment, interest, base)))
<1>1. /\ payment \in Nat /\ interest \in Int /\ balance \in Int /\ month \in 0 .. 12
      /\ base \in Nat /\ EngineInput(input) /\ Valid(input) /\ pc \in Financed
  BY DEF AnalysisInv, TypeOK, InputInv, Financed, Passed
<1>2. base <= 100 * input.purchase_price
  BY AllTaxed DEF SizeInv
<1>3. LowRate(input) /\ 24 * payment <= LoanOf(input) + 48
  BY <1>1, InSizeNumbers DEF PaidInv
<1>4. HasLoop(input) => interest \in 0 .. 12 * payment
  <2> SUFFICES ASSUME HasLoop(input) PROVE interest \in 0 .. 12 * payment
    OBVIOUS
  <2>1. interest >= 0
    BY <1>1, <1>3 DEF PaidInv
  <2>2. (LoanOf(input) - balance) + interest = month * payment /\ balance <= LoanOf(input)
    BY <1>1, <1>3, LowIsShort DEF AnalysisInv, LoopInv
  <2>3. LoanOf(input) \in Int /\ month * payment \in Int /\ month * payment <= 12 * payment
    BY <1>1, FigureTypes
  <2> QED BY <1>1, <2>1, <2>2, <2>3
<1> QED BY <1>1, <1>2, <1>3, <1>4, InSizeFigures

\* The engine fails on a rate that vanishes or on an input out of size.
ErrorInv == pc = "error" => Indivisible(input) \/ ~ InSize(input)

LEMMA NextError ==
  ASSUME VatRate <= 100, StressRate <= 100
  PROVE  AnalysisInv /\ PaidInv /\ SizeInv /\ ErrorInv /\ [Next]_vars => ErrorInv'
<1> SUFFICES ASSUME AnalysisInv, PaidInv, SizeInv, ErrorInv, [Next]_vars PROVE ErrorInv'
  OBVIOUS
<1>1. CASE FinanceFails
  <2>1. Indivisible(input) /\ input' = input
    BY <1>1 DEF FinanceFails
  <2> QED BY <2>1 DEF ErrorInv
<1>2. CASE Calculate
  <2>1. /\ pc = "banding" /\ ~ MoreBands /\ input' = input
        /\ pc' = "error" => TooLarge(Rounded(Calculated(input, payment, interest, base)))
    BY <1>2 DEF Calculate
  <2>2. pc' = "error" => ~ InSize(input)
    BY <2>1, InSizeComputes
  <2> QED BY <2>1, <2>2 DEF ErrorInv
<1>3. CASE resolve_defaults
  BY <1>3 DEF resolve_defaults, ErrorInv
<1>4. CASE Validate
  BY <1>4 DEF Validate, ErrorInv
<1>5. CASE Finance
  BY <1>5 DEF Finance, ErrorInv
<1>6. CASE RepayMonth
  BY <1>6 DEF RepayMonth, ErrorInv
<1>7. CASE TaxBand
  BY <1>7 DEF TaxBand, ErrorInv
<1>8. CASE Save
  BY <1>8 DEF Save, ErrorInv
<1>9. ASSUME NEW k \in 1 .. Copies, Reproduce(k) PROVE ErrorInv'
  BY <1>9 DEF Reproduce, ErrorInv
<1>10. CASE UNCHANGED vars
  <2>1. pc' = pc /\ input' = input
    BY <1>10 DEF vars
  <2> QED BY <2>1 DEF ErrorInv
<1> QED BY <1>1, <1>2, <1>3, <1>4, <1>5, <1>6, <1>7, <1>8, <1>9, <1>10 DEF Next

LEMMA ErrorHolds ==
  ASSUME VatRate <= 100, StressRate <= 100
  PROVE  Spec => []ErrorInv
<1>1. Init => ErrorInv
  BY DEF Init, ErrorInv
<1> QED BY <1>1, NextError, AnalysisHolds, PaidHolds, SizeHolds, PTL DEF Spec

\* A price at the limit is too large to be written down.
LEMMA PriceTooLarge ==
  ASSUME NEW v \in Int, v >= Limit
  PROVE  Abs(RoundPenny(v)) >= Limit
<1>1. Limit \in Nat /\ Cent \in Nat \ {0} /\ Limit % Cent = 0
  BY GridAssumption, SizeAssumption
<1> DEFINE n == Limit \div Cent
<1>2. n \in Nat /\ Limit = Cent * n
  BY <1>1
<1> HIDE DEF n
<1>3. Quot(Cent * n, Cent) = n /\ Cent * n \in Int
  BY <1>1, <1>2, QuotOfProduct
<1>4. Quot(v, Cent) \in Int /\ n <= Quot(v, Cent)
  BY <1>1, <1>2, <1>3, QuotMonotone, QuotType
<1>5. Cent * n <= Cent * Quot(v, Cent)
  BY <1>1, <1>2, <1>4
<1>6. RoundPenny(v) = Cent * Quot(v, Cent)
  BY <1>1 DEF RoundPenny, HalfUp
<1>7. RoundPenny(v) \in Int
  BY PennyNearest
<1> QED BY <1>1, <1>2, <1>3, <1>5, <1>6, <1>7 DEF Abs

\* Under rates of VAT and of the stress test that are at most a hundred percent,
\* the engine fails only on an input out of size or on a repayment rate that its
\* digits lose and V-11 warns about, and never computes a price at the limit of
\* its digits.
THEOREM EngineFailsOnSize ==
  ASSUME VatRate <= 100, StressRate <= 100
  PROVE  Spec => []ErrorsAreSize
<1>1. ASSUME AnalysisInv, SizeInv, ErrorInv PROVE ErrorsAreSize
  <2>2. ASSUME pc = "error"
        PROVE  \/ Indivisible(input) /\ "V11" \in warnings
               \/ {"V03", "V12", "V20", "V24"} \cap warnings # {}
               \/ input.letting_agent_fee_percent < 0 \/ input.maintenance_reserve_percent < 0
               \/ \E f \in MoneyInputs \ {"purchase_price", "deposit_amount"} :
                    30 * Abs(input[f]) >= Limit
    <3>1. EngineInput(input) /\ Valid(input) /\ warnings = run_validation(input).warnings
      BY <1>1, <2>2 DEF AnalysisInv, InputInv, Passed
    <3>2. CASE Indivisible(input)
      BY <3>1, <3>2, VanishingWarned
    <3>3. CASE ~ InSize(input)
      BY <3>1, <3>3 DEF InSize
    <3> QED BY <1>1, <2>2, <3>2, <3>3 DEF ErrorInv
  <2>3. ASSUME Computed, input.purchase_legal_costs + input.refurbishment_cost >= 0
        PROVE  input.purchase_price < Limit
    <3> DEFINE price == input.purchase_price
               costs == input.purchase_legal_costs + input.refurbishment_cost
               total == price + Duty(input, base) + input.purchase_legal_costs
                          + input.refurbishment_cost
    <3>1. /\ EngineInput(input) /\ Valid(input) /\ base \in Nat
          /\ figures = Calculated(input, payment, interest, base)
      BY <1>1, <2>3, ComputedState
    <3>2. /\ figures.money.total_acquisition_cost = total
          /\ "total_acquisition_cost" \in DOMAIN figures.money
      BY <3>1, FigureFields, MoneyFields
    <3>3. /\ price \in Nat /\ input.purchase_legal_costs \in Int
          /\ input.refurbishment_cost \in Int /\ Limit \in Nat
      BY <3>1, InputNumbers, RulesHold, GridAssumption
    <3>4. Duty(input, base) \in Nat
      <4>1. SurchargeOn(input) \in Nat
        <5>1. SurchargeRate \in Nat
          BY ConfigurationAssumption
        <5> QED BY <3>3, <5>1 DEF SurchargeOn, Surcharge
      <4>2. base + SurchargeOn(input) \in Nat
        BY <3>1, <4>1
      <4> QED BY <4>2, QuotNatural DEF Duty
    <3>5. total \in Int /\ total >= price
      BY <2>3, <3>3, <3>4
    <3> HIDE DEF price, total
    <3>6. ~ (Abs(RoundPenny(total)) >= Limit)
      <4> DEFINE r == Rounded(figures)
      <4>1. /\ "total_acquisition_cost" \in DOMAIN r.money
            /\ r.money.total_acquisition_cost = RoundPenny(total)
        BY <3>2 DEF Rounded
      <4>2. ~ TooLarge(r)
        BY <1>1, <2>3 DEF SizeInv
      <4> HIDE DEF r
      <4> QED BY <4>1, <4>2 DEF TooLarge
    <3>7. ~ (total >= Limit)
      BY <3>5, <3>6, PriceTooLarge
    <3> QED BY <3>3, <3>5, <3>7 DEF price
  <2> QED BY <2>2, <2>3 DEF ErrorsAreSize
<1> QED BY <1>1, AnalysisHolds, SizeHolds, ErrorHolds, PTL
=============================================================================
