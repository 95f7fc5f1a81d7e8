------------------------------ MODULE Formulas ------------------------------
(***************************************************************************)
(* The formulas F-01 to F-22 of the underwriting engine, as the engine     *)
(* calls them.  Money is a whole number of units, the last digit that the  *)
(* ten-digit decimal context keeps; every function computes exactly and    *)
(* rounds its result once, to the nearest unit (Quot).  An interest rate   *)
(* is a whole number of steps, RateScale to the percent; the other         *)
(* percentages a user enters are whole.  A percentage the engine computes  *)
(* is a fraction [num, den] with den > 0: the loan to value of the rounded *)
(* ratio, which the rules and the flags draw the same lines through, and   *)
(* the others exact.                                                       *)
(***************************************************************************)
EXTENDS Integers

CONSTANTS
  None,       \* a value left blank
  RateScale,  \* steps of the interest rate in one percent
  Parts       \* parts of one that a ratio keeps: 10^10 for ten digits

ASSUME NoneAssumption == None \notin Int /\ None \notin [num : Int, den : Int]

ASSUME RateAssumption == RateScale \in Nat \ {0}

\* A whole number of percent is a whole number of parts, and a ratio keeps at
\* least four digits.
ASSUME PartsAssumption == Parts \in Nat /\ Parts % 100 = 0 /\ 10000 <= Parts

\* a / b to the nearest unit, for b > 0.
Quot(a, b) == (2 * a + b) \div (2 * b)

Max0(x) == IF x > 0 THEN x ELSE 0

-----------------------------------------------------------------------------
\* Fractions of hundred, kept exact until they are written.

Fraction(n, d) == IF d > 0 THEN [num |-> n, den |-> d]
                           ELSE [num |-> -n, den |-> -d]

Zero == [num |-> 0, den |-> 1]

\* base / whole * 100, and 0 where the code guards a zero denominator.
PercentOf(base, whole) == IF whole = 0 THEN Zero ELSE Fraction(100 * base, whole)

Below(f, n) == f.num < n * f.den
Above(f, n) == f.num > n * f.den

-----------------------------------------------------------------------------
\* Income.

f01_gross_annual_rent(monthly_rent) == 12 * monthly_rent

f02_void_rate_decimal(void_rate_percent) == [num |-> void_rate_percent, den |-> 100]

f03_effective_annual_rent(gross, void) == Quot(gross * (void.den - void.num), void.den)

-----------------------------------------------------------------------------
\* Financing.

f04_loan_amount(price, deposit) == price - deposit

\* a / b to the nearest part, for b > 0: Quot(a * Parts, b) by long division.
InParts(a, b) ==
  LET percent == Parts \div 100
  IN ((100 * a) \div b) * percent + Quot(((100 * a) % b) * percent, b)

\* The ratio is rounded before it is multiplied by a hundred.
f05_ltv_percent(loan, price) ==
  IF price = 0 THEN Zero ELSE [num |-> InParts(loan, price), den |-> Parts \div 100]

MonthlyInterest(balance, rate) == Quot(balance * rate, 1200 * RateScale)

\* A monthly rate of half a part or less: 1 + r rounds to 1, (1 + r)^n is 1,
\* and the annuity divides by 1 - 1.
Vanishes(rate) == 0 < rate /\ rate * Parts <= 6000 * RateScale

\* What the digits of the annuity may take from a payment or add to it.  They
\* tell (1 + r)^n from (1 + r)^n - 1 unless the power has more than nine, which
\* takes 1800 years' percent of interest over the term; without that, dividing
\* the one by the other outweighs every rounding.
AnnuityError(first, rate, term) ==
  IF rate * term < 1800 * RateScale THEN 0 ELSE Quot(20 * first, Parts) + 1

\* The payments F-06 may return.  Interest-only and zero-rate loans have one;
\* the annuity's (1 + r)^n is the decimal library's power, of which the model
\* keeps bounds: the payment covers the first month's interest, but for
\* AnnuityError, and repays no more than twice an equal share of the loan (the
\* smallest rates lose up to a third of themselves in 1 + r).
f06_monthly_mortgage_payments(loan, rate, term, type) ==
  IF rate = 0 THEN {0}
  ELSE LET first == MonthlyInterest(loan, rate)
           error == AnnuityError(first, rate, term)
       IN IF type = "INTEREST_ONLY"
          THEN {first}
          ELSE Max0(first - error) .. (first + Quot(2 * loan, 12 * term) + 1 + error)

f07_annual_mortgage_cost(monthly_payment) == 12 * monthly_payment

\* F-08 before its loop: the cases that return at once.  `looped' is what the
\* loop over twelve months adds up to, for a repayment mortgage.
f08_annual_mortgage_interest(loan, rate, type, looped) ==
  IF rate = 0 THEN 0
  ELSE IF type = "INTEREST_ONLY" THEN Quot(loan * rate, 100 * RateScale)
  ELSE looped

-----------------------------------------------------------------------------
\* Operating costs.

f09_letting_agent_annual(gross, fee, vat) == Quot(gross * fee * (100 + vat), 10000)

f10_annual_maintenance_reserve(price, reserve) == Quot(price * reserve, 100)

f11_total_operating_costs(letting, maintenance, insurance, service, ground, accountancy) ==
  letting + maintenance + insurance + service + ground + accountancy

f12_net_operating_income(rent, costs) == rent - costs

-----------------------------------------------------------------------------
\* Stamp duty.  The loop of F-13 goes through the bands in order and stops at
\* the first one the price does not reach; a band's tax is kept in hundredths.

BandReached(price, b) == price > b.lower

\* Mutant: the upper end of the band is forgotten.
TaxableInBand_open(price, b) == price - b.lower

TaxableInBand(price, b) ==
  LET upper == IF b.upper # None THEN b.upper ELSE price
  IN (IF price < upper THEN price ELSE upper) - b.lower

Surcharge(price, rate, additional) == IF additional THEN price * rate ELSE 0

f14_total_acquisition_cost(price, sdlt, legal, refurb) == price + sdlt + legal + refurb

f15_total_cash_deployed(deposit, sdlt, legal, refurb) == deposit + sdlt + legal + refurb

-----------------------------------------------------------------------------
\* Yields, returns and cash flow.

f16_gross_yield_percent(gross, price) == PercentOf(gross, price)

f17_net_yield_percent(noi, price) == PercentOf(noi, price)

f18_roce_percent(noi, cash_deployed) == PercentOf(noi, cash_deployed)

f19_annual_cash_flow(noi, mortgage_cost, tax) == noi - mortgage_cost - tax

f20_monthly_cash_flow(cash_flow) == Quot(cash_flow, 12)

f21_cash_on_cash_return_percent(cash_flow, cash_deployed) ==
  PercentOf(cash_flow, cash_deployed)

f22_stressed_annual_interest(loan, stress_rate) == Quot(loan * stress_rate, 100)

\* None only when the stressed interest is zero.
f22_icr_percent(rent, stressed) ==
  IF stressed = 0 THEN None ELSE Fraction(100 * rent, stressed)
=============================================================================
