-------------------------------- MODULE Tax ---------------------------------
(***************************************************************************)
(* The two tax pathways of the engine: an individual landlord under        *)
(* Section 24, and a limited company under banded corporation tax with     *)
(* marginal relief.  Both are given the six running costs one by one, not  *)
(* the total that the net operating income is made of.                     *)
(***************************************************************************)
EXTENDS Formulas

CONSTANTS
  SmallRate,   \* small profits rate, percent
  SmallUpper,  \* profit up to which it applies
  MainRate,    \* main rate, percent
  MainLower,   \* profit above which the main rate applies alone
  ReliefNum,   \* marginal relief fraction, numerator
  ReliefDen    \* marginal relief fraction, denominator

\* The thresholds are in order and the rates are those of a tax: what one more
\* unit of profit is taxed never exceeds the unit.
ASSUME CorporationTaxAssumption ==
  /\ {SmallRate, SmallUpper, MainRate, MainLower, ReliefNum} \subseteq Nat
  /\ ReliefDen \in Nat \ {0}
  /\ SmallUpper <= MainLower
  /\ SmallRate <= 100
  /\ MainRate * ReliefDen + 100 * ReliefNum <= 100 * ReliefDen

\* The relief curve meets the small profits rate at the lower threshold (the
\* seeded 19%, 25%, 3/200, 50000 and 250000 do), so that no profit is worth
\* less than a smaller one.
ASSUME ReliefMeetsSmallRate ==
  SmallUpper * SmallRate * ReliefDen
    = SmallUpper * MainRate * ReliefDen - 100 * (MainLower - SmallUpper) * ReliefNum

\* Mutant: the tax pathways miss one of the six costs.
TaxedProfit_without_ground_rent(rent, costs) ==
  rent - costs.letting - costs.maintenance - costs.insurance
       - costs.service - costs.accountancy

\* The rent less what running the let costs in a year, component by component.
TaxedProfit(rent, costs) ==
  rent - costs.letting - costs.maintenance - costs.insurance
       - costs.service - costs.ground - costs.accountancy

IncomeTaxRate(band) == CASE band = "BASIC_RATE"      -> 20
                         [] band = "HIGHER_RATE"     -> 40
                         [] band = "ADDITIONAL_RATE" -> 45

\* Mutant: the credit is given at the additional rate.
CreditRate_additional == 45

CreditRate == 20

IncomeTax(profit, band) == Max0(profit) * IncomeTaxRate(band)

\* Mutant: the liability has no floor.
Credited_unfloored(gross, credit) == Quot(gross - credit, 100)

\* Step A-4, from hundredths.
Credited(gross, credit) == Max0(Quot(gross - credit, 100))

\* Steps A-1 to A-4.  The interest is not deducted; a credit of the basic rate
\* is, and neither a loss nor the credit makes the liability negative.
calculate_individual_tax(rent, costs, interest, band) ==
  LET profit == TaxedProfit(rent, costs)
      gross  == IncomeTax(profit, band)
      credit == interest * CreditRate
  IN [taxable   |-> profit,
      gross     |-> Quot(gross, 100),
      credit    |-> Quot(credit, 100),
      liability |-> Credited(gross, credit),
      section24 |-> interest > 0]

\* Mutant: there is no marginal relief.
BandedTax_without_relief(profit) ==
  IF profit <= 0 THEN 0
  ELSE profit * ReliefDen * (IF profit <= SmallUpper THEN SmallRate ELSE MainRate)

\* Step B-2 in hundredths of ReliefDen-ths of a unit.
BandedTax(profit) ==
  IF profit <= 0 THEN 0
  ELSE IF profit <= SmallUpper THEN profit * SmallRate * ReliefDen
  ELSE IF profit > MainLower THEN profit * MainRate * ReliefDen
  ELSE profit * MainRate * ReliefDen - 100 * (MainLower - profit) * ReliefNum

CorporationTax(profit) == Quot(BandedTax(profit), 100 * ReliefDen)

\* Step B-4: what the company keeps of a profit.
Retained(profit) == profit - Max0(CorporationTax(profit))

\* Steps B-1 to B-3.  The interest is deducted like any cost.
calculate_limited_company_tax(rent, costs, interest) ==
  LET profit == TaxedProfit(rent, costs) - interest
  IN [taxable   |-> profit,
      gross     |-> CorporationTax(profit),
      liability |-> Max0(CorporationTax(profit)),
      section24 |-> FALSE]
=============================================================================
