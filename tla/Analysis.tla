------------------------------ MODULE Analysis ------------------------------
(***************************************************************************)
(* One analysis, from the request body to the snapshot row, and the        *)
(* reproductions of it: defaults are resolved, the rules run, the engine   *)
(* computes, the row is inserted or refused; a stored row is read back and *)
(* the engine run again on it.  The engine's two loops, over twelve        *)
(* payments and over the stamp duty bands, are actions of their own.       *)
(***************************************************************************)
EXTENDS Tax, RiskFlags, SnapshotRow, Sequences

CONSTANTS
  RawInputs,      \* the request bodies considered
  Defaults,       \* the assumption configuration
  StressRate,     \* stress test rate, percent
  VatRate,        \* VAT on letting fees, percent
  Bands,          \* the stamp duty configuration, in order
  SurchargeRate,  \* surcharge for additional dwellings, percent
  Copies,         \* bound: rows stored, the analysis and its reproductions
  Probes          \* profits with which the reached ones are compared

\* The stamp duty bands start at zero, follow one another without a gap or an
\* overlap, and the last one is open.
ASSUME BandsAssumption ==
  /\ Bands \in Seq([lower : Nat, upper : Nat \cup {None}, rate : Nat])
  /\ Len(Bands) > 0
  /\ Bands[1].lower = 0
  /\ \A b \in 1 .. Len(Bands) - 1 :
       /\ Bands[b].upper = Bands[b + 1].lower
       /\ Bands[b].lower < Bands[b + 1].lower
  /\ Bands[Len(Bands)].upper = None

ASSUME ConfigurationAssumption ==
  /\ StressRate \in Nat /\ VatRate \in Nat /\ SurchargeRate \in Nat
  /\ Copies \in Nat \ {0}
  /\ Probes \subseteq Int
  /\ Defaults \in [void_rate_percent : Nat, letting_agent_fee_percent : Nat,
                   maintenance_reserve_percent : Nat, landlord_insurance_annual : Nat,
                   purchase_legal_costs : Nat, accountancy_cost_individual : Nat,
                   accountancy_cost_ltd : Nat]

\* The configuration tables have a CHECK that a rate of stamp duty is at most 1.
ASSUME DutyRateAssumption ==
  SurchargeRate <= 100 /\ \A b \in 1 .. Len(Bands) : Bands[b].rate <= 100

\* The ten digits of the decimal context are far more than a penny, end on a
\* penny, and begin at ten times the price that V-03 warns about.
ASSUME SizeAssumption ==
  /\ Limit % Cent = 0 /\ 100000 * Cent <= Limit
  /\ 10 * Pounds(10000000) <= Limit

-----------------------------------------------------------------------------
\* Inputs.

OptionalInputs ==
  {"void_rate_percent", "letting_agent_fee_percent", "maintenance_reserve_percent",
   "landlord_insurance_annual", "purchase_legal_costs", "refurbishment_cost",
   "annual_service_charge", "annual_ground_rent", "annual_accountancy_cost"}

NumericInputs == MoneyInputs \cup PercentInputs \cup {"mortgage_term_years"}

EnumeratedInputs ==
  [mortgage_type          |-> {"INTEREST_ONLY", "REPAYMENT"},
   ownership_structure    |-> OwnershipStructure,
   income_tax_band        |-> {"BASIC_RATE", "HIGHER_RATE", "ADDITIONAL_RATE", None},
   is_additional_dwelling |-> BOOLEAN,
   tenure                 |-> {"FREEHOLD", "LEASEHOLD"}]

EngineInput(i) ==
  /\ DOMAIN i = NumericInputs \cup DOMAIN EnumeratedInputs \cup {"lease_years_remaining"}
  /\ \A f \in NumericInputs : i[f] \in Int
  /\ \A f \in DOMAIN EnumeratedInputs : i[f] \in EnumeratedInputs[f]

\* A request body is typed like an engine input, but the schema puts no range
\* on its numbers, and the optional ones may be blank.
ASSUME RequestAssumption ==
  \A r \in RawInputs :
    /\ DOMAIN r = NumericInputs \cup DOMAIN EnumeratedInputs \cup {"lease_years_remaining"}
    /\ \A f \in NumericInputs : r[f] \in Int \/ (f \in OptionalInputs /\ r[f] = None)
    /\ \A f \in DOMAIN EnumeratedInputs : r[f] \in EnumeratedInputs[f]

-----------------------------------------------------------------------------
VARIABLES
  raw,        \* the request body
  pc,         \* where the pipeline stands
  input,      \* the engine input
  sources,    \* [optional field -> where its value came from]
  warnings,   \* the warnings of the validation
  payment,    \* the monthly mortgage payment
  month,      \* F-08: months gone by
  balance,    \* F-08: remaining balance
  interest,   \* F-08: interest so far
  band,       \* F-13: the next band
  taxed,      \* F-13: the taxable amounts of the breakdown, added up
  base,       \* F-13: sdlt_base, in hundredths
  figures,    \* everything computed, before rounding
  rows        \* the snapshots stored, in order

loop == <<month, balance, interest>>
bands == <<band, taxed, base>>
vars == <<raw, pc, input, sources, warnings, payment, loop, bands, figures, rows>>

-----------------------------------------------------------------------------
\* Defaults of the optional inputs.

\* Mutant: what has no configured default stays blank.
Default_keeps_blank(field, ownership) ==
  CASE field \in {"refurbishment_cost", "annual_service_charge", "annual_ground_rent"} -> None
    [] field = "annual_accountancy_cost" -> Defaults.accountancy_cost_individual
    [] OTHER -> Defaults[field]

Default(field, ownership) ==
  CASE field \in {"refurbishment_cost", "annual_service_charge", "annual_ground_rent"} -> 0
    [] field = "annual_accountancy_cost" /\ ownership = "INDIVIDUAL" ->
         Defaults.accountancy_cost_individual
    [] field = "annual_accountancy_cost" /\ ownership # "INDIVIDUAL" ->
         Defaults.accountancy_cost_ltd
    [] OTHER -> Defaults[field]

Resolved(r) ==
  [f \in DOMAIN r |-> IF f \in OptionalInputs /\ r[f] = None
                      THEN Default(f, r.ownership_structure)
                      ELSE r[f]]

SourcesOf(r) ==
  [f \in OptionalInputs |-> IF r[f] = None THEN "CONFIG_DEFAULT" ELSE "USER_OVERRIDE"]

-----------------------------------------------------------------------------
\* The figures, steps 5 to 11 and what feeds them.

CostsOf(i, gross_rent) ==
  [letting     |-> f09_letting_agent_annual(gross_rent, i.letting_agent_fee_percent, VatRate),
   maintenance |-> f10_annual_maintenance_reserve(i.purchase_price,
                                                  i.maintenance_reserve_percent),
   insurance   |-> i.landlord_insurance_annual,
   service     |-> i.annual_service_charge,
   ground      |-> i.annual_ground_rent,
   accountancy |-> i.annual_accountancy_cost]

\* Step 8: the pathway the ownership selects, and the fields it fills.
TaxOf(i, rent, costs, yearly_interest) ==
  IF i.ownership_structure = "INDIVIDUAL"
  THEN LET t == calculate_individual_tax(rent, costs, yearly_interest, i.income_tax_band)
       IN [taxable |-> t.taxable, liability |-> t.liability, section24 |-> t.section24,
           optional |-> [income_tax_gross |-> t.gross,
                         mortgage_interest_tax_credit |-> t.credit,
                         corporation_tax_gross |-> None]]
  ELSE LET t == calculate_limited_company_tax(rent, costs, yearly_interest)
       IN [taxable |-> t.taxable, liability |-> t.liability, section24 |-> t.section24,
           optional |-> [income_tax_gross |-> None,
                         mortgage_interest_tax_credit |-> None,
                         corporation_tax_gross |-> t.gross]]

Calculated(i, monthly, looped, sdlt_base) ==
  LET gross     == f01_gross_annual_rent(i.monthly_rent)
      rent      == f03_effective_annual_rent(gross, f02_void_rate_decimal(i.void_rate_percent))
      loan      == f04_loan_amount(i.purchase_price, i.deposit_amount)
      cost      == f07_annual_mortgage_cost(monthly)
      yearly    == f08_annual_mortgage_interest(loan, i.mortgage_interest_rate,
                                                i.mortgage_type, looped)
      surcharge == Surcharge(i.purchase_price, SurchargeRate, i.is_additional_dwelling)
      sdlt      == Quot(sdlt_base + surcharge, 100)
      deployed  == f15_total_cash_deployed(i.deposit_amount, sdlt,
                                           i.purchase_legal_costs, i.refurbishment_cost)
      costs     == CostsOf(i, gross)
      operating == f11_total_operating_costs(costs.letting, costs.maintenance,
                     costs.insurance, costs.service, costs.ground, costs.accountancy)
      noi       == f12_net_operating_income(rent, operating)
      tax       == TaxOf(i, rent, costs, yearly)
      cash_flow == f19_annual_cash_flow(noi, cost, tax.liability)
      stressed  == f22_stressed_annual_interest(loan, StressRate)
  IN [money |->
        [gross_annual_rent         |-> gross,
         effective_annual_rent     |-> rent,
         loan_amount               |-> loan,
         monthly_mortgage_payment  |-> monthly,
         annual_mortgage_cost      |-> cost,
         annual_mortgage_interest  |-> yearly,
         sdlt_base                 |-> Quot(sdlt_base, 100),
         sdlt_surcharge            |-> Quot(surcharge, 100),
         total_sdlt                |-> sdlt,
         total_acquisition_cost    |-> f14_total_acquisition_cost(i.purchase_price, sdlt,
                                         i.purchase_legal_costs, i.refurbishment_cost),
         total_cash_deployed       |-> deployed,
         letting_agent_annual      |-> costs.letting,
         annual_maintenance_reserve |-> costs.maintenance,
         total_operating_costs     |-> operating,
         net_operating_income      |-> noi,
         taxable_income_or_profit  |-> tax.taxable,
         annual_tax_liability      |-> tax.liability,
         pre_tax_annual_cash_flow  |-> noi - cost,
         annual_cash_flow          |-> cash_flow,
         monthly_cash_flow         |-> f20_monthly_cash_flow(cash_flow),
         stressed_annual_interest  |-> stressed],
      optional |-> tax.optional,
      percent |->
        [gross_yield  |-> f16_gross_yield_percent(gross, i.purchase_price),
         net_yield    |-> f17_net_yield_percent(noi, i.purchase_price),
         roce         |-> f18_roce_percent(noi, deployed),
         cash_on_cash |-> f21_cash_on_cash_return_percent(cash_flow, deployed),
         ltv          |-> f05_ltv_percent(loan, i.purchase_price),
         icr          |-> f22_icr_percent(rent, stressed)],
      section24 |-> tax.section24]

\* Step 12: the evaluation context, and the flags it raises.
Context(i, fig) ==
  [annual_cash_flow      |-> fig.money.annual_cash_flow,
   gross_annual_rent     |-> fig.money.gross_annual_rent,
   net_operating_income  |-> fig.money.net_operating_income,
   gross_yield           |-> fig.percent.gross_yield,
   net_yield             |-> fig.percent.net_yield,
   ltv                   |-> fig.percent.ltv,
   icr                   |-> fig.percent.icr,
   pre_tax_cash_flow     |-> fig.money.pre_tax_annual_cash_flow,
   ownership_structure   |-> i.ownership_structure,
   income_tax_band       |-> i.income_tax_band,
   tenure                |-> i.tenure,
   lease_years_remaining |-> i.lease_years_remaining,
   purchase_price        |-> i.purchase_price,
   refurbishment_cost    |-> i.refurbishment_cost]

FlagsOf(i, fig) == evaluate_flags(Context(i, fig))

-----------------------------------------------------------------------------
Init ==
  /\ raw \in RawInputs
  /\ pc = "requested"
  /\ input = raw
  /\ sources = SourcesOf(raw)
  /\ warnings = {}
  /\ payment = 0
  /\ month = 0 /\ balance = 0 /\ interest = 0
  /\ band = 1 /\ taxed = 0 /\ base = 0
  /\ figures = None
  /\ rows = <<>>

\* Blanks become defaults, and each optional field remembers which it was.
resolve_defaults ==
  /\ pc = "requested"
  /\ input' = Resolved(raw)
  /\ sources' = SourcesOf(raw)
  /\ pc' = "resolved"
  /\ UNCHANGED <<raw, warnings, payment, loop, bands, figures, rows>>

\* Step 0.  A hard error ends the analysis.
Validate ==
  /\ pc = "resolved"
  /\ warnings' = run_validation(input).warnings
  /\ pc' = IF run_validation(input).is_valid THEN "validated" ELSE "rejected"
  /\ UNCHANGED <<raw, input, sources, payment, loop, bands, figures, rows>>

\* The F-08 loop runs for repayment mortgages that bear interest.
HasLoop(i) == i.mortgage_type = "REPAYMENT" /\ i.mortgage_interest_rate # 0

LoanOf(i) == f04_loan_amount(i.purchase_price, i.deposit_amount)

SameLoan(i, j) ==
  \A f \in {"purchase_price", "deposit_amount", "mortgage_interest_rate",
            "mortgage_term_years", "mortgage_type"} : i[f] = j[f]

\* The payment was last computed for this very loan: the analysis' own, when
\* its row lost nothing of it, and that of any earlier reproduction.
Repeated == \/ Len(rows) = 1 /\ SameLoan(input, Resolved(raw))
            \/ Len(rows) > 1

\* A repayment rate so small that the annuity divides by zero.
Indivisible(i) == HasLoop(i) /\ Vanishes(i.mortgage_interest_rate)

\* Steps 2 and 3 up to the loop.  The power is a function: the same loan pays
\* the same again.
Finance ==
  /\ pc = "validated"
  /\ ~ Indivisible(input)
  /\ payment' \in f06_monthly_mortgage_payments(LoanOf(input), input.mortgage_interest_rate,
                    input.mortgage_term_years, input.mortgage_type)
  /\ Repeated => payment' = payment
  /\ month' = 0 /\ balance' = LoanOf(input) /\ interest' = 0
  /\ band' = 1 /\ taxed' = 0 /\ base' = 0
  /\ pc' = IF HasLoop(input) THEN "repaying" ELSE "banding"
  /\ UNCHANGED <<raw, input, sources, warnings, figures, rows>>

\* The annuity's division by zero is caught, and the engine answers with an
\* error instead of a result.
FinanceFails ==
  /\ pc = "validated"
  /\ Indivisible(input)
  /\ pc' = "error"
  /\ UNCHANGED <<raw, input, sources, warnings, payment, loop, bands, figures, rows>>

\* Mutant: the loop turns once too often.
RepayMonth_thirteen ==
  /\ pc = "repaying"
  /\ LET monthly == MonthlyInterest(balance, input.mortgage_interest_rate)
     IN /\ interest' = interest + monthly
        /\ balance' = balance - (payment - monthly)
  /\ month' = month + 1
  /\ pc' = IF month' = 13 THEN "banding" ELSE "repaying"
  /\ UNCHANGED <<raw, input, sources, warnings, payment, bands, figures, rows>>

\* Mutant: the whole payment comes off the balance.
RepayMonth_all_capital ==
  /\ pc = "repaying"
  /\ interest' = interest + MonthlyInterest(balance, input.mortgage_interest_rate)
  /\ balance' = balance - payment
  /\ month' = month + 1
  /\ pc' = IF month' = 12 THEN "banding" ELSE "repaying"
  /\ UNCHANGED <<raw, input, sources, warnings, payment, bands, figures, rows>>

\* One turn of the F-08 loop: a month's interest, and the rest of the payment
\* off the balance.
RepayMonth ==
  /\ pc = "repaying"
  /\ LET monthly == MonthlyInterest(balance, input.mortgage_interest_rate)
     IN /\ interest' = interest + monthly
        /\ balance' = balance - (payment - monthly)
  /\ month' = month + 1
  /\ pc' = IF month' = 12 THEN "banding" ELSE "repaying"
  /\ UNCHANGED <<raw, input, sources, warnings, payment, bands, figures, rows>>

MoreBands == band <= Len(Bands) /\ BandReached(input.purchase_price, Bands[band])

\* Mutant: a band's rate is applied to the whole price.
TaxBand_slab ==
  /\ pc = "banding"
  /\ MoreBands
  /\ taxed' = taxed + TaxableInBand(input.purchase_price, Bands[band])
  /\ base' = base + input.purchase_price * Bands[band].rate
  /\ band' = band + 1
  /\ UNCHANGED <<raw, pc, input, sources, warnings, payment, loop, figures, rows>>

\* One turn of the F-13 loop.
TaxBand ==
  /\ pc = "banding"
  /\ MoreBands
  /\ LET amount == TaxableInBand(input.purchase_price, Bands[band])
     IN /\ taxed' = taxed + amount
        /\ base' = base + amount * Bands[band].rate
  /\ band' = band + 1
  /\ UNCHANGED <<raw, pc, input, sources, warnings, payment, loop, figures, rows>>

\* Steps 5 to 13.  Rounding raises when a figure has too many digits, and the
\* engine answers with an error instead of a result.
Calculate ==
  /\ pc = "banding"
  /\ ~ MoreBands
  /\ LET fig == Calculated(input, payment, interest, base)
     IN IF TooLarge(Rounded(fig))
        THEN pc' = "error" /\ figures' = None
        ELSE pc' = "computed" /\ figures' = fig
  /\ UNCHANGED <<raw, input, sources, warnings, payment, loop, bands, rows>>

Snapshot ==
  [inputs   |-> InputsRow(input),
   sources  |-> sources,
   result   |-> Rounded(figures),
   flags    |-> FlagsOf(input, figures),
   warnings |-> warnings]

\* The snapshot is inserted whole or, when a table refuses a row, not at all.
Save ==
  /\ pc = "computed"
  /\ IF Refusals(Snapshot.inputs, Snapshot.result) = {}
     THEN pc' = "stored" /\ rows' = Append(rows, Snapshot)
     ELSE pc' = "refused" /\ UNCHANGED rows
  /\ UNCHANGED <<raw, input, sources, warnings, payment, loop, bands, figures>>

\* Mutant: everything a row holds counts as entered by the user.
Reproduce_as_entered(k) ==
  /\ pc = "stored"
  /\ Len(rows) < Copies
  /\ k \in DOMAIN rows
  /\ input' = rows[k].inputs
  /\ sources' = [f \in OptionalInputs |-> "USER_OVERRIDE"]
  /\ pc' = "resolved"
  /\ figures' = None
  /\ UNCHANGED <<raw, warnings, payment, loop, bands, rows>>

\* A reproduction takes its inputs and their sources from a stored row, and
\* goes through the whole engine with the configuration the row names.
Reproduce(k) ==
  /\ pc = "stored"
  /\ Len(rows) < Copies
  /\ k \in DOMAIN rows
  /\ input' = rows[k].inputs
  /\ sources' = rows[k].sources
  /\ pc' = "resolved"
  /\ figures' = None
  /\ UNCHANGED <<raw, warnings, payment, loop, bands, rows>>

Next ==
  \/ resolve_defaults
  \/ Validate
  \/ Finance
  \/ FinanceFails
  \/ RepayMonth
  \/ TaxBand
  \/ Calculate
  \/ Save
  \/ \E k \in 1 .. Copies : Reproduce(k)

Spec == Init /\ [][Next]_vars

-----------------------------------------------------------------------------
(* Properties. *)

\* The engine has computed its figures.
Computed == figures # None

Stages == {"requested", "resolved", "rejected", "validated", "repaying", "banding",
           "error", "computed", "refused", "stored"}

\* The pipeline's counters stay in their ranges and it stores no more rows
\* than the bound allows.
TypeOK ==
  /\ raw \in RawInputs
  /\ pc \in Stages
  /\ payment \in Nat /\ interest \in Int /\ balance \in Int
  /\ month \in 0 .. 12
  /\ band \in 1 .. Len(Bands) + 1
  /\ taxed \in Nat /\ base \in Nat
  /\ Len(rows) <= Copies

\* What the bands before b hold of a price.
BelowBand(price, b) ==
  IF b <= Len(Bands) /\ Bands[b].lower < price THEN Bands[b].lower ELSE price

\* The stamp duty breakdown taxes every pound of the price once: the bands gone
\* through cover the price up to the next band, and when the loop ends, all of
\* it.  A price that ends on a boundary belongs to the band below.
EveryPoundTaxedOnce ==
  /\ pc = "banding" => taxed = (IF band = 1 THEN 0 ELSE BelowBand(input.purchase_price, band))
  /\ pc \in {"computed", "refused"} => taxed = input.purchase_price

\* sdlt_base is what a reader of the tariff adds up: in each band, the part of
\* the price above its lower end and not above its upper end, at its rate.
Share(price, b) ==
  LET top == IF Bands[b].upper = None \/ price < Bands[b].upper THEN price
                                                               ELSE Bands[b].upper
  IN Max0(top - Bands[b].lower) * Bands[b].rate

TariffTax(price) ==
  LET upTo[n \in 0 .. Len(Bands)] == IF n = 0 THEN 0 ELSE upTo[n - 1] + Share(price, n)
  IN upTo

DutyFollowsTariff ==
  Computed => base = TariffTax(input.purchase_price)[Len(Bands)]

\* The digits left the payment short of the first month's interest.
PaymentShort == payment < MonthlyInterest(LoanOf(input), input.mortgage_interest_rate)

\* Every payment of a repayment mortgage splits into interest and capital: what
\* the balance has lost and the interest so far make up the payments.  The debt
\* grows, or more is deducted as interest than is paid, only where the payment
\* fell short of the first month's interest, at a rate the rules warned about.
InstalmentsSplit ==
  pc = "repaying" \/ (Computed /\ HasLoop(input)) =>
    /\ (LoanOf(input) - balance) + interest = month * payment
    /\ balance > LoanOf(input) \/ interest > month * payment =>
         PaymentShort /\ "V12" \in warnings

\* The written figures add up to within the rounding of their pennies, and both
\* tax pathways tax the profit that the net operating income shows, although
\* each adds the six costs up by itself.
OutputsReconcile ==
  Computed =>
    LET r == Rounded(figures).money
    IN /\ Abs(r.net_operating_income - r.annual_mortgage_cost
                - r.annual_tax_liability - r.annual_cash_flow) <= 2 * Cent
       /\ Abs(r.total_acquisition_cost - r.total_cash_deployed - r.loan_amount) <= 2 * Cent
       /\ Abs(r.sdlt_base + r.sdlt_surcharge - r.total_sdlt) <= 2 * Cent
       /\ figures.money.taxable_income_or_profit =
            figures.money.net_operating_income
              - (IF input.ownership_structure = "INDIVIDUAL" THEN 0
                 ELSE figures.money.annual_mortgage_interest)

\* By how many hundredths of a unit the deposit misses so many percent of the
\* price.
ShortOf(i, percent) == percent * i.purchase_price - 100 * i.deposit_amount

\* The rounded product of V-08 and the rounded quotient of the flag draw the
\* line at a quarter of the price each for itself: a deposit that is flagged
\* and not warned about misses it by half a unit at most, and a loan that is
\* warned about and not flagged exceeds 75% by half a part at most.
LeverageCoherent(flags) ==
  /\ "HIGH_LEVERAGE" \in flags /\ "V08" \notin warnings =>
       0 < ShortOf(input, 25) /\ ShortOf(input, 25) <= 50
  /\ "HIGH_LEVERAGE" \notin flags /\ "V08" \in warnings =>
       ShortOf(input, 25) * (Parts \div 100) * 2 <= input.purchase_price

\* Relations between flags and warnings that a user sees side by side: leverage
\* is flagged where the deposit was warned about, but for the rounding of the
\* two comparisons; the two coverage flags exclude each other; a let that does
\* not cover its costs is also short of cash and of yield; and only tax turns a
\* surplus into a shortfall.
FlagsCoherent ==
  Computed =>
    LET flags == FlagsOf(input, figures)
    IN /\ LeverageCoherent(flags)
       /\ ~ {"LOW_ICR_BASIC", "LOW_ICR_HIGHER_RATE"} \subseteq flags
       /\ "NEGATIVE_NOI" \in flags => {"NEGATIVE_CASHFLOW", "LOW_NET_YIELD"} \subseteq flags
       /\ "CASH_FLOW_PRE_TAX_ONLY" \in flags =>
            "NEGATIVE_CASHFLOW" \in flags /\ figures.money.annual_tax_liability > 0
       /\ ~ {"NEGATIVE_CASHFLOW", "LOW_MARGIN_SAFETY"} \subseteq flags
       /\ "LTD_EXTRACTION_UNDISCLOSED" \in flags => "SECTION_24_IMPACT" \notin flags

\* What is all but dead: past the deposit rule the extreme leverage flag fires
\* only where a deposit misses 15% of the price by half a unit at most, which the
\* rounded product of V-07 lets pass; and the defaults keep the two rules about
\* blank leasehold charges from firing at all - a blank charge is analysed as
\* none.
DeadRules ==
  /\ Computed /\ "HIGH_LEVERAGE_EXTREME" \in FlagsOf(input, figures) =>
       0 < ShortOf(input, 15) /\ ShortOf(input, 15) <= 50
  /\ pc # "requested" => {"V21", "V22"} \cap run_validation(input).hard_errors = {}

\* Whether the inputs alone account for a refusal by the database.
Unstorable(i) ==
  \/ \E f \in {"purchase_legal_costs", "refurbishment_cost", "annual_service_charge",
               "annual_ground_rent", "annual_accountancy_cost", "landlord_insurance_annual",
               "letting_agent_fee_percent", "maintenance_reserve_percent"} : i[f] < 0
  \/ i.ownership_structure = "LIMITED_COMPANY" /\ i.income_tax_band # None
  \/ ~ AtColumnScale(i)
  \/ \E f \in PercentInputs : i[f] >= Width(f)

\* A year's interest below zero: at rates of hundreds and thousands of percent
\* the digits of the payment are too few for the annuity, and the F-08 loop
\* overshoots.
InterestOvershot == figures.money.annual_mortgage_interest < 0

\* An analysis that passed the rules and was computed is refused by the tables
\* only for a cost below zero, a company with a personal tax band, an input
\* finer or wider than its column, a percentage too wide to store, or a loop
\* that overshot at a rate the rules warned about; never for a figure the
\* engine derived from sound inputs.
RefusalsExplained ==
  pc = "refused" =>
    \/ Unstorable(input)
    \/ InterestOvershot /\ "V12" \in warnings
    \/ \E f \in DOMAIN figures.percent :
         LET p == Rounded(figures).percent[f] IN p # None /\ Abs(p) >= PercentLimit

\* The engine fails, after the rules have let an input pass, only on a repayment
\* rate too small for the digits, which V-11 warns about, and on what is out of
\* size: the rules warned about the price, the interest rate, the letting
\* fee or the maintenance, one of the last two is below zero, or a rent or a cost is
\* near the limit.  And it never computes a price of that size, unless costs
\* below zero take it off again.
ErrorsAreSize ==
  /\ pc = "error" =>
       \/ Indivisible(input) /\ "V11" \in warnings
       \/ {"V03", "V12", "V20", "V24"} \cap warnings # {}
       \/ input.letting_agent_fee_percent < 0 \/ input.maintenance_reserve_percent < 0
       \/ \E f \in MoneyInputs \ {"purchase_price", "deposit_amount"} :
            30 * Abs(input[f]) >= Limit
  /\ Computed /\ input.purchase_legal_costs + input.refurbishment_cost >= 0 =>
       input.purchase_price < Limit

\* Inputs are rounded at most once: every row of an analysis holds the same
\* inputs, whatever they lost, and says the same of where they came from.
SameInputs ==
  \A k \in DOMAIN rows :
    rows[k].inputs = rows[1].inputs /\ rows[k].sources = SourcesOf(raw)

\* A reproduction of a snapshot whose inputs fit their columns is that snapshot
\* again: inputs, provenance, figures, flags and warnings.
ReproductionEqual ==
  /\ SameInputs
  /\ AtColumnScale(Resolved(raw)) => \A k \in DOMAIN rows : rows[k] = rows[1]

\* More profit leaves a company more after tax, or as much: neither threshold
\* of corporation tax costs more than it taxes.
MoreProfitLeavesMore ==
  Computed /\ input.ownership_structure = "LIMITED_COMPANY" =>
    LET profit == figures.money.taxable_income_or_profit
        kept   == profit - figures.money.annual_tax_liability
    IN \A q \in Probes : /\ q <= profit => Retained(q) <= kept
                         /\ profit <= q => kept <= Retained(q)

\* Section 24 never helps: an individual pays at least what deducting the
\* interest would have left to pay.
Section24NeverCheaper ==
  Computed /\ input.ownership_structure = "INDIVIDUAL" /\ ~ InterestOvershot =>
    Quot(IncomeTax(figures.money.taxable_income_or_profit
                     - figures.money.annual_mortgage_interest, input.income_tax_band), 100)
      <= figures.money.annual_tax_liability
=============================================================================
