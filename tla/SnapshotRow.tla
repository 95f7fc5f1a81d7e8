----------------------------- MODULE SnapshotRow ----------------------------
(***************************************************************************)
(* How a result is written down: the engine rounds its figures to the      *)
(* penny, the database columns round what they are given to their scale,   *)
(* and the tables refuse a row that breaks one of their CHECKs or does not *)
(* fit a column.                                                           *)
(***************************************************************************)
EXTENDS Formulas

CONSTANTS
  Cent,          \* units in a penny
  Grain,         \* units in the last place of a money column
  RateGrain,     \* steps in the last place of the interest rate's column
  Limit,         \* pennies and above: too many digits for the decimal context
  PercentLimit   \* percentages and above do not fit their column

ASSUME GridAssumption ==
  /\ {Cent, Grain, RateGrain, Limit, PercentLimit} \subseteq Nat \ {0}
  /\ Cent % Grain = 0

Abs(x) == IF x >= 0 THEN x ELSE -x

\* a / b to the nearest whole number, halves away from zero.
HalfUp(a, b) == IF a >= 0 THEN Quot(a, b) ELSE -Quot(-a, b)

\* The engine's _r: two decimal places, half up.
RoundPenny(v) == Cent * HalfUp(v, Cent)
RoundPercent(f) == IF f = None THEN None ELSE HalfUp(f.num, f.den)
RoundOrNone(v) == IF v = None THEN None ELSE RoundPenny(v)

\* What the figures are when they leave the engine.
Rounded(figures) ==
  [money    |-> [f \in DOMAIN figures.money |-> RoundPenny(figures.money[f])],
   optional |-> [f \in DOMAIN figures.optional |-> RoundOrNone(figures.optional[f])],
   percent  |-> [f \in DOMAIN figures.percent |-> RoundPercent(figures.percent[f])],
   section24 |-> figures.section24]

\* _r raises when the rounded value needs more digits than the context has.  A
\* percentage that large is left to its column, which refuses a smaller one.
TooLarge(rounded) ==
  \/ \E f \in DOMAIN rounded.money : Abs(rounded.money[f]) >= Limit
  \/ \E f \in DOMAIN rounded.optional :
       rounded.optional[f] # None /\ Abs(rounded.optional[f]) >= Limit

-----------------------------------------------------------------------------
\* Columns.

Column(v) == Grain * HalfUp(v, Grain)

RateColumn(v) == RateGrain * HalfUp(v, RateGrain)

MoneyInputs ==
  {"purchase_price", "monthly_rent", "deposit_amount", "landlord_insurance_annual",
   "purchase_legal_costs", "refurbishment_cost", "annual_service_charge",
   "annual_ground_rent", "annual_accountancy_cost"}

PercentInputs ==
  {"mortgage_interest_rate", "void_rate_percent", "letting_agent_fee_percent",
   "maintenance_reserve_percent"}

\* The inputs as the row holds them: _build_inputs_row writes every field, and
\* the columns keep so many decimals.
InputsRow(i) ==
  [f \in DOMAIN i |-> CASE f \in MoneyInputs -> Column(i[f])
                       [] f = "mortgage_interest_rate" -> RateColumn(i[f])
                       [] OTHER -> i[f]]

\* Inputs that lose nothing in their columns.
AtColumnScale(i) ==
  /\ \A f \in MoneyInputs : Column(i[f]) = i[f]
  /\ RateColumn(i.mortgage_interest_rate) = i.mortgage_interest_rate

\* The CHECK constraints on snapshot_inputs.
InputsChecks(row) ==
  [purchase_price          |-> row.purchase_price > 0,
   monthly_rent            |-> row.monthly_rent > 0,
   deposit_range           |-> 0 < row.deposit_amount /\ row.deposit_amount < row.purchase_price,
   rate                    |-> row.mortgage_interest_rate >= 0,
   term                    |-> row.mortgage_term_years \in 5 .. 35,
   void_rate               |-> row.void_rate_percent \in 0 .. 100,
   refurbishment_cost      |-> row.refurbishment_cost >= 0,
   annual_service_charge   |-> row.annual_service_charge >= 0,
   annual_ground_rent      |-> row.annual_ground_rent >= 0,
   annual_accountancy_cost |-> row.annual_accountancy_cost >= 0,
   tax_band_consistency    |-> \/ /\ row.ownership_structure = "INDIVIDUAL"
                                  /\ row.income_tax_band # None
                               \/ /\ row.ownership_structure = "LIMITED_COMPANY"
                                  /\ row.income_tax_band = None]

\* The CHECK constraints on snapshot_outputs.
OutputsChecks(r) ==
  [gross_annual_rent      |-> r.money.gross_annual_rent >= 0,
   effective_annual_rent  |-> r.money.effective_annual_rent >= 0,
   operating_costs        |-> r.money.total_operating_costs >= 0,
   tax_liability          |-> r.money.annual_tax_liability >= 0,
   sdlt                   |-> r.money.total_sdlt >= 0,
   acquisition_cost       |-> r.money.total_acquisition_cost >= 0,
   cash_deployed          |-> r.money.total_cash_deployed >= 0,
   ltv_range              |-> r.percent.ltv \in 0 .. 100,
   icr                    |-> r.percent.icr = None \/ r.percent.icr >= 0,
   gross_yield            |-> r.percent.gross_yield >= 0]

\* The CHECK constraints on snapshot_intermediates that the other two tables
\* do not repeat.
IntermediatesChecks(r) ==
  [loan_amount    |-> r.money.loan_amount >= 0,
   sdlt_base      |-> r.money.sdlt_base >= 0,
   sdlt_surcharge |-> r.money.sdlt_surcharge >= 0,
   income_tax     |-> r.optional.income_tax_gross = None \/ r.optional.income_tax_gross >= 0,
   tax_credit     |-> \/ r.optional.mortgage_interest_tax_credit = None
                      \/ r.optional.mortgage_interest_tax_credit >= 0,
   corporation_tax |-> \/ r.optional.corporation_tax_gross = None
                       \/ r.optional.corporation_tax_gross >= 0]

Failed(checks) == {c \in DOMAIN checks : ~ checks[c]}

\* Percentages too wide for NUMERIC(10, 6).
Width(f) == IF f = "mortgage_interest_rate" THEN PercentLimit * RateScale ELSE PercentLimit

Overflows(row, r) ==
  {f \in PercentInputs : Abs(row[f]) >= Width(f)} \cup
  {f \in DOMAIN r.percent : r.percent[f] # None /\ Abs(r.percent[f]) >= PercentLimit}

\* Why the database would refuse the snapshot.
Refusals(row, r) ==
  Failed(InputsChecks(row)) \cup Failed(OutputsChecks(r))
    \cup Failed(IntermediatesChecks(r)) \cup Overflows(row, r)
=============================================================================
