------------------------------ MODULE RiskFlags -----------------------------
(***************************************************************************)
(* The sixteen risk flags.  Each is a condition on the evaluation context: *)
(* figures before rounding, and the structural inputs.  All are evaluated. *)
(***************************************************************************)
EXTENDS Validation

HigherRate(band) == band \in {"HIGHER_RATE", "ADDITIONAL_RATE"}

\* Mutant: leverage is flagged from 75% on, not above it.
HighLeverage_from_75(ltv) == ~ Below(ltv, 75)

HighLeverage(ltv) == Above(ltv, 75)

\* HIGH severity: income, coverage and leverage.
FinanceFlags(c) ==
  [NEGATIVE_CASHFLOW      |-> c.annual_cash_flow < 0,
   NEGATIVE_NOI           |-> c.net_operating_income < 0,
   LOW_GROSS_YIELD        |-> Below(c.gross_yield, 4),
   LOW_ICR_BASIC          |-> c.icr # None /\ Below(c.icr, 125),
   LOW_ICR_HIGHER_RATE    |-> /\ c.icr # None
                              /\ ~ Below(c.icr, 125)
                              /\ Below(c.icr, 145)
                              /\ HigherRate(c.income_tax_band),
   HIGH_LEVERAGE          |-> HighLeverage(c.ltv),
   HIGH_LEVERAGE_EXTREME  |-> Above(c.ltv, 85)]

\* HIGH severity: tax and tenure.
StructureFlags(c) ==
  [SECTION_24_IMPACT      |-> /\ c.ownership_structure = "INDIVIDUAL"
                              /\ HigherRate(c.income_tax_band),
   LEASEHOLD_SHORT_LEASE  |-> /\ c.tenure = "LEASEHOLD"
                              /\ c.lease_years_remaining # None
                              /\ c.lease_years_remaining < 80,
   CASH_FLOW_PRE_TAX_ONLY |-> c.pre_tax_cash_flow >= 0 /\ c.annual_cash_flow < 0]

\* MEDIUM and INFO severity.
OtherFlags(c) ==
  [LOW_NET_YIELD              |-> Below(c.net_yield, 3),
   LOW_MARGIN_SAFETY          |-> /\ c.annual_cash_flow >= 0
                                  /\ c.gross_annual_rent > 0
                                  /\ 20 * c.annual_cash_flow < c.gross_annual_rent,
   HIGH_REFURB_RATIO          |-> 10 * c.refurbishment_cost > c.purchase_price,
   ATED_WARNING               |-> /\ c.ownership_structure = "LIMITED_COMPANY"
                                  /\ c.purchase_price > Pounds(500000),
   LTD_EXTRACTION_UNDISCLOSED |-> c.ownership_structure = "LIMITED_COMPANY",
   RENT_UNVERIFIED            |-> TRUE]

evaluate_flags(c) ==
  Fired(FinanceFlags(c)) \cup Fired(StructureFlags(c)) \cup Fired(OtherFlags(c))
=============================================================================
