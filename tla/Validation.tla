----------------------------- MODULE Validation -----------------------------
(***************************************************************************)
(* The rules V-01 to V-25 of the engine.  A rule is the condition under    *)
(* which it fires; all of them are evaluated, and an input is valid when   *)
(* no hard rule fires.  The shares of the price that a deposit is compared *)
(* with are rounded products.  V-15 and V-16 compare enumerations of one   *)
(* member and are left out.                                                *)
(***************************************************************************)
EXTENDS Formulas

CONSTANT PoundsPerUnit  \* how many pounds a unit of money stands for

ASSUME UnitAssumption == PoundsPerUnit \in Nat \ {0}

Pounds(n) == n \div PoundsPerUnit

OwnershipStructure == {"INDIVIDUAL", "LIMITED_COMPANY"}

\* Hard rules on the price, the rent and the loan.
PurchaseErrors(i) ==
  [V01 |-> i.purchase_price <= 0,
   V04 |-> i.monthly_rent <= 0,
   V05 |-> i.deposit_amount <= 0,
   V06 |-> i.deposit_amount >= i.purchase_price,
   V07 |-> i.purchase_price > 0 /\ i.deposit_amount < Quot(15 * i.purchase_price, 100),
   V09 |-> i.mortgage_interest_rate < 0,
   V13 |-> i.mortgage_term_years \notin 5 .. 35]

\* Hard rules on the owner, the void rate and the lease.
SettingErrors(i) ==
  [V14 |-> i.ownership_structure \notin OwnershipStructure,
   V17 |-> i.ownership_structure = "INDIVIDUAL" /\ i.income_tax_band = None,
   V18 |-> i.void_rate_percent < 0 \/ i.void_rate_percent > 100,
   V21 |-> i.tenure = "LEASEHOLD" /\ i.annual_service_charge = None,
   V22 |-> i.tenure = "LEASEHOLD" /\ i.annual_ground_rent = None]

\* Mutant: the high-price warning compares with ten times its threshold.
UnusuallyHigh_tenfold(price) == price > Pounds(100000000)

UnusuallyHigh(price) == price > Pounds(10000000)

PurchaseWarnings(i) ==
  [V02 |-> i.purchase_price < Pounds(10000),
   V03 |-> UnusuallyHigh(i.purchase_price),
   V08 |-> i.purchase_price > 0 /\ i.deposit_amount < Quot(25 * i.purchase_price, 100),
   V10 |-> i.mortgage_interest_rate = 0,
   V11 |-> 0 < i.mortgage_interest_rate /\ i.mortgage_interest_rate < 3 * RateScale,
   V12 |-> i.mortgage_interest_rate > 10 * RateScale]

CostWarnings(i) ==
  [V19 |-> i.void_rate_percent = 0,
   V20 |-> i.letting_agent_fee_percent > 25,
   V23 |-> /\ i.tenure = "LEASEHOLD"
           /\ i.annual_ground_rent # None
           /\ i.annual_ground_rent > Pounds(250),
   V24 |-> i.maintenance_reserve_percent > 5,
   V25 |-> i.refurbishment_cost = 0]

Fired(rules) == {code \in DOMAIN rules : rules[code]}

run_validation(i) ==
  LET errors == Fired(PurchaseErrors(i)) \cup Fired(SettingErrors(i))
  IN [is_valid    |-> errors = {},
      hard_errors |-> errors,
      warnings    |-> Fired(PurchaseWarnings(i)) \cup Fired(CostWarnings(i))]
=============================================================================
