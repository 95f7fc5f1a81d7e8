----------------------------- MODULE MCAnalysis -----------------------------
(***************************************************************************)
(* Analyses for TLC.  A unit is ten pounds, so that a house costs 20000,   *)
(* the seeded bands and thresholds keep their places, and products stay    *)
(* within 32 bits; an interest rate is a whole number of quarter percents. *)
(* An ordinary purchase is varied in at most two settings at once.         *)
(***************************************************************************)
EXTENDS Analysis, TLC

\* The seeded stamp duty and assumption configurations.
MCBands ==
  <<[lower |-> 0,      upper |-> 12500,  rate |-> 0],
    [lower |-> 12500,  upper |-> 25000,  rate |-> 2],
    [lower |-> 25000,  upper |-> 92500,  rate |-> 5],
    [lower |-> 92500,  upper |-> 150000, rate |-> 10],
    [lower |-> 150000, upper |-> None,   rate |-> 12]>>

MCDefaults ==
  [void_rate_percent           |-> 4,
   letting_agent_fee_percent   |-> 10,
   maintenance_reserve_percent |-> 1,
   landlord_insurance_annual   |-> 40,
   purchase_legal_costs        |-> 150,
   accountancy_cost_individual |-> 20,
   accountancy_cost_ltd        |-> 80]

MCProbes ==
  {-50, 0, 1, 2, 60, 500, 4999, 5000, 5001, 5010, 9000, 24990, 24999, 25000, 25001, 60000}

\* An ordinary purchase.  The deposit is a share of the price, in permille;
\* owner pairs the ownership with the tax band.
Ordinary ==
  [price       |-> 20000,
   share       |-> 250,
   rent        |-> 95,
   rate        |-> 20,
   term        |-> 25,
   owner       |-> <<"INDIVIDUAL", "BASIC_RATE">>,
   additional  |-> FALSE,
   tenure      |-> "FREEHOLD",
   lease       |-> None,
   void        |-> None,
   fee         |-> None,
   maintenance |-> None,
   insurance   |-> None,
   legal       |-> None,
   refurb      |-> 100,
   service     |-> None,
   ground      |-> None,
   accountancy |-> None]

Variations ==
  [price       |-> {0, 990, 4001, 4002, 12500, 12502, 25000, 55002, 160000, 1000002, 10000000},
   share       |-> {140, 150, 200, 995, 1000},
   rent        |-> {0, 1, 60, 200, 620, 2590},
   rate        |-> {-1, 0, 1, 8, 48, 40000},
   term        |-> {4, 5, 36},
   owner       |-> {<<"INDIVIDUAL", None>>, <<"INDIVIDUAL", "HIGHER_RATE">>,
                    <<"INDIVIDUAL", "ADDITIONAL_RATE">>, <<"LIMITED_COMPANY", None>>,
                    <<"LIMITED_COMPANY", "HIGHER_RATE">>},
   additional  |-> {TRUE},
   tenure      |-> {"LEASEHOLD"},
   lease       |-> {79, 80},
   void        |-> {-1, 0, 100, 101},
   fee         |-> {0, 26, -100},
   maintenance |-> {6, -2},
   insurance   |-> {33, -60, 10000000},
   legal       |-> {0, -5250, -30000},
   refurb      |-> {0, 2500, -2},
   service     |-> {0, 100, -2},
   ground      |-> {0, 26, -2},
   accountancy |-> {0, -2}]

\* share permille of the price, at the scale of the columns.
Deposit(price, share) ==
  2 * (((price \div 1000) * share + ((price % 1000) * share) \div 1000) \div 2)

Body(s, type) ==
  [purchase_price              |-> s.price,
   monthly_rent                |-> s.rent,
   deposit_amount              |-> Deposit(s.price, s.share),
   mortgage_interest_rate      |-> s.rate,
   mortgage_term_years         |-> s.term,
   mortgage_type               |-> type,
   ownership_structure         |-> s.owner[1],
   income_tax_band             |-> s.owner[2],
   is_additional_dwelling      |-> s.additional,
   tenure                      |-> s.tenure,
   lease_years_remaining       |-> s.lease,
   void_rate_percent           |-> s.void,
   letting_agent_fee_percent   |-> s.fee,
   maintenance_reserve_percent |-> s.maintenance,
   landlord_insurance_annual   |-> s.insurance,
   purchase_legal_costs        |-> s.legal,
   refurbishment_cost          |-> s.refurb,
   annual_service_charge       |-> s.service,
   annual_ground_rent          |-> s.ground,
   annual_accountancy_cost     |-> s.accountancy]

\* The settings that differ from base in one place.
Varied(base0) ==
  UNION {{[base0 EXCEPT ![f] = v] : v \in Variations[f]} : f \in DOMAIN base0}

RepaymentSettings ==
  {[Ordinary EXCEPT !.price = 1000, !.rate = r, !.term = t, !.owner = o] :
     r \in {0, 1, 8, 48, 2400}, t \in {5, 35},
     o \in {<<"INDIVIDUAL", "BASIC_RATE">>, <<"LIMITED_COMPANY", None>>}}

OrdinarySettings ==
  {s \in UNION {Varied(t) : t \in Varied(Ordinary) \cup {Ordinary}} :
     s.rate < 40000 \/ (s.price <= 25000 /\ s.insurance = None)}

MCRawInputs ==
  {Body(p[1], p[2]) : p \in (OrdinarySettings \X {"INTEREST_ONLY"})
                            \cup (RepaymentSettings \X {"REPAYMENT"})}
=============================================================================
