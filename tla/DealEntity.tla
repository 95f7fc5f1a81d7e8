------------------------------ MODULE DealEntity ------------------------------
(***************************************************************************)
(* The Deal aggregate of app/domain/entities/deal.py: the mutable columns  *)
(* of a row of the deals table and the entity methods that change them.    *)
(* A deal is a record of its status, its pointer to the current snapshot   *)
(* and its working inputs.  The eighteen working inputs are abstracted to  *)
(* a set Fields; RequiredFields are those a recalculation insists on.      *)
(* Label, profile reference and timestamps are left out: no guard reads    *)
(* them.                                                                   *)
(***************************************************************************)
CONSTANTS
  SnapshotIds,     \* the uuids snapshots can get
  NoSnapshot,      \* NULL in deals.latest_snapshot_id
  Fields,          \* names of the working inputs
  ProfileFields,   \* the inputs create_deal copies from an investor profile
  RequiredFields,  \* the fields recalculation refuses to do without
  Values,          \* values a working input can have
  Unset            \* NULL in a working input column

DealStatus ==
  {"DRAFT", "ANALYSED", "OFFER_SUBMITTED", "PURCHASED", "HELD", "EXITED", "ARCHIVED"}

WorkingInputs == [Fields -> Values \cup {Unset}]

Deal ==
  [status : DealStatus, latest : SnapshotIds \cup {NoSnapshot}, inputs : WorkingInputs]

\* A deal as DealService.create_deal saves it when there is no investor profile, and in general.
NewDeal == [status |-> "DRAFT", latest |-> NoSnapshot, inputs |-> [f \in Fields |-> Unset]]

NewDeals ==
  {[NewDeal EXCEPT !.inputs = [f \in Fields |-> IF f \in ProfileFields THEN profile[f] ELSE Unset]] :
     profile \in WorkingInputs}

\* Mutant: the first stage has a name the deal_status column does not know.
transitions_renamed ==
  [ANALYSED        |-> "OFFERED",
   OFFER_SUBMITTED |-> "PURCHASED",
   PURCHASED       |-> "HELD",
   HELD            |-> "EXITED"]

\* The table of forward transitions in Deal.advance_status.
transitions ==
  [ANALYSED        |-> "OFFER_SUBMITTED",
   OFFER_SUBMITTED |-> "PURCHASED",
   PURCHASED       |-> "HELD",
   HELD            |-> "EXITED"]

CanAdvance(deal) == deal.status \in DOMAIN transitions

\* Mutant: the first analysis forgets the transition out of DRAFT.
apply_snapshot_created_no_transition(deal, id) == [deal EXCEPT !.latest = id]

apply_snapshot_created(deal, id) ==
  [deal EXCEPT !.latest = id,
               !.status = IF @ = "DRAFT" THEN "ANALYSED" ELSE @]

advance_status(deal) == [deal EXCEPT !.status = transitions[@]]

archive(deal) == [deal EXCEPT !.status = "ARCHIVED"]

\* An Unset entry of the patch means "leave as it is": no field is ever cleared.
merge_input_update(deal, patch) ==
  [deal EXCEPT !.inputs =
     [f \in Fields |-> IF patch[f] = Unset THEN deal.inputs[f] ELSE patch[f]]]

\* The inputs a recalculation can start from.
Complete(inputs) == \A f \in RequiredFields : inputs[f] # Unset
===============================================================================
