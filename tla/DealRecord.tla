------------------------------ MODULE DealRecord ------------------------------
(***************************************************************************)
(* What the deals table promises a user who works alone: each request is   *)
(* one atomic change of one row.  Status moves forward only, ARCHIVED is   *)
(* final, the snapshot pointer moves only to a snapshot just created.      *)
(* DealWorkspace is shown to implement this specification when requests    *)
(* do not overlap.                                                         *)
(***************************************************************************)
CONSTANTS Deals, SnapshotIds, NoSnapshot, Fields, ProfileFields, RequiredFields, Values, Unset

VARIABLES
  deals,     \* [Deals -> Deal]: the committed rows
  analysed   \* the snapshots calculations have created

INSTANCE DealEntity

vars == <<deals, analysed>>

Init ==
  /\ deals \in [Deals -> NewDeals]
  /\ analysed = {}

Open(d) == deals[d].status # "ARCHIVED"

Write(d, deal) == deals' = [deals EXCEPT ![d] = deal]

UpdateInputs(d, patch) ==
  /\ Open(d)
  /\ Write(d, merge_input_update(deals[d], patch))
  /\ UNCHANGED analysed

Advance(d) ==
  /\ CanAdvance(deals[d])
  /\ Write(d, advance_status(deals[d]))
  /\ UNCHANGED analysed

Archive(d) ==
  /\ Open(d)
  /\ Write(d, archive(deals[d]))
  /\ UNCHANGED analysed

Analyse(d, s) ==
  /\ Open(d)
  /\ s \notin analysed
  /\ Write(d, apply_snapshot_created(deals[d], s))
  /\ analysed' = analysed \cup {s}

Next ==
  \E d \in Deals :
    \/ \E patch \in WorkingInputs : UpdateInputs(d, patch)
    \/ Advance(d)
    \/ Archive(d)
    \/ \E s \in SnapshotIds : Analyse(d, s)

Spec == Init /\ [][Next]_vars
===============================================================================
