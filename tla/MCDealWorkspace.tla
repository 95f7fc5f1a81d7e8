--------------------------- MODULE MCDealWorkspace ---------------------------
(* Small instances of DealWorkspace for TLC.                               *)
EXTENDS DealWorkspace, TLC

CONSTANTS d1, d2, alice, bob

\* One deal each for two users.
MCOwner == (d1 :> alice) @@ (d2 :> bob)

\* One deal.
MCOneOwner == d1 :> alice

\* Requests are interchangeable: safety only.
RequestSymmetry == Permutations(Requests)
===============================================================================
