----------------------- MODULE MCConfigurationVersions -----------------------
(* Values for the constants of ConfigurationVersions. *)
EXTENDS ConfigurationVersions, TLC

CONSTANTS v1, v2  \* engine version strings

\* A first release; new rates under the same engine; new defaults with a new engine.
MCReleases ==
  {[engine |-> v1, sdlt |-> 1, corporation_tax |-> 1, assumption |-> 1],
   [engine |-> v1, sdlt |-> 2, corporation_tax |-> 1, assumption |-> 2],
   [engine |-> v2, sdlt |-> 2, corporation_tax |-> 2, assumption |-> 1]}

Symmetry == Permutations(Runs) \cup Permutations(Requests)
===============================================================================
