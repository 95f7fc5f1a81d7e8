------------------------ MODULE ConfigurationVersions ------------------------
(***************************************************************************)
(* The append-only configuration tables: scripts/seed_configuration.py     *)
(* fills them each time an instance starts, ConfigurationService reads     *)
(* the three versions a calculation uses, by date for an analysis and by   *)
(* id for a reproduction.                                                  *)
(*                                                                         *)
(* A run of the script is one transaction at READ COMMITTED.  The name of  *)
(* a run doubles as the id of the rows it inserts.  Rows are never changed *)
(* or deleted, so a version is known by its key: the version string of an  *)
(* engine, the effective_from date of the others.  Releases agree on the   *)
(* bands of a date, so the bands of an SDLT version are inserted with it   *)
(* and read with it.                                                       *)
(***************************************************************************)
EXTENDS Integers

CONSTANTS
  Runs,      \* runs of the seed script
  Requests,  \* calculations and reproductions
  Releases,  \* the seed values of each release of the script: a key for each table
  None,
  MaxDay     \* bound: last day versions and calculations are dated

Days   == 1..MaxDay
Dated  == {"sdlt", "corporation_tax", "assumption"}
Tables == Dated \cup {"engine"}

ASSUME ConfigurationAssumption ==
  /\ MaxDay \in Nat \ {0}
  /\ None \notin Runs \cup Requests \cup Releases
  /\ \A release \in Releases : \A t \in Dated : release[t] \in Days
  /\ \A release \in Releases : release["engine"] # None
  /\ \A d \in Days : d # None

VARIABLES
  rows,      \* [Tables -> [Runs -> key or None]]: the committed row each run inserted
  open,      \* the same for rows inserted by a transaction still open
  release,   \* the release each run seeds
  step,      \* the statement each run is at
  seeded,    \* history: releases committed before the run began
  pc,        \* the read each request is at
  date,      \* its calculation_date, 0 for a reproduction, which has no use for it
  source,    \* the earlier calculation it reproduces, None for an analysis
  refs,      \* the version ids it has read: its ConfigVersionRefs
  start      \* history: the versions that were active when it began

seedVars    == <<release, step, seeded>>
requestVars == <<pc, date, source, refs, start>>
vars        == <<rows, open, seedVars, requestVars>>

Keys == Days \cup {rel["engine"] : rel \in Releases}

Inserted(table) == {s \in Runs : rows[table][s] # None}

Init ==
  /\ rows = [t \in Tables |-> [s \in Runs |-> None]]
  /\ open = [t \in Tables |-> [s \in Runs |-> None]]
  /\ release = [s \in Runs |-> None]
  /\ step = [s \in Runs |-> "idle"]
  /\ seeded = [s \in Runs |-> {}]
  /\ pc = [q \in Requests |-> "idle"]
  /\ date = [q \in Requests |-> 0]
  /\ source = [q \in Requests |-> None]
  /\ refs = [q \in Requests |-> [t \in Dated |-> None]]
  /\ start = [q \in Requests |-> [t \in Dated |-> {}]]
-------------------------------------------------------------------------------
(* The seed script                                                         *)

\* Mutant: the engine version is registered last.
Following_engine_last ==
  [begin |-> "select_sdlt", sdlt |-> "corporation_tax", corporation_tax |-> "assumption",
   assumption |-> "engine", engine |-> "commit"]

\* The order of run_seed's statements.
Following ==
  [begin |-> "engine", engine |-> "select_sdlt", sdlt |-> "corporation_tax",
   corporation_tax |-> "assumption", assumption |-> "commit"]

Continue(s, next) == step' = [step EXCEPT ![s] = next]

Insert(s, table) == open' = [open EXCEPT ![table][s] = release[s][table]]

StartSeed(s, rel) ==
  /\ step[s] = "idle"
  /\ release' = [release EXCEPT ![s] = rel]
  /\ seeded' = [seeded EXCEPT ![s] = {release[t] : t \in {u \in Runs : step[u] = "done"}}]
  /\ Continue(s, Following.begin)
  /\ UNCHANGED <<rows, open, requestVars>>

\* Mutant: look for the row, then insert it, without ON CONFLICT.
SeedUnique_check_first(s, table) ==
  /\ step[s] = table
  /\ \/ /\ \E t \in Inserted(table) : rows[table][t] = release[s][table]
        /\ UNCHANGED open
     \/ /\ \A t \in Inserted(table) : rows[table][t] # release[s][table]
        /\ Insert(s, table)
  /\ Continue(s, Following[table])
  /\ UNCHANGED <<rows, release, seeded, requestVars>>

\* INSERT ... ON CONFLICT DO NOTHING on the table's unique key.  It waits for an open
\* transaction that has inserted the key.
SeedUnique(s, table) ==
  /\ step[s] = table
  /\ \A t \in Runs : open[table][t] # release[s][table]
  /\ \/ /\ \E t \in Inserted(table) : rows[table][t] = release[s][table]
        /\ UNCHANGED open
     \/ /\ \A t \in Inserted(table) : rows[table][t] # release[s][table]
        /\ Insert(s, table)
  /\ Continue(s, Following[table])
  /\ UNCHANGED <<rows, release, seeded, requestVars>>

\* Mutant: seed_sdlt_version does not look for an earlier row.
SelectSdlt_never_found(s) ==
  /\ step[s] = "select_sdlt"
  /\ Continue(s, "insert_sdlt")
  /\ UNCHANGED <<rows, open, release, seeded, requestVars>>

\* The SELECT of seed_sdlt_version.
SelectSdlt(s) ==
  /\ step[s] = "select_sdlt"
  /\ Continue(s, IF \E t \in Inserted("sdlt") : rows["sdlt"][t] = release[s]["sdlt"]
                 THEN Following.sdlt
                 ELSE "insert_sdlt")
  /\ UNCHANGED <<rows, open, release, seeded, requestVars>>

\* Its INSERT, with no unique key to stop it, and the bands of the new version.
InsertSdlt(s) ==
  /\ step[s] = "insert_sdlt"
  /\ Insert(s, "sdlt")
  /\ Continue(s, Following.sdlt)
  /\ UNCHANGED <<rows, release, seeded, requestVars>>

\* Mutant: the connection is given back without ending the transaction.
NothingOpen_never(s) == open

NothingOpen(s) == [t \in Tables |-> [open[t] EXCEPT ![s] = None]]

\* The end of engine.begin().
CommitSeed(s) ==
  /\ step[s] = "commit"
  /\ rows' = [t \in Tables |-> [rows[t] EXCEPT ![s] = open[t][s]]]
  /\ open' = NothingOpen(s)
  /\ Continue(s, "done")
  /\ UNCHANGED <<release, seeded, requestVars>>

\* The script fails or its instance is stopped.
AbortSeed(s) ==
  /\ step[s] \notin {"idle", "done", "failed"}
  /\ open' = NothingOpen(s)
  /\ Continue(s, "failed")
  /\ UNCHANGED <<rows, release, seeded, requestVars>>
-------------------------------------------------------------------------------
(* ConfigurationService                                                    *)

InForce(table, day) == {s \in Inserted(table) : rows[table][s] <= day}

\* Mutant: the newest version, in force or not.
Active_any_date(table, day) ==
  {s \in Inserted(table) : \A t \in Inserted(table) : rows[table][t] <= rows[table][s]}

\* ORDER BY effective_from DESC LIMIT 1: any one of the latest, should there be several.
Active(table, day) ==
  {s \in InForce(table, day) : \A t \in InForce(table, day) : rows[table][t] <= rows[table][s]}

Reading == [sdlt |-> "corporation_tax", corporation_tax |-> "assumption", assumption |-> "done"]

\* run_calculation as of a day the client names: the day it is asked, an earlier or a later one.
StartAnalysis(q, day) ==
  /\ pc[q] = "idle"
  /\ date' = [date EXCEPT ![q] = day]
  /\ start' = [start EXCEPT ![q] = [t \in Dated |-> Active(t, day)]]
  /\ pc' = [pc EXCEPT ![q] = "sdlt"]
  /\ UNCHANGED <<rows, open, seedVars, source, refs>>

\* reproduce_original of a stored snapshot.
StartReproduction(q, p) ==
  /\ pc[q] = "idle"
  /\ pc[p] = "done"
  /\ source' = [source EXCEPT ![q] = p]
  /\ pc' = [pc EXCEPT ![q] = "sdlt"]
  /\ UNCHANGED <<rows, open, seedVars, date, refs, start>>

\* Mutant: a reproduction looks its versions up by the date of the original.
Found_by_date(q, table) ==
  IF source[q] = None THEN Active(table, date[q]) ELSE Active(table, date[source[q]])

\* What a read can return: by date for an analysis, by id for a reproduction.
Found(q, table) ==
  IF source[q] = None THEN Active(table, date[q])
  ELSE Inserted(table) \cap {refs[source[q]][table]}

\* Mutant: the snapshot keeps the version's date in place of its id.
Read_keeps_date(q, table) ==
  /\ pc[q] = table
  /\ \E v \in Found(q, table) : refs' = [refs EXCEPT ![q][table] = rows[table][v]]
  /\ pc' = [pc EXCEPT ![q] = Reading[table]]
  /\ UNCHANGED <<rows, open, seedVars, date, source, start>>

\* One of the three reads of load_for_calculation and load_specific_versions.
Read(q, table) ==
  /\ pc[q] = table
  /\ \E v \in Found(q, table) : refs' = [refs EXCEPT ![q][table] = v]
  /\ pc' = [pc EXCEPT ![q] = Reading[table]]
  /\ UNCHANGED <<rows, open, seedVars, date, source, start>>

\* ConfigurationNotFoundError.
ReadNothing(q, table) ==
  /\ pc[q] = table
  /\ Found(q, table) = {}
  /\ pc' = [pc EXCEPT ![q] = "not_found"]
  /\ UNCHANGED <<rows, open, seedVars, date, source, refs, start>>

Seed(s) ==
  \/ \E table \in Tables \ {"sdlt"} : SeedUnique(s, table)
  \/ SelectSdlt(s) \/ InsertSdlt(s) \/ CommitSeed(s)

Terminated ==
  /\ \A s \in Runs : step[s] \in {"done", "failed"}
  /\ \A q \in Requests : pc[q] \in {"done", "not_found"}
  /\ UNCHANGED vars

Next ==
  \/ \E s \in Runs : (\E rel \in Releases : StartSeed(s, rel)) \/ Seed(s) \/ AbortSeed(s)
  \/ \E q \in Requests :
       \/ \E day \in Days : StartAnalysis(q, day)
       \/ \E p \in Requests : StartReproduction(q, p)
       \/ \E table \in Dated : Read(q, table) \/ ReadNothing(q, table)
  \/ Terminated

Spec == Init /\ [][Next]_vars
-------------------------------------------------------------------------------
(* Properties                                                              *)

\* Every row, statement and read has a value of its type.
TypeOK ==
  /\ rows \in [Tables -> [Runs -> Keys \cup {None}]]
  /\ open \in [Tables -> [Runs -> Keys \cup {None}]]
  /\ release \in [Runs -> Releases \cup {None}]
  /\ step \in [Runs -> Tables \cup {"idle", "select_sdlt", "insert_sdlt", "commit", "done", "failed"}]
  /\ seeded \in [Runs -> SUBSET Releases]
  /\ pc \in [Requests -> Dated \cup {"idle", "done", "not_found"}]
  /\ date \in [Requests -> 0..MaxDay]
  /\ source \in [Requests -> Requests \cup {None}]
  /\ refs \in [Requests -> [Dated -> Runs \cup {None}]]
  /\ start \in [Requests -> [Dated -> SUBSET Runs]]

OneVersionPerKey(table) ==
  \A s, t \in Inserted(table) : rows[table][s] = rows[table][t] => s = t

\* I-15 where the schema has the constraint: instances that start together never insert two
\* corporation tax or assumption versions of one date, or two rows of one engine version.
OneVersionPerDate == \A table \in Tables \ {"sdlt"} : OneVersionPerKey(table)

\* I-15 for SDLT, where the schema has no constraint: a run that registers its engine version
\* makes the other runs of it wait until its SDLT version is visible, so a duplicate can only
\* come from releases of an engine version registered before.
RegistrationGuardsSdlt ==
  \A s, t \in Inserted("sdlt") :
    /\ s # t
    /\ rows["sdlt"][s] = rows["sdlt"][t]
    /\ release[s]["engine"] = release[t]["engine"]
    => rows["engine"][s] = None /\ rows["engine"][t] = None

\* Each version an analysis read is at least as new as the one active when it began and no
\* newer than its date allows: a bundle mixes two instants only when a version in force on that
\* date was committed while the bundle was being read.
ReadsAreBracketed ==
  \A q \in Requests, table \in Dated :
    LET v == refs[q][table] IN
      v # None /\ source[q] = None =>
        /\ v \in InForce(table, date[q])
        /\ \A s \in start[q][table] : rows[table][v] >= rows[table][s]

\* A reproduction uses the very versions of the calculation it reproduces, whatever has been
\* seeded, or has come into force, in between, and it never lacks one.
ReproductionUsesSameVersions ==
  \A q \in Requests :
    source[q] # None =>
      /\ pc[q] # "not_found"
      /\ \A table \in Dated : refs[q][table] \in {None, refs[source[q]][table]}

\* "Idempotent: safe to re-run": a run of a release that was committed before the run began
\* adds nothing.
RerunAddsNothing ==
  [][\A s \in Runs :
       step[s] = "commit" /\ step'[s] = "done" /\ release[s] \in seeded[s] => rows' = rows]_vars

Running(s) == step[s] \notin {"idle", "done", "failed"}

Blocked(s) ==
  \E table \in Tables \ {"sdlt"} :
    step[s] = table /\ \E t \in Runs : open[table][t] = release[s][table]

\* Scripts that wait for each other's inserts, whatever their releases, always leave one that
\* can go on, so an instance that is starting comes up.
NoSeedDeadlock == (\E s \in Runs : Running(s)) => \E s \in Runs : Running(s) /\ ~Blocked(s)

\* I-15: "Configuration effective_from uniqueness: one version per date per domain".
OneSdltVersionPerDate == OneVersionPerKey("sdlt")
===============================================================================
