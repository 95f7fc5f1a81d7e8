-------------------- MODULE ConfigurationVersions_proofs --------------------
(***************************************************************************)
(* Theorems about ConfigurationVersions for any runs of the seed script,   *)
(* requests, releases and number of days.                                  *)
(***************************************************************************)
EXTENDS ConfigurationVersions, TLAPS

-----------------------------------------------------------------------------
(* Types                                                                   *)

Unique == Tables \ {"sdlt"}

Moves == Tables \cup {"idle", "select_sdlt", "insert_sdlt", "commit", "done", "failed"}

TypeInv == TypeOK /\ \A s \in Runs : step[s] # "idle" => release[s] \in Releases

\* The key a release has for a table is a key, and not None.
LEMMA ReleaseKeys ==
  ASSUME NEW rel \in Releases
  PROVE  /\ \A table \in Tables : rel[table] \in Keys /\ rel[table] # None
         /\ \A table \in Dated : rel[table] \in Days
BY ConfigurationAssumption DEF Tables, Dated, Keys

\* The statement that follows another one.
LEMMA FollowingStep ==
  /\ Following.begin = "engine"
  /\ Following["engine"] = "select_sdlt"
  /\ Following.sdlt = "corporation_tax"
  /\ Following["corporation_tax"] = "assumption"
  /\ Following["assumption"] = "commit"
BY DEF Following

\* The read that follows another one.
LEMMA ReadingStep ==
  /\ Reading["sdlt"] = "corporation_tax"
  /\ Reading["corporation_tax"] = "assumption"
  /\ Reading["assumption"] = "done"
BY DEF Reading

\* A statement of the seed script leaves what it touches typed.
LEMMA SeedType ==
  ASSUME TypeInv, NEW s \in Runs,
         (\E rel \in Releases : StartSeed(s, rel)) \/ Seed(s) \/ AbortSeed(s)
  PROVE  /\ rows' \in [Tables -> [Runs -> Keys \cup {None}]]
         /\ open' \in [Tables -> [Runs -> Keys \cup {None}]]
         /\ release' \in [Runs -> Releases \cup {None}]
         /\ step' \in [Runs -> Moves]
         /\ seeded' \in [Runs -> SUBSET Releases]
         /\ \A t \in Runs : step'[t] # "idle" => release'[t] \in Releases
<1> DEFINE Typed == /\ rows' \in [Tables -> [Runs -> Keys \cup {None}]]
                    /\ open' \in [Tables -> [Runs -> Keys \cup {None}]]
                    /\ release' \in [Runs -> Releases \cup {None}]
                    /\ step' \in [Runs -> Moves]
                    /\ seeded' \in [Runs -> SUBSET Releases]
                    /\ \A t \in Runs : step'[t] # "idle" => release'[t] \in Releases
<1> USE DEF TypeInv, TypeOK, Moves
<1>1. ASSUME NEW rel \in Releases, StartSeed(s, rel) PROVE Typed
  BY <1>1, FollowingStep DEF StartSeed, Continue, Tables
<1>2. ASSUME NEW table \in Tables, open' = open \/ Insert(s, table), step[s] # "idle"
      PROVE open' \in [Tables -> [Runs -> Keys \cup {None}]]
  <2>1. release[s][table] \in Keys
    BY <1>2, ReleaseKeys
  <2>2. CASE Insert(s, table)
    <3> DEFINE row == [open[table] EXCEPT ![s] = release[s][table]]
    <3>1. row \in [Runs -> Keys \cup {None}]
      BY <2>1
    <3>2. open' = [open EXCEPT ![table] = row]
      BY <2>2 DEF Insert
    <3> HIDE DEF row
    <3> QED BY <3>1, <3>2
  <2> QED BY <1>2, <2>2
<1>3. ASSUME NEW table \in Unique, SeedUnique(s, table) PROVE Typed
  <2>1. step[s] # "idle" /\ table \in Tables
    BY <1>3 DEF SeedUnique, Unique, Tables, Dated
  <2>2. Following[table] \in Moves \ {"idle"}
    BY FollowingStep DEF Unique, Tables, Dated
  <2> QED BY <1>2, <1>3, <2>1, <2>2 DEF SeedUnique, Continue
<1>4. CASE SelectSdlt(s)
  BY <1>4, FollowingStep DEF SelectSdlt, Continue, Tables, Dated
<1>5. CASE InsertSdlt(s)
  <2>1. step[s] # "idle" /\ "sdlt" \in Tables
    BY <1>5 DEF InsertSdlt, Tables, Dated
  <2> QED BY <1>2, <1>5, <2>1, FollowingStep DEF InsertSdlt, Continue, Tables, Dated
<1>6. CASE CommitSeed(s)
  BY <1>6 DEF CommitSeed, NothingOpen, Continue
<1>7. CASE AbortSeed(s)
  BY <1>7 DEF AbortSeed, NothingOpen, Continue
<1> QED BY <1>1, <1>3, <1>4, <1>5, <1>6, <1>7 DEF Seed, Unique

\* Every action leaves everything typed.
LEMMA TypeStep ==
  ASSUME TypeInv, Next
  PROVE  TypeInv'
<1> USE DEF TypeInv, TypeOK
<1>1. ASSUME NEW s \in Runs, (\E rel \in Releases : StartSeed(s, rel)) \/ Seed(s) \/ AbortSeed(s)
      PROVE TypeInv'
  <2>1. UNCHANGED requestVars
    BY <1>1 DEF StartSeed, Seed, AbortSeed, SeedUnique, SelectSdlt, InsertSdlt, CommitSeed
  <2> QED BY <1>1, <2>1, SeedType DEF requestVars, Moves
<1>2. ASSUME NEW q \in Requests, NEW day \in Days, StartAnalysis(q, day) PROVE TypeInv'
  <2>1. [t \in Dated |-> Active(t, day)] \in [Dated -> SUBSET Runs]
    BY DEF Active, InForce, Inserted
  <2>2. day \in 0..MaxDay
    BY ConfigurationAssumption DEF Days
  <2> QED BY <1>2, <2>1, <2>2 DEF StartAnalysis, seedVars, Dated
<1>3. ASSUME NEW q \in Requests, NEW p \in Requests, StartReproduction(q, p) PROVE TypeInv'
  BY <1>3 DEF StartReproduction, seedVars, Dated
<1>4. ASSUME NEW q \in Requests, NEW table \in Dated, Read(q, table) PROVE TypeInv'
  <2>1. PICK v \in Found(q, table) : refs' = [refs EXCEPT ![q][table] = v]
    BY <1>4 DEF Read
  <2>2. v \in Runs
    BY <2>1 DEF Found, Active, InForce, Inserted
  <2>3. Reading[table] \in Dated \cup {"idle", "done", "not_found"}
    BY ReadingStep DEF Dated
  <2> QED BY <1>4, <2>1, <2>2, <2>3 DEF Read, seedVars
<1>5. ASSUME NEW q \in Requests, NEW table \in Dated, ReadNothing(q, table) PROVE TypeInv'
  BY <1>5 DEF ReadNothing, seedVars
<1>6. CASE Terminated
  BY <1>6 DEF Terminated, vars, seedVars, requestVars
<1> QED BY <1>1, <1>2, <1>3, <1>4, <1>5, <1>6 DEF Next

\* The initial state is typed.
LEMMA TypeInit == Init => TypeInv
BY ConfigurationAssumption DEF Init, TypeInv, TypeOK

-----------------------------------------------------------------------------
(* The seed script                                                         *)

\* The statement for the table is behind the run, which has not failed.
Passed(table, statement) ==
  \/ table = "engine" /\ statement \in {"select_sdlt", "insert_sdlt", "corporation_tax",
                                        "assumption", "commit", "done"}
  \/ table = "sdlt" /\ statement \in {"corporation_tax", "assumption", "commit", "done"}
  \/ table = "corporation_tax" /\ statement \in {"assumption", "commit", "done"}
  \/ table = "assumption" /\ statement \in {"commit", "done"}

\* A committed row is of a run that is done, an open one of a run past the table's statement,
\* and each has the key of the run's release.
RowInv ==
  \A s \in Runs, table \in Tables :
    /\ rows[table][s] # None => step[s] = "done" /\ rows[table][s] = release[s][table]
    /\ open[table][s] # None =>
         /\ Passed(table, step[s]) /\ step[s] # "done"
         /\ open[table][s] = release[s][table]

Holds(table, s) == rows[table][s] # None \/ open[table][s] # None

\* Committed or not, two runs never hold the same key of a table with a unique key.
KeyInv ==
  \A table \in Unique : \A s, t \in Runs :
    Holds(table, s) /\ Holds(table, t) /\ release[s][table] = release[t][table] => s = t

\* A run past a table's statement has inserted its key or found it committed.
Covered ==
  \A s \in Runs, table \in Tables :
    Passed(table, step[s]) =>
      open[table][s] # None \/ \E t \in Runs : rows[table][t] = release[s][table]

\* Once a run has committed its engine version and its SDLT version, no other run of both holds
\* or is about to insert that SDLT version.
SdltInv ==
  \A s, t \in Runs :
    /\ s # t
    /\ rows["engine"][s] # None /\ rows["sdlt"][s] # None
    /\ release[s]["engine"] = release[t]["engine"] /\ release[s]["sdlt"] = release[t]["sdlt"]
    => step[t] # "insert_sdlt" /\ open["sdlt"][t] = None /\ rows["sdlt"][t] = None

\* A run of a release committed before it began finds every row and inserts none.
RerunInv ==
  \A s \in Runs :
    step[s] # "idle" /\ release[s] \in seeded[s] =>
      /\ step[s] # "insert_sdlt"
      /\ \A table \in Tables :
           open[table][s] = None /\ \E t \in Runs : rows[table][t] = release[s][table]

SeedInv == RowInv /\ KeyInv /\ Covered /\ SdltInv /\ RerunInv

\* The beginning of a run.
LEMMA StartSeedInv ==
  ASSUME TypeInv, SeedInv, NEW s \in Runs, NEW rel \in Releases, StartSeed(s, rel)
  PROVE  SeedInv'
<1> USE DEF TypeInv, TypeOK, SeedInv
<1>1. /\ step[s] = "idle" /\ step' = [step EXCEPT ![s] = "engine"]
      /\ release' = [release EXCEPT ![s] = rel] /\ rows' = rows /\ open' = open
      /\ seeded' = [seeded EXCEPT ![s] = {release[t] : t \in {u \in Runs : step[u] = "done"}}]
  BY FollowingStep DEF StartSeed, Continue
<1>2. \A table \in Tables : rows[table][s] = None /\ open[table][s] = None
  BY <1>1 DEF RowInv, Passed
<1>3. RowInv'
  BY <1>1, <1>2 DEF RowInv
<1>4. KeyInv'
  BY <1>1, <1>2 DEF KeyInv, Holds, Unique
<1>5. Covered'
  BY <1>1 DEF Covered, Passed
<1>6. SdltInv'
  <2>1. "engine" \in Tables /\ "sdlt" \in Tables
    BY DEF Tables, Dated
  <2> QED BY <1>1, <1>2, <2>1 DEF SdltInv
<1>7. RerunInv'
  <2> SUFFICES ASSUME NEW t \in Runs, step'[t] # "idle", release'[t] \in seeded'[t]
               PROVE  /\ step'[t] # "insert_sdlt"
                      /\ \A table \in Tables :
                           /\ open[table][t] = None
                           /\ \E u \in Runs : rows[table][u] = release'[t][table]
    BY <1>1 DEF RerunInv
  <2>1. CASE t # s
    BY <1>1, <2>1 DEF RerunInv
  <2>2. CASE t = s
    <3>1. PICK u \in Runs : step[u] = "done" /\ release[u] = rel
      BY <1>1, <2>2
    <3>2. \A table \in Tables : Passed(table, "done") /\ open[table][u] = None
      BY <3>1 DEF Passed, Tables, Dated, RowInv
    <3>3. \A table \in Tables : \E v \in Runs : rows[table][v] = rel[table]
      BY <3>1, <3>2 DEF Covered
    <3> QED BY <1>1, <1>2, <2>2, <3>3
  <2> QED BY <2>1, <2>2
<1> QED BY <1>3, <1>4, <1>5, <1>6, <1>7

\* A statement that inserts nothing, because the key is there or because it is the SELECT.
LEMMA NoInsertInv ==
  ASSUME TypeInv, SeedInv, NEW s \in Runs, NEW table \in Tables, NEW next \in Moves \ {"done", "idle"},
         step[s] \notin {"idle", "done", "failed"},
         step' = [step EXCEPT ![s] = next], UNCHANGED <<rows, open, release, seeded>>,
         \A u \in Tables \ {table} : Passed(u, next) <=> Passed(u, step[s]),
         Passed(table, step[s]) => Passed(table, next),
         Passed(table, next) => Passed(table, step[s])
                                \/ \E t \in Runs : rows[table][t] = release[s][table],
         next = "insert_sdlt" => \A t \in Runs : rows["sdlt"][t] # release[s]["sdlt"]
  PROVE  SeedInv'
<1> USE DEF TypeInv, TypeOK, SeedInv
<1>1. \A u \in Tables : Passed(u, step[s]) => Passed(u, next)
  OBVIOUS
<1>2. RowInv'
  BY <1>1 DEF RowInv
<1>3. KeyInv'
  BY DEF KeyInv, Holds
<1>4. Covered'
  BY DEF Covered
<1>5. SdltInv'
  <2>1. "sdlt" \in Tables
    BY DEF Tables, Dated
  <2> QED BY <2>1 DEF SdltInv, RowInv
<1>6. RerunInv'
  <2>1. "sdlt" \in Tables
    BY DEF Tables, Dated
  <2> QED BY <2>1 DEF RerunInv
<1> QED BY <1>2, <1>3, <1>4, <1>5, <1>6

\* An insert of a key that no committed row has, nor an open one where the key is unique.
LEMMA InsertInv ==
  ASSUME TypeInv, SeedInv, NEW s \in Runs, NEW table \in Tables,
         NEW next \in Moves \ {"done", "idle", "insert_sdlt"},
         step[s] \notin {"idle", "done", "failed"},
         step' = [step EXCEPT ![s] = next], UNCHANGED <<rows, release, seeded>>,
         Insert(s, table),
         \A u \in Tables \ {table} : Passed(u, next) <=> Passed(u, step[s]),
         Passed(table, next),
         table \in Unique =>
           /\ \A t \in Runs : open[table][t] # release[s][table]
           /\ \A t \in Runs : rows[table][t] # release[s][table],
         table = "sdlt" => step[s] = "insert_sdlt"
  PROVE  SeedInv'
<1> USE DEF TypeInv, TypeOK, SeedInv
<1>1. release[s] \in Releases /\ release[s][table] # None
  BY ReleaseKeys
<1>2. /\ open'[table][s] = release[s][table]
      /\ \A t \in Runs : t # s => open'[table][t] = open[table][t]
      /\ \A u \in Tables \ {table} : \A t \in Runs : open'[u][t] = open[u][t]
  BY DEF Insert
<1>3. \A u \in Tables : Passed(u, step[s]) => Passed(u, next)
  OBVIOUS
<1>4. RowInv'
  <2> SUFFICES ASSUME NEW t \in Runs, NEW u \in Tables
               PROVE  /\ rows[u][t] # None => step'[t] = "done" /\ rows[u][t] = release[t][u]
                      /\ open'[u][t] # None =>
                           /\ Passed(u, step'[t]) /\ step'[t] # "done"
                           /\ open'[u][t] = release[t][u]
    BY DEF RowInv
  <2>1. CASE t = s /\ u = table
    BY <1>2, <2>1 DEF RowInv
  <2>2. CASE ~(t = s /\ u = table)
    <3>1. open'[u][t] = open[u][t]
      BY <1>2, <2>2
    <3> QED BY <1>3, <3>1 DEF RowInv
  <2> QED BY <2>1, <2>2
<1>5. KeyInv'
  <2> SUFFICES ASSUME NEW u \in Unique, NEW t \in Runs, NEW v \in Runs,
                      Holds(u, t)', Holds(u, v)', release[t][u] = release[v][u], t # v
               PROVE  FALSE
    BY DEF KeyInv
  <2>1. u \in Tables
    BY DEF Unique
  <2>2. ASSUME NEW w \in Runs, w # s \/ u # table, Holds(u, w)' PROVE Holds(u, w)
    BY <1>2, <2>1, <2>2 DEF Holds
  <2>3. ASSUME NEW w \in Runs, w # s, u = table, Holds(u, w) PROVE release[w][u] # release[s][u]
    BY <2>1, <2>3 DEF Holds, RowInv
  <2>4. CASE u # table
    BY <2>2, <2>4 DEF KeyInv
  <2>5. CASE u = table /\ t = s
    BY <2>2, <2>3, <2>5
  <2>6. CASE u = table /\ v = s
    BY <2>2, <2>3, <2>6
  <2>7. CASE t # s /\ v # s
    BY <2>2, <2>7 DEF KeyInv
  <2> QED BY <2>4, <2>5, <2>6, <2>7
<1>6. Covered'
  <2> SUFFICES ASSUME NEW t \in Runs, NEW u \in Tables, Passed(u, step'[t])
               PROVE  open'[u][t] # None \/ \E v \in Runs : rows[u][v] = release[t][u]
    BY DEF Covered
  <2>1. CASE t = s /\ u = table
    BY <1>1, <1>2, <2>1
  <2>2. CASE ~(t = s /\ u = table)
    <3>1. open'[u][t] = open[u][t]
      BY <1>2, <2>2
    <3>2. Passed(u, step[t])
      BY <2>2
    <3> QED BY <3>1, <3>2 DEF Covered
  <2> QED BY <2>1, <2>2
<1>7. SdltInv'
  <2> SUFFICES ASSUME NEW t \in Runs, NEW v \in Runs, t # v,
                      rows["engine"][t] # None, rows["sdlt"][t] # None,
                      release[t]["engine"] = release[v]["engine"],
                      release[t]["sdlt"] = release[v]["sdlt"]
               PROVE  step'[v] # "insert_sdlt" /\ open'["sdlt"][v] = None /\ rows["sdlt"][v] = None
    BY DEF SdltInv
  <2>1. step[v] # "insert_sdlt" /\ open["sdlt"][v] = None /\ rows["sdlt"][v] = None
    BY DEF SdltInv
  <2>2. "sdlt" \in Tables
    BY DEF Tables, Dated
  <2>3. table # "sdlt" \/ v # s
    BY <2>1
  <2>4. open'["sdlt"][v] = open["sdlt"][v]
    BY <1>2, <2>2, <2>3
  <2> QED BY <2>1, <2>4
<1>8. RerunInv'
  <2> SUFFICES ASSUME NEW t \in Runs, step'[t] # "idle", release[t] \in seeded[t]
               PROVE  /\ step'[t] # "insert_sdlt"
                      /\ \A u \in Tables :
                           open'[u][t] = None /\ \E v \in Runs : rows[u][v] = release[t][u]
    BY DEF RerunInv
  <2>1. /\ step[t] # "insert_sdlt"
        /\ \A u \in Tables : open[u][t] = None /\ \E v \in Runs : rows[u][v] = release[t][u]
    BY DEF RerunInv
  <2>2. t # s
    BY <2>1 DEF Unique
  <2>3. \A u \in Tables : open'[u][t] = open[u][t]
    BY <1>2, <2>2
  <2> QED BY <2>1, <2>2, <2>3
<1> QED BY <1>4, <1>5, <1>6, <1>7, <1>8

\* A failed run leaves nothing.
LEMMA AbortInv ==
  ASSUME TypeInv, SeedInv, NEW s \in Runs, AbortSeed(s)
  PROVE  SeedInv'
<1> USE DEF TypeInv, TypeOK, SeedInv
<1>1. /\ step[s] \notin {"idle", "done", "failed"} /\ step' = [step EXCEPT ![s] = "failed"]
      /\ rows' = rows /\ release' = release /\ seeded' = seeded
      /\ \A u \in Tables : open'[u][s] = None /\ \A t \in Runs : t # s => open'[u][t] = open[u][t]
  BY DEF AbortSeed, Continue, NothingOpen
<1>2. \A table \in Tables : ~Passed(table, "failed")
  BY DEF Passed
<1>3. RowInv'
  BY <1>1, <1>2 DEF RowInv
<1>4. KeyInv'
  <2>1. \A u \in Tables, t \in Runs : Holds(u, t)' => Holds(u, t)
    BY <1>1 DEF Holds
  <2> QED BY <1>1, <2>1 DEF KeyInv, Unique
<1>5. Covered'
  BY <1>1, <1>2 DEF Covered
<1>6. SdltInv'
  <2>1. "sdlt" \in Tables
    BY DEF Tables, Dated
  <2> QED BY <1>1, <2>1 DEF SdltInv
<1>7. RerunInv'
  BY <1>1 DEF RerunInv
<1> QED BY <1>3, <1>4, <1>5, <1>6, <1>7

\* A commit makes the run's rows visible.
LEMMA CommitInv ==
  ASSUME TypeInv, SeedInv, NEW s \in Runs, CommitSeed(s)
  PROVE  SeedInv'
<1> USE DEF TypeInv, TypeOK, SeedInv
<1>1. /\ step[s] = "commit" /\ step' = [step EXCEPT ![s] = "done"]
      /\ release' = release /\ seeded' = seeded
      /\ \A u \in Tables :
           /\ rows'[u][s] = open[u][s] /\ open'[u][s] = None
           /\ \A t \in Runs : t # s => rows'[u][t] = rows[u][t] /\ open'[u][t] = open[u][t]
  BY DEF CommitSeed, Continue, NothingOpen
<1>2. \A u \in Tables : rows[u][s] = None
  BY <1>1 DEF RowInv
<1>3. \A u \in Tables, t \in Runs : rows[u][t] # None => rows'[u][t] = rows[u][t]
  BY <1>1, <1>2
<1>4. \A u \in Tables, t \in Runs : Holds(u, t)' => Holds(u, t)
  BY <1>1 DEF Holds
<1>5. "engine" \in Tables /\ "sdlt" \in Tables /\ "engine" \in Unique
  BY DEF Tables, Dated, Unique
<1>6. RowInv'
  BY <1>1 DEF RowInv
<1>7. KeyInv'
  BY <1>1, <1>4 DEF KeyInv, Unique
<1>8. ASSUME NEW t \in Runs, NEW u \in Tables, \E v \in Runs : rows[u][v] = release[t][u],
             release[t] \in Releases
      PROVE  \E v \in Runs : rows'[u][v] = release[t][u]
  BY <1>3, <1>8, ReleaseKeys
<1>9. Covered'
  <2> SUFFICES ASSUME NEW t \in Runs, NEW u \in Tables, Passed(u, step'[t])
               PROVE  open'[u][t] # None \/ \E v \in Runs : rows'[u][v] = release[t][u]
    BY <1>1 DEF Covered
  <2>1. Passed(u, step[t]) /\ step[t] # "idle"
    BY <1>1 DEF Passed
  <2>2. CASE open[u][t] # None /\ t # s
    BY <1>1, <2>2
  <2>3. CASE open[u][t] # None /\ t = s
    BY <1>1, <2>3 DEF RowInv
  <2>4. CASE \E v \in Runs : rows[u][v] = release[t][u]
    BY <1>8, <2>1, <2>4
  <2> QED BY <2>1, <2>2, <2>3, <2>4 DEF Covered
<1>10. SdltInv'
  <2> SUFFICES ASSUME NEW t \in Runs, NEW v \in Runs, t # v,
                      rows'["engine"][t] # None, rows'["sdlt"][t] # None,
                      release[t]["engine"] = release[v]["engine"],
                      release[t]["sdlt"] = release[v]["sdlt"]
               PROVE  /\ step'[v] # "insert_sdlt"
                      /\ open'["sdlt"][v] = None /\ rows'["sdlt"][v] = None
    BY <1>1 DEF SdltInv
  <2>1. CASE t # s
    <3>1. step[v] # "insert_sdlt" /\ open["sdlt"][v] = None /\ rows["sdlt"][v] = None
      BY <1>1, <1>5, <2>1 DEF SdltInv
    <3> QED BY <1>1, <1>5, <3>1
  <2>2. CASE t = s
    <3>1. open["engine"][s] # None /\ Holds("engine", s)
      BY <1>1, <1>5, <2>2 DEF Holds
    <3>2. ~Passed("engine", step[v])
      <4> SUFFICES ASSUME Passed("engine", step[v]) PROVE FALSE
        OBVIOUS
      <4>1. release[v] \in Releases /\ release[v]["engine"] # None
        BY <1>5, ReleaseKeys DEF Passed
      <4>2. CASE open["engine"][v] # None
        BY <1>5, <2>2, <3>1, <4>2 DEF Holds, KeyInv
      <4>3. CASE \E w \in Runs : rows["engine"][w] = release[v]["engine"]
        <5>1. PICK w \in Runs : rows["engine"][w] = release[v]["engine"]
          BY <4>3
        <5>2. Holds("engine", w) /\ release[w]["engine"] = release[s]["engine"]
          BY <1>5, <2>2, <4>1, <5>1 DEF Holds, RowInv
        <5>3. w = s
          BY <1>5, <3>1, <5>2 DEF KeyInv
        <5> QED BY <1>2, <1>5, <4>1, <5>1, <5>3
      <4> QED BY <1>5, <4>2, <4>3 DEF Covered
    <3>3. step[v] \notin {"insert_sdlt", "corporation_tax", "assumption", "commit", "done"}
      BY <3>2 DEF Passed
    <3>4. open["sdlt"][v] = None /\ rows["sdlt"][v] = None
      BY <1>5, <3>3 DEF RowInv, Passed
    <3> QED BY <1>1, <1>5, <2>2, <3>3, <3>4
  <2> QED BY <2>1, <2>2
<1>11. RerunInv'
  <2> SUFFICES ASSUME NEW t \in Runs, step'[t] # "idle", release[t] \in seeded[t]
               PROVE  /\ step'[t] # "insert_sdlt"
                      /\ \A u \in Tables :
                           open'[u][t] = None /\ \E v \in Runs : rows'[u][v] = release[t][u]
    BY <1>1 DEF RerunInv
  <2>1. step[t] # "idle" /\ release[t] \in Releases
    BY <1>1
  <2>2. /\ step[t] # "insert_sdlt"
        /\ \A u \in Tables : open[u][t] = None /\ \E v \in Runs : rows[u][v] = release[t][u]
    BY <2>1 DEF RerunInv
  <2> QED BY <1>1, <1>8, <2>1, <2>2
<1> QED BY <1>6, <1>7, <1>9, <1>10, <1>11


\* Every statement of the script keeps the invariants of the seeded tables.
LEMMA SeedStep ==
  ASSUME TypeInv, SeedInv, NEW s \in Runs,
         (\E rel \in Releases : StartSeed(s, rel)) \/ Seed(s) \/ AbortSeed(s)
  PROVE  SeedInv'
<1> USE DEF TypeInv, TypeOK
<1>1. ASSUME NEW table \in Unique, SeedUnique(s, table) PROVE SeedInv'
  <2>1. table \in Tables /\ step[s] = table
    BY <1>1 DEF SeedUnique, Unique
  <2>2. PICK next : next = Following[table]
    OBVIOUS
  <2>3. /\ next \in Moves \ {"done", "idle", "insert_sdlt"}
        /\ \A u \in Tables \ {table} : Passed(u, next) <=> Passed(u, step[s])
        /\ Passed(table, next) /\ ~Passed(table, step[s])
        /\ step[s] \notin {"idle", "done", "failed"}
    BY <2>1, <2>2, FollowingStep DEF Unique, Tables, Dated, Passed, Moves
  <2>4. step' = [step EXCEPT ![s] = next] /\ UNCHANGED <<rows, release, seeded>>
    BY <1>1, <2>2 DEF SeedUnique, Continue
  <2>5. CASE open' = open /\ \E t \in Inserted(table) : rows[table][t] = release[s][table]
    BY <2>1, <2>3, <2>4, <2>5, NoInsertInv DEF Inserted
  <2>6. CASE Insert(s, table) /\ \A t \in Inserted(table) : rows[table][t] # release[s][table]
    <3>1. release[s][table] # None
      BY <2>1, <2>3, ReleaseKeys
    <3>2. \A t \in Runs : rows[table][t] # release[s][table]
      BY <2>6, <3>1 DEF Inserted
    <3>3. \A t \in Runs : open[table][t] # release[s][table]
      BY <1>1 DEF SeedUnique
    <3>4. table # "sdlt"
      BY DEF Unique
    <3> QED BY <2>1, <2>3, <2>4, <2>6, <3>2, <3>3, <3>4, InsertInv
  <2> QED BY <1>1, <2>5, <2>6 DEF SeedUnique
<1>2. CASE SelectSdlt(s)
  <2>1. "sdlt" \in Tables /\ step[s] = "select_sdlt" /\ UNCHANGED <<rows, open, release, seeded>>
    BY <1>2 DEF SelectSdlt, Tables, Dated
  <2>2. release[s]["sdlt"] # None
    BY <2>1, ReleaseKeys
  <2>3. CASE \E t \in Inserted("sdlt") : rows["sdlt"][t] = release[s]["sdlt"]
    <3>1. step' = [step EXCEPT ![s] = "corporation_tax"]
      BY <1>2, <2>3, FollowingStep DEF SelectSdlt, Continue
    <3>2. "corporation_tax" \in Moves \ {"done", "idle"}
      BY DEF Moves, Tables, Dated
    <3>3. /\ \A u \in Tables \ {"sdlt"} : Passed(u, "corporation_tax") <=> Passed(u, step[s])
          /\ ~Passed("sdlt", step[s])
          /\ step[s] \notin {"idle", "done", "failed"}
      BY <2>1 DEF Passed
    <3>4. \E t \in Runs : rows["sdlt"][t] = release[s]["sdlt"]
      BY <2>3 DEF Inserted
    <3> QED BY <2>1, <3>1, <3>2, <3>3, <3>4, NoInsertInv
  <2>4. CASE \A t \in Inserted("sdlt") : rows["sdlt"][t] # release[s]["sdlt"]
    <3>1. step' = [step EXCEPT ![s] = "insert_sdlt"]
      BY <1>2, <2>4 DEF SelectSdlt, Continue
    <3>2. "insert_sdlt" \in Moves \ {"done", "idle"}
      BY DEF Moves
    <3>3. /\ \A u \in Tables \ {"sdlt"} : Passed(u, "insert_sdlt") <=> Passed(u, step[s])
          /\ ~Passed("sdlt", step[s]) /\ ~Passed("sdlt", "insert_sdlt")
          /\ step[s] \notin {"idle", "done", "failed"}
      BY <2>1 DEF Passed
    <3>4. \A t \in Runs : rows["sdlt"][t] # release[s]["sdlt"]
      BY <2>2, <2>4 DEF Inserted
    <3> QED BY <2>1, <3>1, <3>2, <3>3, <3>4, NoInsertInv
  <2> QED BY <2>3, <2>4
<1>3. CASE InsertSdlt(s)
  <2>1. /\ "sdlt" \in Tables /\ "sdlt" \notin Unique
        /\ "corporation_tax" \in Moves \ {"done", "idle", "insert_sdlt"}
    BY DEF Tables, Dated, Unique, Moves
  <2>2. /\ step[s] = "insert_sdlt" /\ step' = [step EXCEPT ![s] = "corporation_tax"]
        /\ UNCHANGED <<rows, release, seeded>> /\ Insert(s, "sdlt")
    BY <1>3, FollowingStep DEF InsertSdlt, Continue
  <2>3. /\ \A u \in Tables \ {"sdlt"} : Passed(u, "corporation_tax") <=> Passed(u, step[s])
        /\ Passed("sdlt", "corporation_tax")
        /\ step[s] \notin {"idle", "done", "failed"}
    BY <2>2 DEF Passed
  <2> QED BY <2>1, <2>2, <2>3, InsertInv
<1> QED BY <1>1, <1>2, <1>3, StartSeedInv, CommitInv, AbortInv DEF Seed, Unique

-----------------------------------------------------------------------------
(* Reads                                                                   *)

\* A version that was read, or that was active when an analysis began, is a committed row; an
\* analysis read rows of its date at least as new as those; a reproduction has the source's.
ReadInv ==
  \A q \in Requests :
    /\ pc[q] = "idle" => source[q] = None /\ \A table \in Dated : refs[q][table] = None
    /\ pc[q] = "corporation_tax" => refs[q]["sdlt"] # None
    /\ pc[q] = "assumption" => refs[q]["sdlt"] # None /\ refs[q]["corporation_tax"] # None
    /\ pc[q] = "done" => \A table \in Dated : refs[q][table] # None
    /\ source[q] # None =>
         /\ pc[q] # "not_found" /\ pc[source[q]] = "done"
         /\ \A table \in Dated : refs[q][table] \in {None, refs[source[q]][table]}
    /\ \A table \in Dated : refs[q][table] # None => rows[table][refs[q][table]] # None
    /\ source[q] = None /\ pc[q] # "idle" =>
         \A table \in Dated :
           /\ \A s \in start[q][table] : rows[table][s] # None /\ rows[table][s] <= date[q]
           /\ refs[q][table] # None =>
                /\ rows[table][refs[q][table]] <= date[q]
                /\ \A s \in start[q][table] : rows[table][refs[q][table]] >= rows[table][s]

\* Committed rows stay as they are.
LEMMA RowsStay ==
  ASSUME TypeInv, SeedInv, Next
  PROVE  \A table \in Tables, s \in Runs : rows[table][s] # None => rows'[table][s] = rows[table][s]
<1>1. ASSUME NEW s \in Runs, CommitSeed(s), NEW table \in Tables, NEW t \in Runs,
             rows[table][t] # None
      PROVE  rows'[table][t] = rows[table][t]
  <2>1. t # s
    BY <1>1 DEF CommitSeed, SeedInv, RowInv
  <2> QED BY <1>1, <2>1 DEF CommitSeed, TypeInv, TypeOK
<1>2. rows' = rows \/ \E s \in Runs : CommitSeed(s)
  BY DEF Next, StartSeed, Seed, SeedUnique, SelectSdlt, InsertSdlt, AbortSeed, StartAnalysis,
     StartReproduction, Read, ReadNothing, Terminated, vars
<1> QED BY <1>1, <1>2

\* Keys of dated tables are days.
LEMMA DatedKeys ==
  ASSUME TypeInv, SeedInv, NEW table \in Dated, NEW s \in Runs, rows[table][s] # None
  PROVE  rows[table][s] \in Int
<1>1. step[s] = "done" /\ rows[table][s] = release[s][table] /\ table \in Tables
  BY DEF SeedInv, RowInv, Tables
<1>2. release[s] \in Releases
  BY <1>1 DEF TypeInv
<1> QED BY <1>1, <1>2, ReleaseKeys, ConfigurationAssumption DEF Days

\* A read by date returns a row in force, as new as any row that was in force.
LEMMA FoundByDate ==
  ASSUME TypeInv, SeedInv, NEW table \in Dated, NEW q \in Requests, source[q] = None,
         NEW v \in Found(q, table)
  PROVE  /\ v \in Runs /\ rows[table][v] # None /\ rows[table][v] <= date[q]
         /\ \A s \in Runs : rows[table][s] # None /\ rows[table][s] <= date[q] =>
              rows[table][s] <= rows[table][v]
BY DEF Found, Active, InForce, Inserted

\* Every action keeps the invariant of reads.
LEMMA ReadStep ==
  ASSUME TypeInv, SeedInv, ReadInv, Next
  PROVE  ReadInv'
<1> USE DEF TypeInv, TypeOK
<1>1. Dated \subseteq Tables /\ "sdlt" \in Dated /\ "corporation_tax" \in Dated
  BY DEF Dated, Tables
<1>2. ASSUME NEW s \in Runs, (\E rel \in Releases : StartSeed(s, rel)) \/ Seed(s) \/ AbortSeed(s)
      PROVE ReadInv'
  <2>1. UNCHANGED <<pc, date, source, refs, start>>
    BY <1>2 DEF StartSeed, Seed, AbortSeed, SeedUnique, SelectSdlt, InsertSdlt, CommitSeed,
       requestVars
  <2>2. \A table \in Dated, t \in Runs : rows[table][t] # None => rows'[table][t] = rows[table][t]
    BY <1>1, RowsStay
  <2>3. \A q \in Requests, table \in Dated :
          /\ refs[q][table] # None =>
               /\ rows[table][refs[q][table]] # None
               /\ rows'[table][refs[q][table]] = rows[table][refs[q][table]]
          /\ source[q] = None /\ pc[q] # "idle" =>
               \A t \in start[q][table] :
                 rows[table][t] # None /\ rows'[table][t] = rows[table][t]
    BY <2>2 DEF ReadInv
  <2>4. \A q \in Requests, table \in Dated :
          refs[q][table] # None => rows'[table][refs[q][table]] # None
    BY <2>3
  <2>5. ASSUME NEW q \in Requests, NEW table \in Dated, source[q] = None, pc[q] # "idle"
        PROVE  /\ \A t \in start[q][table] : rows'[table][t] # None /\ rows'[table][t] <= date[q]
               /\ refs[q][table] # None =>
                    /\ rows'[table][refs[q][table]] <= date[q]
                    /\ \A t \in start[q][table] :
                         rows'[table][refs[q][table]] >= rows'[table][t]
    <3>1. /\ \A t \in start[q][table] : rows[table][t] # None /\ rows[table][t] <= date[q]
          /\ refs[q][table] # None =>
               /\ rows[table][refs[q][table]] <= date[q]
               /\ \A t \in start[q][table] : rows[table][refs[q][table]] >= rows[table][t]
      BY <2>5 DEF ReadInv
    <3> QED BY <2>3, <2>5, <3>1
  <2> QED BY <2>1, <2>4, <2>5 DEF ReadInv
<1>3. ASSUME NEW q \in Requests, NEW day \in Days, StartAnalysis(q, day) PROVE ReadInv'
  <2>1. \A table \in Dated : \A s \in start'[q][table] :
          rows[table][s] # None /\ rows[table][s] <= day
    BY <1>3 DEF StartAnalysis, Active, InForce, Inserted
  <2>2. /\ pc[q] = "idle" /\ pc' = [pc EXCEPT ![q] = "sdlt"] /\ date' = [date EXCEPT ![q] = day]
        /\ UNCHANGED <<rows, source, refs>>
        /\ \A r \in Requests : r # q => start'[r] = start[r]
    BY <1>3 DEF StartAnalysis
  <2> QED BY <2>1, <2>2 DEF ReadInv
<1>4. ASSUME NEW q \in Requests, NEW p \in Requests, StartReproduction(q, p) PROVE ReadInv'
  BY <1>4, ConfigurationAssumption DEF StartReproduction, ReadInv, seedVars
<1>5. ASSUME NEW q \in Requests, NEW table \in Dated, Read(q, table) PROVE ReadInv'
  <2>1. PICK v \in Found(q, table) : refs' = [refs EXCEPT ![q][table] = v]
    BY <1>5 DEF Read
  <2>2. /\ pc[q] = table /\ pc' = [pc EXCEPT ![q] = Reading[table]]
        /\ UNCHANGED <<rows, date, source, start>>
    BY <1>5 DEF Read
  <2>3. v \in Runs /\ rows[table][v] # None /\ v # None
    BY <2>1, ConfigurationAssumption DEF Found, Active, InForce, Inserted
  <2>4. /\ refs'[q][table] = v
        /\ \A t \in Dated : t # table => refs'[q][t] = refs[q][t]
        /\ \A r \in Requests : r # q => refs'[r] = refs[r]
    BY <2>1
  <2>5. source[q] # None =>
          v = refs[source[q]][table] /\ source[q] # q /\ pc[source[q]] = "done"
    BY <2>1, <2>2 DEF Found, ReadInv, Dated
  <2>6. \A r \in Requests : source[r] # None => source[r] # q
    BY <2>2 DEF ReadInv, Dated
  <2>7. source[q] = None =>
          /\ rows[table][v] <= date[q]
          /\ \A s \in start[q][table] : rows[table][v] >= rows[table][s]
    <3> SUFFICES ASSUME source[q] = None
                 PROVE  /\ rows[table][v] <= date[q]
                        /\ \A s \in start[q][table] : rows[table][v] >= rows[table][s]
      OBVIOUS
    <3>1. ASSUME NEW s \in start[q][table] PROVE rows[table][v] >= rows[table][s]
      <4>1. pc[q] # "idle" /\ s \in Runs
        BY <2>2 DEF Dated
      <4>2. rows[table][s] # None /\ rows[table][s] <= date[q]
        BY <4>1 DEF ReadInv
      <4>3. rows[table][s] <= rows[table][v]
        BY <2>1, <4>1, <4>2, FoundByDate
      <4> QED BY <2>3, <4>1, <4>2, <4>3, DatedKeys
    <3> QED BY <2>1, <3>1, FoundByDate
  <2> SUFFICES ASSUME NEW r \in Requests
               PROVE
    /\ pc'[r] = "idle" => source[r] = None /\ \A t \in Dated : refs'[r][t] = None
    /\ pc'[r] = "corporation_tax" => refs'[r]["sdlt"] # None
    /\ pc'[r] = "assumption" => refs'[r]["sdlt"] # None /\ refs'[r]["corporation_tax"] # None
    /\ pc'[r] = "done" => \A t \in Dated : refs'[r][t] # None
    /\ source[r] # None =>
         /\ pc'[r] # "not_found" /\ pc'[source[r]] = "done"
         /\ \A t \in Dated : refs'[r][t] \in {None, refs'[source[r]][t]}
    /\ \A t \in Dated : refs'[r][t] # None => rows[t][refs'[r][t]] # None
    /\ source[r] = None /\ pc'[r] # "idle" =>
         \A t \in Dated :
           /\ \A s \in start[r][t] : rows[t][s] # None /\ rows[t][s] <= date[r]
           /\ refs'[r][t] # None =>
                /\ rows[t][refs'[r][t]] <= date[r]
                /\ \A s \in start[r][t] : rows[t][refs'[r][t]] >= rows[t][s]
    BY <2>2 DEF ReadInv
  <2>8. CASE r # q
    BY <2>2, <2>4, <2>6, <2>8 DEF ReadInv
  <2>9. CASE r = q
    <3>1. pc[q] # "idle" /\ pc'[q] = Reading[table] /\ Reading[table] \notin {"idle", "not_found"}
      BY <2>2, ReadingStep DEF Dated
    <3>2. /\ pc'[q] = "corporation_tax" => refs'[q]["sdlt"] # None
          /\ pc'[q] = "assumption" => refs'[q]["sdlt"] # None /\ refs'[q]["corporation_tax"] # None
          /\ pc'[q] = "done" => \A t \in Dated : refs'[q][t] # None
      BY <1>1, <2>2, <2>3, <2>4, <3>1, ReadingStep DEF Dated, ReadInv
    <3>3. source[q] # None =>
            /\ pc'[source[q]] = "done"
            /\ \A t \in Dated : refs'[q][t] \in {None, refs'[source[q]][t]}
      <4> SUFFICES ASSUME source[q] # None
                   PROVE  /\ pc'[source[q]] = "done"
                          /\ \A t \in Dated : refs'[q][t] \in {None, refs'[source[q]][t]}
        OBVIOUS
      <4>1. source[q] \in Requests \ {q} /\ refs'[source[q]] = refs[source[q]]
        BY <2>4, <2>5
      <4>2. pc'[source[q]] = "done"
        BY <2>2, <2>5, <4>1
      <4>3. ASSUME NEW t \in Dated PROVE refs'[q][t] \in {None, refs[source[q]][t]}
        <5>1. CASE t = table
          BY <2>4, <2>5, <5>1
        <5>2. CASE t # table
          BY <2>4, <5>2 DEF ReadInv
        <5> QED BY <5>1, <5>2
      <4> QED BY <4>1, <4>2, <4>3
    <3>4. ASSUME NEW t \in Dated, refs'[q][t] # None PROVE rows[t][refs'[q][t]] # None
      <4>1. CASE t = table
        BY <2>3, <2>4, <4>1
      <4>2. CASE t # table
        BY <2>4, <3>4, <4>2 DEF ReadInv
      <4> QED BY <4>1, <4>2
    <3>5. source[q] = None =>
            \A t \in Dated :
              /\ \A s \in start[q][t] : rows[t][s] # None /\ rows[t][s] <= date[q]
              /\ refs'[q][t] # None =>
                   /\ rows[t][refs'[q][t]] <= date[q]
                   /\ \A s \in start[q][t] : rows[t][refs'[q][t]] >= rows[t][s]
      BY <2>4, <2>7, <3>1 DEF ReadInv
    <3> QED BY <2>9, <3>1, <3>2, <3>3, <3>4, <3>5
  <2> QED BY <2>8, <2>9
<1>6. ASSUME NEW q \in Requests, NEW table \in Dated, ReadNothing(q, table) PROVE ReadInv'
  <2>1. /\ pc[q] = table /\ pc' = [pc EXCEPT ![q] = "not_found"]
        /\ UNCHANGED <<rows, date, source, refs, start>> /\ Found(q, table) = {}
    BY <1>6 DEF ReadNothing
  <2>2. source[q] = None
    <3> SUFFICES ASSUME source[q] # None PROVE FALSE
      OBVIOUS
    <3>1. /\ source[q] \in Requests /\ refs[source[q]][table] \in Runs
          /\ rows[table][refs[source[q]][table]] # None
      BY DEF ReadInv
    <3>2. refs[source[q]][table] \in Found(q, table)
      BY <3>1 DEF Found, Inserted
    <3> QED BY <2>1, <3>2
  <2>3. \A r \in Requests : source[r] # None => source[r] # q
    BY <2>1 DEF ReadInv, Dated
  <2> QED BY <2>1, <2>2, <2>3 DEF ReadInv, Dated
<1>7. CASE Terminated
  BY <1>7 DEF Terminated, vars, seedVars, requestVars, ReadInv
<1> QED BY <1>2, <1>3, <1>4, <1>5, <1>6, <1>7 DEF Next

-----------------------------------------------------------------------------
(* Theorems                                                                *)

IInv == TypeInv /\ SeedInv /\ ReadInv

\* The inductive invariant behind every theorem below.
THEOREM Inductive == Spec => []IInv
<1>1. Init => IInv
  <2>1. Init => SeedInv
    BY DEF Init, SeedInv, RowInv, KeyInv, Covered, SdltInv, RerunInv, Passed, Holds, Unique,
       Tables, Dated
  <2>2. Init => ReadInv
    BY DEF Init, ReadInv, Dated
  <2> QED BY <2>1, <2>2, TypeInit DEF IInv
<1>2. IInv /\ [Next]_vars => IInv'
  <2>1. CASE Next
    <3>1. SUFFICES ASSUME IInv PROVE SeedInv'
      BY <2>1, TypeStep, ReadStep DEF IInv
    <3>2. CASE UNCHANGED <<rows, open, seedVars>>
      BY <3>1, <3>2 DEF IInv, seedVars, SeedInv, RowInv, KeyInv, Covered, SdltInv, RerunInv, Holds
    <3>3. ASSUME NEW s \in Runs,
                 (\E rel \in Releases : StartSeed(s, rel)) \/ Seed(s) \/ AbortSeed(s)
          PROVE  SeedInv'
      BY <3>1, <3>3, SeedStep DEF IInv
    <3>4. \/ UNCHANGED <<rows, open, seedVars>>
          \/ \E s \in Runs : (\E rel \in Releases : StartSeed(s, rel)) \/ Seed(s) \/ AbortSeed(s)
      BY <2>1 DEF Next, StartAnalysis, StartReproduction, Read, ReadNothing, Terminated, vars
    <3> QED BY <3>2, <3>3, <3>4
  <2>2. CASE UNCHANGED vars
    <3>1. TypeInv => TypeInv'
      BY <2>2 DEF TypeInv, TypeOK, vars, seedVars, requestVars
    <3>2. SeedInv => SeedInv'
      BY <2>2 DEF vars, seedVars, SeedInv, RowInv, KeyInv, Covered, SdltInv, RerunInv, Holds
    <3>3. ReadInv => ReadInv'
      BY <2>2 DEF vars, requestVars, ReadInv
    <3> QED BY <3>1, <3>2, <3>3 DEF IInv
  <2> QED BY <2>1, <2>2
<1> QED BY <1>1, <1>2, PTL DEF Spec

\* Every row, statement and read keeps its type, for any constants.
THEOREM TypeCorrect == Spec => []TypeOK
<1>1. IInv => TypeOK
  BY DEF IInv, TypeInv
<1> QED BY <1>1, Inductive, PTL

\* I-15 where the schema has a unique key, for any number of instances starting together.
THEOREM UniqueVersions == Spec => []OneVersionPerDate
<1>1. ASSUME IInv PROVE OneVersionPerDate
  <2> SUFFICES ASSUME NEW table \in Unique, NEW s \in Inserted(table), NEW t \in Inserted(table),
                      rows[table][s] = rows[table][t]
               PROVE  s = t
    BY DEF OneVersionPerDate, OneVersionPerKey, Unique
  <2>1. /\ table \in Tables /\ s \in Runs /\ t \in Runs
        /\ rows[table][s] # None /\ rows[table][t] # None
    BY DEF Inserted, Unique
  <2>2. release[s][table] = release[t][table]
    BY <1>1, <2>1 DEF IInv, SeedInv, RowInv
  <2> QED BY <1>1, <2>1, <2>2 DEF IInv, SeedInv, KeyInv, Holds
<1> QED BY <1>1, Inductive, PTL

\* I-15 for SDLT: two versions of one date come from releases that did not register an engine
\* version, however many instances start together.
THEOREM GuardedSdlt == Spec => []RegistrationGuardsSdlt
<1>1. ASSUME IInv PROVE RegistrationGuardsSdlt
  <2>1. ASSUME NEW s \in Runs, NEW t \in Runs, s # t, rows["sdlt"][s] # None, rows["sdlt"][t] # None,
               rows["sdlt"][s] = rows["sdlt"][t], release[s]["engine"] = release[t]["engine"]
        PROVE  rows["engine"][s] = None
    <3>1. "sdlt" \in Tables
      BY DEF Tables, Dated
    <3>2. release[s]["sdlt"] = release[t]["sdlt"]
      BY <1>1, <2>1, <3>1 DEF IInv, SeedInv, RowInv
    <3> QED BY <1>1, <2>1, <3>2 DEF IInv, SeedInv, SdltInv
  <2> QED BY <2>1 DEF RegistrationGuardsSdlt, Inserted
<1> QED BY <1>1, Inductive, PTL

\* What an analysis reads lies between what was active when it began and what its date allows.
THEOREM BracketedReads == Spec => []ReadsAreBracketed
<1>1. ASSUME IInv PROVE ReadsAreBracketed
  <2> SUFFICES ASSUME NEW q \in Requests, NEW table \in Dated, refs[q][table] # None,
                      source[q] = None
               PROVE  /\ refs[q][table] \in InForce(table, date[q])
                      /\ \A s \in start[q][table] : rows[table][refs[q][table]] >= rows[table][s]
    BY DEF ReadsAreBracketed
  <2>1. pc[q] # "idle" /\ refs[q][table] \in Runs
    BY <1>1 DEF IInv, ReadInv, TypeInv, TypeOK
  <2> QED BY <1>1, <2>1 DEF IInv, ReadInv, InForce, Inserted
<1> QED BY <1>1, Inductive, PTL

\* A reproduction finds the very versions of its source, whatever was seeded since.
THEOREM SameVersions == Spec => []ReproductionUsesSameVersions
<1>1. IInv => ReproductionUsesSameVersions
  BY DEF IInv, ReadInv, ReproductionUsesSameVersions
<1> QED BY <1>1, Inductive, PTL

\* Runs that wait for each other's keys meet the tables in one order, so one can go on.
THEOREM NoDeadlock == Spec => []NoSeedDeadlock
<1>1. ASSUME IInv PROVE NoSeedDeadlock
  <2> USE <1>1 DEF IInv, TypeInv, TypeOK
  <2>1. ASSUME NEW s \in Runs, Running(s), Blocked(s)
        PROVE  \E t \in Runs : Running(t) /\ Passed(step[s], step[t]) /\ step[s] \in Unique
    <3>1. PICK table \in Unique, t \in Runs :
            step[s] = table /\ open[table][t] = release[s][table]
      BY <2>1 DEF Blocked, Unique
    <3>2. table \in Tables /\ open[table][t] # None
      BY <2>1, <3>1, ReleaseKeys DEF Running, Unique
    <3>3. Passed(table, step[t]) /\ step[t] # "done"
      BY <3>2 DEF SeedInv, RowInv
    <3>4. Running(t)
      BY <3>3 DEF Running, Passed
    <3> QED BY <3>1, <3>3, <3>4
  <2>2. ASSUME NEW s \in Runs, Running(s), step[s] \notin Unique PROVE ~Blocked(s)
    BY <2>2 DEF Blocked, Unique
  <2>3. ASSUME NEW s \in Runs, Running(s), step[s] = "assumption"
        PROVE  \E t \in Runs : Running(t) /\ ~Blocked(t)
    <3>1. CASE Blocked(s)
      <4>1. PICK t \in Runs : Running(t) /\ Passed("assumption", step[t])
        BY <2>1, <2>3, <3>1
      <4>2. step[t] \notin Unique
        BY <4>1 DEF Passed, Unique, Tables, Dated
      <4> QED BY <2>2, <4>1, <4>2
    <3> QED BY <2>3, <3>1
  <2>4. ASSUME NEW s \in Runs, Running(s), step[s] = "corporation_tax"
        PROVE  \E t \in Runs : Running(t) /\ ~Blocked(t)
    <3>1. CASE Blocked(s)
      <4>1. PICK t \in Runs : Running(t) /\ Passed("corporation_tax", step[t])
        BY <2>1, <2>4, <3>1
      <4>2. step[t] = "assumption" \/ step[t] \notin Unique
        BY <4>1 DEF Passed, Unique, Tables, Dated
      <4> QED BY <2>2, <2>3, <4>1, <4>2
    <3> QED BY <2>4, <3>1
  <2>5. ASSUME NEW s \in Runs, Running(s) PROVE \E t \in Runs : Running(t) /\ ~Blocked(t)
    <3>1. CASE step[s] = "engine" /\ Blocked(s)
      <4>1. PICK t \in Runs : Running(t) /\ Passed("engine", step[t])
        BY <2>1, <2>5, <3>1
      <4>2. step[t] \in {"assumption", "corporation_tax"} \/ step[t] \notin Unique
        BY <4>1 DEF Passed, Unique, Tables, Dated
      <4> QED BY <2>2, <2>3, <2>4, <4>1, <4>2
    <3>2. step[s] \in {"engine", "assumption", "corporation_tax"} \/ step[s] \notin Unique
      BY DEF Unique, Tables, Dated
    <3> QED BY <2>2, <2>3, <2>4, <2>5, <3>1, <3>2
  <2> QED BY <2>5 DEF NoSeedDeadlock
<1> QED BY <1>1, Inductive, PTL

\* "Idempotent: safe to re-run", of any release, beside any other runs.
THEOREM Idempotent == Spec => RerunAddsNothing
<1> DEFINE Adds(s) == step[s] = "commit" /\ step'[s] = "done" /\ release[s] \in seeded[s] => rows' = rows
<1>1. ASSUME IInv, [Next]_vars, NEW s \in Runs PROVE Adds(s)
  <2> USE <1>1 DEF IInv, TypeInv, TypeOK
  <2> SUFFICES ASSUME step[s] = "commit", step'[s] = "done", release[s] \in seeded[s]
               PROVE  rows' = rows
    OBVIOUS
  <2>1. CASE rows' = rows
    BY <2>1
  <2>2. ASSUME NEW t \in Runs, CommitSeed(t) PROVE rows' = rows
    <3>1. t = s
      BY <2>2 DEF CommitSeed, Continue
    <3>2. \A table \in Tables : open[table][s] = None /\ rows[table][s] = None
      BY DEF SeedInv, RowInv, RerunInv
    <3>3. rows' = [table \in Tables |-> [rows[table] EXCEPT ![s] = open[table][s]]]
      BY <2>2, <3>1 DEF CommitSeed
    <3>4. \A table \in Tables : [rows[table] EXCEPT ![s] = open[table][s]] = rows[table]
      BY <3>2
    <3> QED BY <3>3, <3>4
  <2>3. rows' = rows \/ \E t \in Runs : CommitSeed(t)
    BY DEF Next, StartSeed, Seed, SeedUnique, SelectSdlt, InsertSdlt, AbortSeed, StartAnalysis,
       StartReproduction, Read, ReadNothing, Terminated, vars
  <2> QED BY <2>1, <2>2, <2>3
<1>2. IInv /\ [Next]_vars => [\A s \in Runs : Adds(s)]_vars
  BY <1>1
<1> QED BY <1>2, Inductive, PTL DEF Spec, RerunAddsNothing


=============================================================================
